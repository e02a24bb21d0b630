------------------------ MODULE LockedCounterProofs ------------------------
(***************************************************************************)
(* Proofs about LockedCounter for any number of children, iterations and   *)
(* kills.  The lock is what makes the load-and-store pair atomic:          *)
(* OwnerInside says that who is inside owns the lock, so that two children *)
(* inside would be one owner, and FreshRead that nobody else can have      *)
(* changed the counter since a child loaded it.  With every store an       *)
(* increment, the counter is DELTA times the number of iterations done.    *)
(***************************************************************************)
EXTENDS LockedCounter, FiniteSetTheorems, TLAPS

\* The state before the fork loop satisfies the invariant.
LEMMA CounterInvInit == Init => CounterInv
<1> SUFFICES ASSUME Init PROVE CounterInv
  OBVIOUS
<1> USE CounterAssumption DEF Init, ProcInit
<1>1. TypeOK /\ LoopInv
  BY DEF TypeOK, ProcTypeOK, ChildStates, Critical, LoopInv, Free, Children
<1>2. FinalWhenPrinted /\ OwnerInside /\ FreshRead
  BY DEF FinalWhenPrinted, OwnerInside, FreshRead, Critical
<1> QED
  BY <1>1, <1>2 DEF CounterInv

\* Every step of the parent, of a child and of the killer preserves it.
LEMMA CounterInvStep == CounterInv /\ [Next]_vars => CounterInv'
<1> SUFFICES ASSUME CounterInv, [Next]_vars PROVE CounterInv'
  OBVIOUS
<1> USE CounterAssumption, MechanismAssumption
    DEF CounterInv, TypeOK, ProcTypeOK, ChildStates, Critical, LoopInv, FinalWhenPrinted,
        OwnerInside, FreshRead, Children, Free, Description, Owner
<1>1. CASE Parent
  <2>1. CASE Fork /\ UNCHANGED <<lock, mechanism>>
    <3> USE <2>1 DEF Fork
    <3>1. /\ n + 1 \in Children /\ ChildLoop(0) \in {"lock", "zombie"}
          /\ ChildLoop(0) = "lock" => 0 < ITERATIONS
      BY DEF ChildLoop
    <3>2. TypeOK'
      <4>1. pc' \in [Children -> ChildStates]
        BY <3>1, SMTT(30)
      <4>2. n' \in 0 .. N
        OBVIOUS
      <4> QED
        BY <4>1, <4>2
    <3>3. LoopInv'
      <4> SUFFICES ASSUME NEW c \in Children
                   PROVE  /\ pc'[c] \in {"lock", "load", "store"} => j'[c] < ITERATIONS
                          /\ pc'[c] = "unborn" => j'[c] = 0
                          /\ c > n' => pc'[c] = "unborn"
        OBVIOUS
      <4>1. CASE c = n + 1
        BY <3>1, <4>1
      <4>2. CASE c # n + 1
        BY <3>1, <4>2
      <4> QED
        BY <4>1, <4>2
    <3>4. FinalWhenPrinted' /\ (mechanism # "ofd" => OwnerInside' /\ FreshRead')
      BY <3>1, ZenonT(60)
    <3> QED
      BY <3>2, <3>3, <3>4
  <2>2. CASE ForkDone /\ UNCHANGED <<lock, mechanism>>
    BY <2>2 DEF ForkDone
  <2>3. CASE (\E c \in Children : Reap(c)) /\ UNCHANGED <<lock, mechanism>>
    BY <2>3 DEF Reap
  <2>4. CASE Report /\ UNCHANGED <<lock, mechanism>>
    BY <2>4 DEF Report
  <2> QED
    BY <1>1, <2>1, <2>2, <2>3, <2>4, ZenonT(60) DEF Parent
<1>2. ASSUME NEW c \in Children, Child(c) PROVE CounterInv'
  <2>1. CASE Acquire(c) /\ UNCHANGED mechanism
    <3> USE <2>1 DEF Acquire
    <3>1. TypeOK' /\ LoopInv'
      BY ZenonT(60)
    <3>2. FinalWhenPrinted' /\ (mechanism # "ofd" => OwnerInside' /\ FreshRead')
      OBVIOUS
    <3> QED
      BY <3>1, <3>2
  <2>2. CASE Release(c) /\ UNCHANGED mechanism
    <3> USE <2>2 DEF Release
    <3>1. /\ ChildLoop(j[c]) \in {"lock", "zombie"}
          /\ ChildLoop(j[c]) = "lock" => j[c] < ITERATIONS
      BY DEF ChildLoop
    <3>2. TypeOK'
      BY <3>1, SMTT(30)
    <3>3. LoopInv' /\ FinalWhenPrinted'
      BY <3>1
    <3>4. mechanism # "ofd" => OwnerInside' /\ FreshRead'
      BY <3>1
    <3> QED
      BY <3>2, <3>3, <3>4
  <2>3. CASE Load(c) /\ UNCHANGED <<lock, mechanism>>
    BY <2>3, SMTT(30) DEF Load
  <2>4. CASE Store(c) /\ UNCHANGED <<lock, mechanism>>
    <3> USE <2>4 DEF Store
    <3>1. TypeOK'
      <4>1. j[c] + 1 \in 0 .. ITERATIONS /\ reg[c] + DELTA \in Int
        OBVIOUS
      <4> QED
        BY <4>1
    <3>2. LoopInv' /\ FinalWhenPrinted'
      OBVIOUS
    <3>3. mechanism # "ofd" => OwnerInside' /\ FreshRead'
      BY SMTT(30)
    <3> QED
      BY <3>1, <3>2, <3>3, SMTT(30)
  <2> QED
    BY <1>2, <2>1, <2>2, <2>3, <2>4, ZenonT(60) DEF Child
<1>3. ASSUME NEW c \in Children, Die(c), UNCHANGED mechanism PROVE CounterInv'
  BY <1>3, SMTT(30) DEF Die, Killed
<1>4. CASE UNCHANGED vars
  BY <1>4 DEF vars, procVars
<1> QED
  BY <1>1, <1>2, <1>3, <1>4, ZenonT(60) DEF Next

\* CounterInv holds in every reachable state of the three counter programs:
\* the types, the loop bounds, that main() prints only once no child is left,
\* and, for record locks and the mutex, ownership and freshness.
THEOREM CounterInvariance == Spec => []CounterInv
<1> QED
  BY CounterInvInit, CounterInvStep, PTL DEF Spec

\* With fcntl record locks and with the process-shared mutex no two children
\* are ever between lock and unlock, whoever is killed.
THEOREM CounterMutualExclusion ==
  ASSUME "ofd" \notin Mechanisms PROVE Spec => []MutualExclusion
<1>1. CounterInv => MutualExclusion
  BY DEF CounterInv, TypeOK, OwnerInside, MutualExclusion, Owner
<1> QED
  BY <1>1, CounterInvariance, PTL

\* With them no update is lost: the counter only ever changes by DELTA.
THEOREM CounterStepAddsDelta ==
  ASSUME "ofd" \notin Mechanisms PROVE Spec => StepAddsDelta
<1>1. CounterInv /\ [Next]_vars => [counter' \in {counter, counter + DELTA}]_counter
  <2> SUFFICES ASSUME CounterInv, Next
               PROVE  counter' \in {counter, counter + DELTA}
    BY DEF vars, procVars
  <2>1. CASE Parent
    BY <2>1 DEF Parent, Fork, ForkDone, Reap, Report
  <2>2. ASSUME NEW c \in Children, Child(c)
        PROVE  counter' \in {counter, counter + DELTA}
    BY <2>2 DEF Child, Acquire, Release, Load, Store, CounterInv, TypeOK, FreshRead
  <2>3. ASSUME NEW c \in Children, Die(c) PROVE counter' = counter
    BY <2>3 DEF Die, Killed
  <2> QED
    BY <2>1, <2>2, <2>3 DEF Next
<1> QED
  BY <1>1, CounterInvariance, PTL DEF Spec, StepAddsDelta

\* Under every mechanism the number main() prints is final: every child has
\* been reaped by then.
THEOREM CounterFinalWhenPrinted == Spec => []FinalWhenPrinted
<1>1. CounterInv => FinalWhenPrinted
  BY DEF CounterInv
<1> QED
  BY <1>1, CounterInvariance, PTL

-----------------------------------------------------------------------------
(* What the counter holds.                                                 *)

\* A child that has ended was killed or has made all its additions, and the
\* killed have ended.
EndInv == /\ \A c \in Children : pc[c] \in {"zombie", "reaped"} => c \in died \/ j[c] = ITERATIONS
          /\ \A c \in died : pc[c] \in {"zombie", "reaped"}

\* There are finitely many additions; one more of child c is one more in all,
\* and when every child is through there are ITERATIONS of each.
LEMMA AdditionsCounted ==
  ASSUME j \in [Children -> 0 .. ITERATIONS]
  PROVE  /\ IsFiniteSet(Additions) /\ Cardinality(Additions) \in Nat
         /\ \A c \in Children :
              j[c] < ITERATIONS /\ j' = [j EXCEPT ![c] = @ + 1]
                => Cardinality(Additions') = Cardinality(Additions) + 1
         /\ (\A c \in Children : j[c] = ITERATIONS) => Cardinality(Additions) = N * ITERATIONS
<1> DEFINE All == Children \X (1 .. ITERATIONS)
<1>1. IsFiniteSet(All) /\ Cardinality(All) = N * ITERATIONS
  <2>1. IsFiniteSet(Children) /\ Cardinality(Children) = N
    BY FS_Interval, CounterAssumption DEF Children
  <2>2. IsFiniteSet(1 .. ITERATIONS) /\ Cardinality(1 .. ITERATIONS) = ITERATIONS
    BY FS_Interval, CounterAssumption
  <2> QED BY <2>1, <2>2, FS_Product, ZenonT(40)
<1>2. IsFiniteSet(Additions) /\ Cardinality(Additions) \in Nat
  <2>1. Additions \in SUBSET All
    BY DEF Additions
  <2> QED BY <1>1, <2>1, FS_Subset, FS_CardinalityType
<1>3. ASSUME NEW c \in Children, j[c] < ITERATIONS, j' = [j EXCEPT ![c] = @ + 1]
      PROVE  Cardinality(Additions') = Cardinality(Additions) + 1
  <2>1. j[c] + 1 \in 1 .. ITERATIONS /\ j[c] \in Nat
    BY <1>3, CounterAssumption
  <2>2. <<c, j[c] + 1>> \notin Additions
    BY <2>1 DEF Additions
  <2>3. Additions' = Additions \cup {<<c, j[c] + 1>>}
    <3>1. ASSUME NEW a \in All PROVE a[2] <= j'[a[1]] <=> a[2] <= j[a[1]] \/ a = <<c, j[c] + 1>>
      <4>1. a = <<a[1], a[2]>> /\ a[1] \in Children /\ a[2] \in 1 .. ITERATIONS
        OBVIOUS
      <4>2. CASE a[1] = c
        BY <1>3, <2>1, <4>1, <4>2
      <4>3. CASE a[1] # c
        BY <1>3, <2>1, <4>1, <4>3
      <4> QED BY <4>2, <4>3
    <3>2. <<c, j[c] + 1>> \in All
      BY <2>1
    <3>3. Additions' = {a \in All : a[2] <= j'[a[1]]}
      BY DEF Additions, Children
    <3> QED BY <3>1, <3>2, <3>3 DEF Additions
  <2> QED BY <1>2, <2>2, <2>3, FS_AddElement, ZenonT(40)
<1>4. ASSUME \A c \in Children : j[c] = ITERATIONS
      PROVE  Cardinality(Additions) = N * ITERATIONS
  <2>1. Additions = All
    BY <1>4, CounterAssumption DEF Additions
  <2> QED BY <2>1, <1>1
<1> QED BY <1>2, <1>3, <1>4

\* Every step preserves EndInv.
LEMMA EndInvStep == CounterInv /\ EndInv /\ [Next]_vars => EndInv'
<1> SUFFICES ASSUME CounterInv, EndInv, [Next]_vars PROVE EndInv'
  OBVIOUS
<1> USE DEF EndInv, CounterInv, TypeOK, ProcTypeOK
<1>1. CASE Parent
  <2>1. CASE Fork
    <3>1. n + 1 \in Children /\ pc[n + 1] = "unborn" /\ j[n + 1] = 0
      BY <2>1, CounterAssumption DEF Fork, Children, LoopInv
    <3>2. n + 1 \notin died /\ died' = died /\ j' = j
      BY <2>1, <3>1 DEF Fork
    <3>3. ChildLoop(0) = "zombie" => ITERATIONS = 0
      BY CounterAssumption DEF ChildLoop
    <3>4. ChildLoop(0) \in {"lock", "zombie"}
      BY DEF ChildLoop
    <3> QED BY <2>1, <3>1, <3>2, <3>3, <3>4 DEF Fork
  <2>2. CASE ForkDone \/ Report
    BY <2>2 DEF ForkDone, Report
  <2>3. CASE \E c \in Children : Reap(c)
    BY <2>3 DEF Reap
  <2> QED BY <1>1, <2>1, <2>2, <2>3 DEF Parent
<1>2. ASSUME NEW c \in Children, Child(c) PROVE EndInv'
  <2>1. CASE Acquire(c)
    BY <2>1 DEF Acquire
  <2>2. CASE Release(c)
    <3>1. ChildLoop(j[c]) = "zombie" => j[c] = ITERATIONS
      BY CounterAssumption DEF ChildLoop
    <3>2. c \notin died /\ died' = died /\ j' = j
      BY <2>2 DEF Release
    <3>3. \A d \in Children : pc'[d] = IF d = c THEN ChildLoop(j[c]) ELSE pc[d]
      BY <2>2 DEF Release
    <3>4. ChildLoop(j[c]) \in {"lock", "zombie"}
      BY DEF ChildLoop
    <3> QED BY <3>1, <3>2, <3>3, <3>4
  <2>3. CASE Load(c)
    BY <2>3 DEF Load
  <2>4. CASE Store(c)
    BY <2>4 DEF Store
  <2> QED BY <1>2, <2>1, <2>2, <2>3, <2>4 DEF Child
<1>3. ASSUME NEW c \in Children, Die(c) PROVE EndInv'
  BY <1>3 DEF Die, Killed
<1>4. CASE UNCHANGED vars
  BY <1>4 DEF vars, procVars
<1> QED BY <1>1, <1>2, <1>3, <1>4 DEF Next

\* Every step of the exclusive mechanisms keeps the counter equal to the sum of
\* the additions: only a store changes either, and both by one addition.
LEMMA NoLostUpdateStep ==
  CounterInv /\ mechanism # "ofd" /\ NoLostUpdate /\ [Next]_vars => NoLostUpdate'
<1> SUFFICES ASSUME CounterInv, mechanism # "ofd", NoLostUpdate, [Next]_vars PROVE NoLostUpdate'
  OBVIOUS
<1>1. CASE \E c \in Children : Store(c)
  <2>1. PICK c \in Children : Store(c)
    BY <1>1
  <2>2. counter' = counter + DELTA /\ j' = [j EXCEPT ![c] = @ + 1] /\ j[c] < ITERATIONS
    BY <2>1 DEF Store, CounterInv, FreshRead, LoopInv
  <2>3. j \in [Children -> 0 .. ITERATIONS]
    BY DEF CounterInv, TypeOK, ProcTypeOK
  <2>4. Cardinality(Additions') = Cardinality(Additions) + 1 /\ Cardinality(Additions) \in Nat
    BY <2>2, <2>3, AdditionsCounted, ZenonT(40)
  <2> QED BY <2>2, <2>4, CounterAssumption DEF NoLostUpdate
<1>2. CASE counter' = counter /\ j' = j
  BY <1>2 DEF NoLostUpdate, Additions
<1>3. (\E c \in Children : Store(c)) \/ (counter' = counter /\ j' = j)
  BY DEF Next, Parent, Fork, ForkDone, Reap, Report, Child, Acquire, Release, Load, Die, Killed,
         vars, procVars
<1> QED BY <1>1, <1>2, <1>3

\* The invariant about the counter's value.
UpdateInv == CounterInv /\ EndInv /\ (mechanism # "ofd" => NoLostUpdate)

\* It holds in every reachable state.
LEMMA UpdateInvariance == Spec => []UpdateInv
<1>1. Init => UpdateInv
  <2> SUFFICES ASSUME Init PROVE EndInv /\ NoLostUpdate
    BY CounterInvInit DEF UpdateInv
  <2>1. EndInv
    BY DEF Init, ProcInit, EndInv
  <2>2. Additions = {}
    BY DEF Init, ProcInit, Additions, Children
  <2>3. NoLostUpdate
    BY <2>2, FS_EmptySet, CounterAssumption DEF NoLostUpdate, Init, ProcInit
  <2> QED BY <2>1, <2>3
<1>2. UpdateInv /\ [Next]_vars => UpdateInv'
  <2>1. [Next]_vars => mechanism' = mechanism
    BY DEF Next, Parent, Child, vars
  <2> QED BY <2>1, CounterInvStep, EndInvStep, NoLostUpdateStep DEF UpdateInv
<1> QED BY <1>1, <1>2, PTL DEF Spec

\* With record locks and with the mutex the shared int is at every moment DELTA
\* times the additions the children have made, whoever is killed and wherever.
THEOREM CounterNoLostUpdate ==
  ASSUME "ofd" \notin Mechanisms PROVE Spec => []NoLostUpdate
<1>1. UpdateInv => NoLostUpdate
  BY DEF UpdateInv, CounterInv, TypeOK
<1> QED BY <1>1, UpdateInvariance, PTL

\* If every fork succeeded and nobody was killed, main() prints the number it
\* expects: what each child adds, times the children.
THEOREM CounterPrintsExpected ==
  ASSUME "ofd" \notin Mechanisms PROVE Spec => []PrintsExpected
<1>1. UpdateInv => PrintsExpected
  <2> SUFFICES ASSUME UpdateInv, ppc = "done", died = {}, \A c \in Children : pc[c] # "unborn"
               PROVE  printed = DELTA * ITERATIONS * N
    BY DEF PrintsExpected
  <2>1. printed = counter /\ \A c \in Children : pc[c] = "reaped"
    BY DEF UpdateInv, CounterInv, FinalWhenPrinted
  <2>2. j \in [Children -> 0 .. ITERATIONS] /\ \A c \in Children : j[c] = ITERATIONS
    BY <2>1 DEF UpdateInv, EndInv, CounterInv, TypeOK, ProcTypeOK
  <2>3. counter = DELTA * (N * ITERATIONS)
    BY <2>2, AdditionsCounted DEF UpdateInv, NoLostUpdate, CounterInv, TypeOK
  <2> QED BY <2>1, <2>3, CounterAssumption
<1> QED BY <1>1, UpdateInvariance, PTL

\* The mutex is not robust: once its owner is dead no child ever enters the
\* critical section again, so that the int never changes again.
THEOREM OrphanedMutexStaysLocked == Spec => OrphanedMutexBlocks
<1> DEFINE Blocked == Orphaned' /\ counter' = counter /\ \A c \in Children : pc'[c] \notin Critical
<1>1. UpdateInv /\ [Next]_vars => [mechanism = "mutex" /\ Orphaned => Blocked]_vars
  <2> SUFFICES ASSUME UpdateInv, Next, mechanism = "mutex", Orphaned PROVE Blocked
    OBVIOUS
  <2> USE DEF Orphaned, UpdateInv, CounterInv, TypeOK, ProcTypeOK
  <2>1. \A c \in Children : pc[c] \notin Critical
    BY DEF EndInv, OwnerInside, Owner, Critical
  <2>2. lock \in Children /\ lock # Free
    BY CounterAssumption DEF Children, Free
  <2>3. CASE Parent
    <3>1. \A c \in Children : pc'[c] \notin Critical
      BY <2>1, <2>3 DEF Parent, Fork, ForkDone, Reap, Report, ChildLoop, Critical
    <3> QED BY <2>3, <3>1 DEF Parent, Fork, ForkDone, Reap, Report
  <2>4. ASSUME NEW c \in Children, Child(c) PROVE FALSE
    <3>1. CASE Acquire(c)
      BY <2>2, <3>1, lock # c DEF Acquire, Owner, EndInv
    <3>2. CASE Release(c) \/ Load(c) \/ Store(c)
      BY <2>1, <3>2 DEF Release, Load, Store, Critical
    <3> QED BY <2>4, <3>1, <3>2 DEF Child
  <2>5. ASSUME NEW c \in Children, Die(c) PROVE Blocked
    BY <2>1, <2>5 DEF Die, Killed, Critical
  <2> QED BY <2>3, <2>4, <2>5 DEF Next
<1> QED BY <1>1, UpdateInvariance, PTL DEF Spec, OrphanedMutexBlocks

-----------------------------------------------------------------------------
(* Termination.  CompletesUnlessOrphaned needs fairness and is              *)
(* model-checked; what it rests on does not.  Every step uses up some of a  *)
(* finite amount of work, under every mechanism; and where no process can   *)
(* go on, main() has printed or a dead child has the mutex.                 *)

\* Steps child c still makes, from its birth until it is reaped: four for each
\* addition.  A killed child only waits to be reaped.
ChildLeft(c) == CASE pc[c] \in {"unborn", "lock"} -> 4 * (ITERATIONS - j[c]) + 1
                  [] pc[c] = "load" -> 4 * (ITERATIONS - j[c])
                  [] pc[c] = "store" -> 4 * (ITERATIONS - j[c]) - 1
                  [] pc[c] = "unlock" -> 4 * (ITERATIONS - j[c]) + 2
                  [] pc[c] = "zombie" -> 1
                  [] OTHER -> 0

\* The same for all children together, as a set of (child, step) pairs.
StepsToMake == {s \in Children \X (1 .. 4 * ITERATIONS + 2) : s[2] <= ChildLeft(s[1])}

\* Steps main() still makes besides reaping: the rest of its fork loop, leaving it,
\* and the report.
ParentLeft == (N - n) + (CASE ppc = "fork" -> 2 [] ppc = "reap" -> 1 [] OTHER -> 0)

\* An upper bound on the steps all processes still make.
StepsLeft == ParentLeft + Cardinality(StepsToMake)

\* The work left to a child is a natural number ...
WorkOK == \A c \in Children : ChildLeft(c) \in Nat

\* ... because a child in its loop has additions to make.
LEMMA ChildLeftNat == CounterInv => WorkOK
  BY CounterAssumption
     DEF WorkOK, ChildLeft, ChildStates, Critical, CounterInv, TypeOK, ProcTypeOK, LoopInv

\* What one step does to the work left: main()'s own steps lower ParentLeft, and a
\* step of a child, its death or its reaping lowers that child's part.
LEMMA WorkSteps ==
  ASSUME CounterInv, CounterInv', Next
  PROVE  /\ \A c \in Children : ChildLeft(c)' <= ChildLeft(c)
         /\ \/ ParentLeft' < ParentLeft
            \/ /\ ParentLeft' = ParentLeft
               /\ \E c \in Children : ChildLeft(c)' < ChildLeft(c)
<1> DEFINE Goal == /\ \A c \in Children : ChildLeft(c)' <= ChildLeft(c)
                   /\ \/ ParentLeft' < ParentLeft
                      \/ /\ ParentLeft' = ParentLeft
                         /\ \E c \in Children : ChildLeft(c)' < ChildLeft(c)
<1>1. /\ ITERATIONS \in Nat /\ N \in Nat /\ n \in 0 .. N
      /\ pc \in [Children -> ChildStates] /\ j \in [Children -> 0 .. ITERATIONS]
  BY CounterAssumption DEF CounterInv, TypeOK, ProcTypeOK
<1>2. \A c \in Children : /\ pc[c] \in {"lock", "load", "store"} => j[c] < ITERATIONS
                          /\ pc[c] = "unborn" => j[c] = 0
                          /\ c > n => pc[c] = "unborn"
  BY DEF CounterInv, LoopInv
<1>3. \A c \in Children : ChildLeft(c) \in Nat /\ ChildLeft(c)' \in Nat
  <2>1. CounterInv' => WorkOK'
    BY ChildLeftNat, PTL
  <2> QED
    BY <2>1, ChildLeftNat DEF WorkOK
<1>4. ASSUME NEW c \in Children, ChildLeft(c)' < ChildLeft(c),
             \A d \in Children \ {c} : pc'[d] = pc[d] /\ j'[d] = j[d],
             UNCHANGED <<ppc, n>>
      PROVE  Goal
  <2>1. ParentLeft' = ParentLeft
    BY <1>4 DEF ParentLeft
  <2>2. \A d \in Children \ {c} : ChildLeft(d)' = ChildLeft(d)
    BY <1>4 DEF ChildLeft
  <2>3. ChildLeft(c)' <= ChildLeft(c)
    BY <1>3, <1>4
  <2> QED
    BY <1>3, <1>4, <2>1, <2>2, <2>3
<1>5. ASSUME UNCHANGED <<pc, j>>, ParentLeft' < ParentLeft PROVE Goal
  BY <1>3, <1>5 DEF ChildLeft
<1>6. CASE Fork
  <2>1. n + 1 \in Children /\ pc[n + 1] = "unborn" /\ j[n + 1] = 0
    BY <1>1, <1>2, <1>6 DEF Fork, Children
  <2>2. ParentLeft' < ParentLeft
    BY <1>1, <1>6 DEF Fork, ParentLeft
  <2>3. \A c \in Children : ChildLeft(c)' <= ChildLeft(c)
    <3> SUFFICES ASSUME NEW c \in Children PROVE ChildLeft(c)' <= ChildLeft(c)
      OBVIOUS
    <3>1. CASE c = n + 1
      BY <1>1, <1>6, <2>1, <3>1 DEF Fork, ChildLeft, ChildLoop
    <3>2. CASE c # n + 1
      <4>1. pc'[c] = pc[c] /\ j'[c] = j[c]
        BY <1>1, <1>6, <3>2 DEF Fork
      <4> QED
        BY <1>3, <4>1 DEF ChildLeft
    <3> QED
      BY <3>1, <3>2
  <2> QED
    BY <2>2, <2>3
<1>7. CASE ForkDone \/ Report
  <2>1. ParentLeft' < ParentLeft /\ UNCHANGED <<pc, j>>
    BY <1>1, <1>7 DEF ForkDone, Report, ParentLeft
  <2> QED
    BY <1>5, <2>1
<1>8. ASSUME NEW c \in Children, Reap(c) PROVE Goal
  BY <1>1, <1>4, <1>8 DEF Reap, ChildLeft
<1>9. ASSUME NEW c \in Children, Acquire(c) \/ Load(c) PROVE Goal
  <2>1. ChildLeft(c)' < ChildLeft(c)
    BY <1>1, <1>2, <1>9 DEF Acquire, Load, ChildLeft
  <2> QED
    BY <1>1, <1>4, <1>9, <2>1 DEF Acquire, Load
<1>10. ASSUME NEW c \in Children, Store(c) PROVE Goal
  <2>1. ChildLeft(c)' < ChildLeft(c)
    BY <1>1, <1>2, <1>10 DEF Store, ChildLeft
  <2> QED
    BY <1>1, <1>4, <1>10, <2>1 DEF Store
<1>11. ASSUME NEW c \in Children, Release(c) PROVE Goal
  <2>1. ChildLeft(c)' < ChildLeft(c)
    BY <1>1, <1>2, <1>11 DEF Release, ChildLeft, ChildLoop
  <2> QED
    BY <1>1, <1>4, <1>11, <2>1 DEF Release
<1>12. ASSUME NEW c \in Children, Die(c) PROVE Goal
  <2>1. ChildLeft(c)' < ChildLeft(c)
    BY <1>1, <1>2, <1>12 DEF Die, Killed, ChildLeft, Critical
  <2> QED
    BY <1>1, <1>4, <1>12, <2>1 DEF Die, Killed
<1> QED
  BY <1>6, <1>7, <1>8, <1>9, <1>10, <1>11, <1>12, Zenon DEF Next, Parent, Child

\* There are finitely many pairs.
LEMMA StepsFinite == IsFiniteSet(Children \X (1 .. 4 * ITERATIONS + 2))
<1>1. IsFiniteSet(Children) /\ IsFiniteSet(1 .. 4 * ITERATIONS + 2)
  BY FS_Interval, CounterAssumption DEF Children
<1> QED
  BY <1>1, FS_Product, ZenonT(40)

\* Lowering one child's part, and raising none, takes pairs out of the set.
LEMMA StepsToMakeShrinks ==
  ASSUME CounterInv, CounterInv', \A c \in Children : ChildLeft(c)' <= ChildLeft(c)
  PROVE  /\ Cardinality(StepsToMake) \in Nat /\ Cardinality(StepsToMake') \in Nat
         /\ Cardinality(StepsToMake') <= Cardinality(StepsToMake)
         /\ (\E c \in Children : ChildLeft(c)' < ChildLeft(c))
              => Cardinality(StepsToMake') < Cardinality(StepsToMake)
<1> DEFINE All == Children \X (1 .. 4 * ITERATIONS + 2)
<1>1. \A c \in Children : ChildLeft(c) \in 0 .. 4 * ITERATIONS + 2 /\ ChildLeft(c)' \in Nat
  <2>1. CounterInv' => WorkOK'
    BY ChildLeftNat, PTL
  <2>2. \A c \in Children : ChildLeft(c) \in Nat /\ ChildLeft(c) <= 4 * ITERATIONS + 2
    BY CounterAssumption, ChildLeftNat DEF WorkOK, ChildLeft, CounterInv, TypeOK, ProcTypeOK
  <2> QED
    BY <2>1, <2>2, CounterAssumption DEF WorkOK
<1>2. StepsToMake' = {s \in All : s[2] <= ChildLeft(s[1])'}
  BY DEF StepsToMake, Children
<1>3. IsFiniteSet(All)
  BY StepsFinite
<1>4. StepsToMake \in SUBSET All /\ IsFiniteSet(StepsToMake)
  BY <1>3, FS_Subset DEF StepsToMake
<1>5. StepsToMake' \in SUBSET StepsToMake
  <2> SUFFICES ASSUME NEW s \in All, s[2] <= ChildLeft(s[1])' PROVE s[2] <= ChildLeft(s[1])
    BY <1>2 DEF StepsToMake
  <2>1. s[1] \in Children /\ s[2] \in Nat
    BY CounterAssumption
  <2> QED
    BY <1>1, <2>1
<1>6. /\ Cardinality(StepsToMake) \in Nat /\ Cardinality(StepsToMake') \in Nat
      /\ Cardinality(StepsToMake') <= Cardinality(StepsToMake)
  BY <1>4, <1>5, FS_Subset, FS_CardinalityType, ZenonT(40)
<1>7. ASSUME NEW c \in Children, ChildLeft(c)' < ChildLeft(c)
      PROVE  Cardinality(StepsToMake') < Cardinality(StepsToMake)
  <2> DEFINE s == <<c, ChildLeft(c)>>
  <2>1. ChildLeft(c) \in 1 .. 4 * ITERATIONS + 2
    BY <1>1, <1>7, CounterAssumption
  <2>2. s \in All /\ s[1] = c /\ s[2] = ChildLeft(c)
    BY <2>1
  <2>3. s \in StepsToMake
    BY <1>1, <2>2 DEF StepsToMake
  <2>4. s \notin StepsToMake'
    BY <1>1, <1>2, <1>7, <2>2
  <2>5. Cardinality(StepsToMake) # Cardinality(StepsToMake')
    BY <1>4, <1>5, <2>3, <2>4, FS_Subset, ZenonT(40)
  <2> QED
    BY <1>6, <2>5
<1> QED
  BY <1>6, <1>7

\* main() before its fork loop: every child makes 4 * ITERATIONS + 1 steps, and main()
\* one for each fork, one to leave the loop and one to report.
LEMMA StepsAtStart == Init => StepsLeft = N * (4 * ITERATIONS + 1) + N + 2
<1> SUFFICES ASSUME Init PROVE StepsLeft = N * (4 * ITERATIONS + 1) + N + 2
  OBVIOUS
<1>1. \A c \in Children : ChildLeft(c) = 4 * ITERATIONS + 1
  BY CounterAssumption DEF Init, ProcInit, ChildLeft
<1>2. StepsToMake = Children \X (1 .. 4 * ITERATIONS + 1)
  BY <1>1, CounterAssumption DEF StepsToMake
<1>3. IsFiniteSet(Children) /\ Cardinality(Children) = N
  BY FS_Interval, CounterAssumption DEF Children
<1>4. /\ IsFiniteSet(1 .. 4 * ITERATIONS + 1)
      /\ Cardinality(1 .. 4 * ITERATIONS + 1) = 4 * ITERATIONS + 1
  BY FS_Interval, CounterAssumption
<1>5. Cardinality(StepsToMake) = N * (4 * ITERATIONS + 1)
  BY <1>2, <1>3, <1>4, FS_Product, ZenonT(40)
<1>6. ParentLeft = N + 2
  BY CounterAssumption DEF Init, ProcInit, ParentLeft
<1> QED
  BY <1>5, <1>6, CounterAssumption DEF StepsLeft

\* Every step lowers the bound: a run of any of the three programs, with whatever
\* kills and failed forks, has at most as many steps as StepsAtStart says.
THEOREM CounterStepsRunOut == Spec => [](StepsLeft \in Nat) /\ [][StepsLeft' < StepsLeft]_vars
<1>1. CounterInv => ParentLeft \in Nat
  BY CounterAssumption DEF CounterInv, TypeOK, ProcTypeOK, ParentLeft
<1>2. CounterInv => StepsLeft \in Nat
  <2>1. Cardinality(StepsToMake) \in Nat
    BY StepsFinite, FS_Subset, FS_CardinalityType DEF StepsToMake
  <2> QED
    BY <1>1, <2>1 DEF StepsLeft
<1>3. CounterInv /\ CounterInv' /\ [Next]_vars => [StepsLeft' < StepsLeft]_vars
  <2> SUFFICES ASSUME CounterInv, CounterInv', Next PROVE StepsLeft' < StepsLeft
    OBVIOUS
  <2>1. ParentLeft \in Nat /\ ParentLeft' \in Nat
    BY <1>1, CounterAssumption DEF CounterInv, TypeOK, ProcTypeOK, ParentLeft
  <2>2. StepsLeft' = ParentLeft' + Cardinality(StepsToMake')
    BY DEF StepsLeft, Cardinality
  <2> QED
    BY <2>1, <2>2, WorkSteps, StepsToMakeShrinks DEF StepsLeft
<1> QED
  BY <1>2, <1>3, CounterInvariance, PTL DEF Spec

\* Who can have the lock while others wait for it: a child in the critical section or,
\* with the mutex, a dead one.  The one file description of ofd_lock_counter.c never
\* keeps a child waiting.
HeldInv == /\ mechanism = "ofd" => lock \in {Free, Description}
           /\ mechanism # "ofd" => lock # Description
           /\ mechanism # "ofd" => \A c \in Children :
                lock = c => pc[c] \in Critical \/ (mechanism = "mutex" /\ c \in died)

\* Every step preserves it.
LEMMA HeldInvStep == CounterInv /\ HeldInv /\ [Next]_vars => HeldInv'
<1> SUFFICES ASSUME CounterInv, HeldInv, [Next]_vars PROVE HeldInv'
  OBVIOUS
<1>1. /\ pc \in [Children -> ChildStates] /\ mechanism' = mechanism
      /\ \A c \in Children : c # Free /\ c # Description
  BY CounterAssumption
     DEF CounterInv, TypeOK, ProcTypeOK, Free, Description, Children, Next, Parent, Child, vars
<1>2. Free # Description
  BY CounterAssumption DEF Free, Description
<1>3. \A c \in Children : c > n => pc[c] \notin Critical
  BY DEF CounterInv, LoopInv, Critical
<1>4. CASE Parent
  <2>1. \A c \in Children : pc[c] \in Critical => pc'[c] \in Critical
    <3>1. CASE Fork
      <4>1. n + 1 \in Children => pc[n + 1] \notin Critical
        BY <1>3 DEF CounterInv, TypeOK, ProcTypeOK
      <4> QED
        BY <1>1, <3>1, <4>1 DEF Fork
    <3>2. CASE ForkDone \/ Report \/ \E c \in Children : Reap(c)
      BY <1>1, <3>2 DEF ForkDone, Report, Reap, Critical
    <3> QED
      BY <1>4, <3>1, <3>2 DEF Parent
  <2>2. lock' = lock /\ died' = died
    BY <1>4 DEF Parent, Fork, ForkDone, Reap, Report
  <2> QED
    BY <1>1, <2>1, <2>2, Zenon DEF HeldInv
<1>5. ASSUME NEW c \in Children, Child(c) PROVE HeldInv'
  <2>1. CASE Acquire(c)
    <3>1. /\ lock' = Owner(c) /\ pc'[c] \in Critical /\ died' = died
      BY <1>1, <2>1 DEF Acquire, Critical
    <3> QED
      BY <1>1, <3>1 DEF HeldInv, Owner
  <2>2. CASE Release(c)
    <3>1. /\ lock' \in {lock, Free} /\ died' = died
          /\ lock' = Owner(c) => lock' = Free
          /\ \A d \in Children \ {c} : pc'[d] = pc[d]
      BY <1>1, <2>2 DEF Release
    <3>2. mechanism # "ofd" => lock' # c
      BY <1>1, <3>1 DEF Owner
    <3> QED
      BY <1>1, <1>2, <3>1, <3>2 DEF HeldInv
  <2>3. CASE (Load(c) \/ Store(c)) /\ UNCHANGED lock
    <3>1. /\ lock' = lock /\ died' = died
          /\ \A d \in Children : pc[d] \in Critical => pc'[d] \in Critical
      BY <1>1, <2>3 DEF Load, Store, Critical
    <3> QED
      BY <1>1, <3>1 DEF HeldInv
  <2> QED
    BY <1>5, <2>1, <2>2, <2>3 DEF Child
<1>6. ASSUME NEW c \in Children, Die(c) PROVE HeldInv'
  <2>1. /\ lock' = IF mechanism = "fcntl" /\ lock = c THEN Free ELSE lock
        /\ died' = died \cup {c}
        /\ \A d \in Children \ {c} : pc'[d] = pc[d]
    BY <1>1, <1>6 DEF Die, Killed
  <2>2. mechanism \in {"fcntl", "mutex", "ofd"}
    BY MechanismAssumption DEF CounterInv, TypeOK
  <2> QED
    BY <1>1, <1>2, <2>1, <2>2 DEF HeldInv
<1>7. CASE UNCHANGED vars
  BY <1>7 DEF vars, procVars, HeldInv
<1> QED
  BY <1>4, <1>5, <1>6, <1>7 DEF Next

\* The conditions under which a process's next call returns: the guards of Parent and
\* of Child.  A kill is never due.
ParentCanStep == \/ ppc = "fork"
                 \/ /\ ppc = "reap"
                    /\ \/ \E c \in Children : pc[c] = "zombie"
                       \/ \A c \in Children : pc[c] \in {"unborn", "reaped"}
ChildCanStep(c) == \/ pc[c] \in Critical
                   \/ pc[c] = "lock" /\ lock \in {Free, Owner(c)}
CanStep == ParentCanStep \/ \E c \in Children : ChildCanStep(c)

\* The processes of the counter programs never all wait: until main() has printed,
\* somebody can go on, unless a killed child has taken the mutex with it.
THEOREM CounterStopsOnlyAtEnd ==
  Spec => [](CanStep \/ ppc = "done" \/ (Orphaned /\ mechanism = "mutex"))
<1>1. Init => HeldInv
  BY CounterAssumption DEF Init, HeldInv, Free, Description, Children
<1>2. Spec => [](CounterInv /\ HeldInv)
  BY <1>1, CounterInvInit, CounterInvStep, HeldInvStep, PTL DEF Spec
<1>3. CounterInv /\ HeldInv => CanStep \/ ppc = "done" \/ (Orphaned /\ mechanism = "mutex")
  <2> SUFFICES ASSUME CounterInv, HeldInv, ~CanStep, ppc # "done"
               PROVE  Orphaned /\ mechanism = "mutex"
    OBVIOUS
  <2>1. /\ ppc \in {"fork", "reap", "done"} /\ pc \in [Children -> ChildStates]
        /\ lock \in {Free, Description} \cup Children
    BY DEF CounterInv, TypeOK, ProcTypeOK
  <2>2. PICK c \in Children : pc[c] = "lock" /\ lock \notin {Free, Owner(c)}
    BY <2>1 DEF CanStep, ParentCanStep, ChildCanStep, ChildStates, Critical
  <2>3. mechanism # "ofd" /\ lock \in Children
    BY <2>1, <2>2 DEF HeldInv, Owner
  <2>4. pc[lock] \notin Critical
    BY <2>3 DEF CanStep, ChildCanStep
  <2> QED
    BY <2>3, <2>4 DEF HeldInv, Orphaned
<1> QED
  BY <1>2, <1>3, PTL
=============================================================================
