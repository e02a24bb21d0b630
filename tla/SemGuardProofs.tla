--------------------------- MODULE SemGuardProofs ---------------------------
(***************************************************************************)
(* The semaphore of sysv_binary_semaphore_guard.c, which has a value and   *)
(* undo adjustments but no owner, implements the owned lock of             *)
(* LockedCounter with record locks, for any number of children and kills.  *)
(* What is proved of that lock's counter therefore holds of this one.      *)
(***************************************************************************)
EXTENDS SemGuard, TLAPS

\* The inductive invariant: types and the semaphore's accounts.
SemInv == TypeOK /\ SemaphoreAccounts

\* The initial state satisfies it.
LEMMA SemInvInit == Init => SemInv
<1> SUFFICES ASSUME Init PROVE SemInv
  OBVIOUS
<1> USE CounterAssumption DEF Init, ProcInit, Children
<1>1. TypeOK
  BY DEF TypeOK, ProcTypeOK, ChildStates, Critical, LoopInv
<1>2. SemaphoreAccounts
  BY DEF SemaphoreAccounts, MutualExclusion, Critical
<1> QED
  BY <1>1, <1>2 DEF SemInv

\* Every step preserves it.
LEMMA SemInvStep == SemInv /\ [Next]_vars => SemInv'
<1> SUFFICES ASSUME SemInv, [Next]_vars PROVE SemInv'
  OBVIOUS
<1> USE CounterAssumption
    DEF SemInv, TypeOK, ProcTypeOK, ChildStates, Critical, LoopInv, SemaphoreAccounts,
        MutualExclusion, Children
<1>1. CASE Parent
  <2>1. CASE Fork /\ UNCHANGED <<semval, semadj>>
    <3> USE <2>1 DEF Fork
    <3>1. /\ n + 1 \in Children /\ ChildLoop(0) \in {"lock", "zombie"}
          /\ ChildLoop(0) = "lock" => 0 < ITERATIONS
          /\ pc[n + 1] = "unborn" /\ j[n + 1] = 0
      BY DEF ChildLoop
    <3>2. ProcTypeOK'
      <4>1. pc' \in [Children -> ChildStates]
        BY <3>1, ZenonT(60)
      <4>2. n' \in 0 .. N
        OBVIOUS
      <4> QED
        BY <4>1, <4>2
    <3>3. LoopInv'
      <4> SUFFICES ASSUME NEW c \in Children
                   PROVE  /\ pc'[c] \in {"lock", "load", "store"} => j'[c] < ITERATIONS
                          /\ pc'[c] = "unborn" => j'[c] = 0
                          /\ c > n' => pc'[c] = "unborn"
        OBVIOUS
      <4>1. CASE c = n + 1
        BY <3>1, <4>1
      <4>2. CASE c # n + 1
        BY <3>1, <4>2, SMTT(30)
      <4> QED
        BY <4>1, <4>2
    <3>4. SemaphoreAccounts'
      BY <3>1, ZenonT(60)
    <3> QED
      BY <3>2, <3>3, <3>4
  <2>2. CASE ForkDone /\ UNCHANGED <<semval, semadj>>
    BY <2>2 DEF ForkDone
  <2>3. CASE (\E c \in Children : Reap(c)) /\ UNCHANGED <<semval, semadj>>
    <3>1. PICK c \in Children : Reap(c)
      BY <2>3
    <3>2. TypeOK'
      BY <2>3, <3>1, ZenonT(60) DEF Reap
    <3>3. SemaphoreAccounts'
      BY <2>3, <3>1, SMTT(30) DEF Reap
    <3> QED
      BY <3>2, <3>3, SMTT(30)
  <2>4. CASE Report /\ UNCHANGED <<semval, semadj>>
    BY <2>4 DEF Report
  <2> QED
    BY <1>1, <2>1, <2>2, <2>3, <2>4, ZenonT(60) DEF Parent
<1>2. ASSUME NEW c \in Children, Child(c) PROVE SemInv'
  <2>1. CASE SemWait(c)
    <3> USE <2>1 DEF SemWait, SemOp
    <3>1. semval = 1 /\ semval' = 0 /\ semadj[c] = 0
      OBVIOUS
    <3>2. TypeOK'
      BY <3>1
    <3>3. SemaphoreAccounts'
      BY <3>1
    <3> QED
      BY <3>2, <3>3
  <2>2. CASE SemPost(c)
    <3> USE <2>2 DEF SemPost, SemOp
    <3>1. semval = 0 /\ semval' = 1 /\ semadj[c] = 1
      OBVIOUS
    <3>2. /\ ChildLoop(j[c]) \in {"lock", "zombie"}
          /\ ChildLoop(j[c]) = "lock" => j[c] < ITERATIONS
      BY DEF ChildLoop
    <3>3. TypeOK'
      BY <3>1, <3>2
    <3>4. SemaphoreAccounts'
      BY <3>1, <3>2
    <3> QED
      BY <3>3, <3>4, SMTT(30)
  <2>3. CASE Load(c) /\ UNCHANGED <<semval, semadj>>
    <3> USE <2>3 DEF Load
    <3>1. TypeOK'
      BY SMTT(30)
    <3>2. SemaphoreAccounts'
      OBVIOUS
    <3> QED
      BY <3>1, <3>2
  <2>4. CASE Store(c) /\ UNCHANGED <<semval, semadj>>
    <3> USE <2>4 DEF Store
    <3>1. j[c] + 1 \in 0 .. ITERATIONS /\ reg[c] + DELTA \in Int
      BY SMTT(30)
    <3>2. TypeOK'
      BY <3>1, ZenonT(60)
    <3>3. SemaphoreAccounts'
      OBVIOUS
    <3> QED
      BY <3>2, <3>3, ZenonT(60)
  <2> QED
    BY <1>2, <2>1, <2>2, <2>3, <2>4, ZenonT(60) DEF Child
<1>3. ASSUME NEW c \in Children, Die(c) PROVE SemInv'
  <2> USE <1>3 DEF Die, Killed
  <2>1. semval' = IF pc[c] \in Critical THEN 1 ELSE semval
    OBVIOUS
  <2>2. TypeOK'
    BY <2>1, ZenonT(60)
  <2>3. SemaphoreAccounts'
    BY <2>1, ZenonT(60)
  <2> QED
    BY <2>2, <2>3, ZenonT(60)
<1>4. CASE UNCHANGED vars
  BY <1>4 DEF vars, procVars
<1> QED
  BY <1>1, <1>2, <1>3, <1>4, ZenonT(60) DEF Next

\* SEM_UNDO never loses or invents a unit of the semaphore: its value and the
\* adjustments always match who is in the critical section.
THEOREM SemaphoreAccountsInvariance == Spec => []SemaphoreAccounts
<1>1. SemInv => SemaphoreAccounts
  BY DEF SemInv
<1> QED
  BY <1>1, SemInvInit, SemInvStep, PTL DEF Spec

\* The child in the critical section, if any, is what the mapping calls the owner.
LEMMA HolderIs ==
  ASSUME SemInv
  PROVE  /\ \A c \in Children : pc[c] \in Critical => Holder = c
         /\ (\A c \in Children : pc[c] \notin Critical) => Holder = 0
<1> USE DEF SemInv, SemaphoreAccounts, MutualExclusion, Holder
<1>1. ASSUME NEW c \in Children, pc[c] \in Critical PROVE Holder = c
  BY <1>1
<1>2. ASSUME \A c \in Children : pc[c] \notin Critical PROVE Holder = 0
  BY <1>2
<1> QED
  BY <1>1, <1>2

\* Every step of the semaphore program is a step of the record-lock program.
LEMMA StepRefines ==
  ASSUME SemInv, SemInv', [Next]_vars
  PROVE  [Locked!Next]_Locked!vars
<1> USE DEF Locked!Children, Children
<1>1. /\ \A c \in Children : pc[c] \in Critical => Holder = c
      /\ (\A c \in Children : pc[c] \notin Critical) => Holder = 0
  BY HolderIs
<1>2. /\ \A c \in Children : pc'[c] \in Critical => Holder' = c
      /\ (\A c \in Children : pc'[c] \notin Critical) => Holder' = 0
  <2>1. SemInv' => (/\ \A c \in Children : pc[c] \in Critical => Holder = c
                    /\ (\A c \in Children : pc[c] \notin Critical) => Holder = 0)'
    BY HolderIs, PTL
  <2> QED
    BY <2>1
<1>3. UNCHANGED <<semval, semadj>> => UNCHANGED Holder
  BY DEF Holder
<1>4. CASE Parent
  <2>1. Locked!Parent
    BY <1>3, <1>4
       DEF Parent, Locked!Parent, Fork, Locked!Fork, ForkDone, Locked!ForkDone, Reap,
           Locked!Reap, Report, Locked!Report, ChildLoop, Locked!ChildLoop
  <2> QED
    BY <2>1 DEF Locked!Next
<1>5. ASSUME NEW c \in Children, Child(c) PROVE Locked!Next
  <2> USE DEF SemInv, TypeOK, ProcTypeOK
  <2>1. CASE SemWait(c)
    <3>1. /\ \A d \in Children : pc[d] \notin Critical
          /\ pc'[c] \in Critical
      BY <2>1 DEF SemWait, SemOp, SemaphoreAccounts, Critical
    <3>2. Locked!Acquire(c)
      BY <1>1, <1>2, <2>1, <3>1 DEF SemWait, Locked!Acquire, Locked!Owner, Locked!Free
    <3> QED
      BY <3>2 DEF Locked!Next, Locked!Child
  <2>2. CASE SemPost(c)
    <3>1. /\ pc[c] \in Critical
          /\ \A d \in Children : pc'[d] \notin Critical
      BY <2>2 DEF SemPost, SemaphoreAccounts, MutualExclusion, Critical, ChildLoop
    <3>2. Locked!Release(c)
      BY <1>1, <1>2, <2>2, <3>1
         DEF SemPost, Locked!Release, Locked!Owner, Locked!Free, ChildLoop, Locked!ChildLoop
    <3> QED
      BY <3>2 DEF Locked!Next, Locked!Child
  <2>3. CASE (Load(c) \/ Store(c)) /\ UNCHANGED <<semval, semadj>>
    <3>1. (Locked!Load(c) \/ Locked!Store(c)) /\ UNCHANGED Holder
      BY <1>3, <2>3 DEF Load, Locked!Load, Store, Locked!Store
    <3> QED
      BY <3>1 DEF Locked!Next, Locked!Child
  <2> QED
    BY <1>5, <2>1, <2>2, <2>3 DEF Child
<1>6. ASSUME NEW c \in Children, Die(c) PROVE Locked!Next
  <2> USE DEF SemInv, TypeOK, ProcTypeOK
  <2>1. Locked!Killed(c)
    <3>1. Locked!Cardinality(died) = Cardinality(died)
      BY Zenon DEF Cardinality, Locked!Cardinality
    <3> QED
      BY <1>6, <3>1 DEF Die, Killed, Locked!Killed, Critical, Locked!Critical
  <2>2. Holder' = IF Holder = c THEN 0 ELSE Holder
    <3>1. CASE pc[c] \in Critical
      <4>1. \A d \in Children : pc'[d] \notin Critical
        BY <1>6, <3>1 DEF Die, Killed, SemaphoreAccounts, MutualExclusion, Critical
      <4> QED
        BY <1>1, <1>2, <3>1, <4>1
    <3>2. CASE pc[c] \notin Critical
      <4>1. semadj' = semadj
        BY <1>6, <3>2 DEF Die, Killed, SemaphoreAccounts
      <4>2. Holder # c
        <5>1. c # 0
          BY CounterAssumption
        <5>2. semadj[c] = 0
          BY <3>2 DEF SemaphoreAccounts
        <5> QED
          BY <5>1, <5>2 DEF Holder
      <4> QED
        BY <4>1, <4>2 DEF Holder
    <3> QED
      BY <3>1, <3>2
  <2>3. Locked!Die(c)
    BY <2>1, <2>2 DEF Locked!Die, Locked!Free
  <2> QED
    BY <2>3 DEF Locked!Next
<1>7. CASE UNCHANGED vars
  BY <1>3, <1>7 DEF vars, procVars, Locked!vars, Locked!procVars
<1> QED
  BY <1>4, <1>5, <1>6, <1>7 DEF Next

\* Every behaviour of the semaphore program is a behaviour of the record-lock
\* program, the semaphore's holder playing the owner of the lock: SEM_UNDO
\* releases exactly when the kernel releases a dead process's record lock.
THEOREM SemaphoreRefinesLock == Spec => Locked!Spec
<1>1. Init => Locked!Init
  BY DEF Init, ProcInit, Locked!Init, Locked!ProcInit, Locked!Free, Holder, Children,
         Locked!Children
<1>2. SemInv /\ SemInv' /\ [Next]_vars => [Locked!Next]_Locked!vars
  BY StepRefines
<1> QED
  BY <1>1, <1>2, SemInvInit, SemInvStep, PTL DEF Spec, Locked!Spec

-----------------------------------------------------------------------------
(* What is proved of the record-lock program holds of the semaphore program. *)

LockedProofs == INSTANCE LockedCounterProofs WITH lock <- Holder, mechanism <- "fcntl",
                                                  Mechanisms <- {"fcntl"}

\* Both instances of LockedCounter are the same specification.
LEMMA SameSpec == Locked!Spec => LockedProofs!Spec
<1> USE DEF Locked!Children, LockedProofs!Children, Locked!ChildLoop, LockedProofs!ChildLoop
<1>1. Locked!Init => LockedProofs!Init
  BY DEF Locked!Init, LockedProofs!Init, Locked!ProcInit, LockedProofs!ProcInit, Locked!Free,
         LockedProofs!Free
<1>2. Locked!Parent => LockedProofs!Parent
  BY DEF Locked!Parent, LockedProofs!Parent, Locked!Fork, LockedProofs!Fork, Locked!ForkDone,
         LockedProofs!ForkDone, Locked!Reap, LockedProofs!Reap, Locked!Report, LockedProofs!Report
<1>3. ASSUME NEW c PROVE Locked!Child(c) => LockedProofs!Child(c)
  BY DEF Locked!Child, LockedProofs!Child, Locked!Acquire, LockedProofs!Acquire, Locked!Release,
         LockedProofs!Release, Locked!Load, LockedProofs!Load, Locked!Store, LockedProofs!Store,
         Locked!Owner, LockedProofs!Owner, Locked!Free, LockedProofs!Free
<1>4. ASSUME NEW c PROVE Locked!Die(c) => LockedProofs!Die(c)
  <2>1. Locked!Cardinality(died) = LockedProofs!Cardinality(died)
    BY Zenon DEF Locked!Cardinality, LockedProofs!Cardinality
  <2> QED BY <2>1 DEF Locked!Die, LockedProofs!Die, Locked!Killed, LockedProofs!Killed,
                      Locked!Critical, LockedProofs!Critical, Locked!Free, LockedProofs!Free
<1>5. Locked!Next => LockedProofs!Next
  BY <1>2, <1>3, <1>4 DEF Locked!Next, LockedProofs!Next
<1>6. [Locked!Next]_Locked!vars => [LockedProofs!Next]_LockedProofs!vars
  BY <1>5 DEF Locked!vars, LockedProofs!vars, Locked!procVars, LockedProofs!procVars
<1> QED BY <1>1, <1>6, PTL DEF Locked!Spec, LockedProofs!Spec

\* The guarded counter loses no update: at every moment it is DELTA times the
\* additions made, also when children are killed with the semaphore down.
THEOREM SemaphoreNoLostUpdate == Spec => []NoLostUpdate
<1>1. {"fcntl"} \subseteq {"fcntl", "mutex", "ofd"} /\ "ofd" \notin {"fcntl"}
  OBVIOUS
<1>2. LockedProofs!Spec => []LockedProofs!NoLostUpdate
  BY <1>1, CounterAssumption, LockedProofs!CounterNoLostUpdate
<1>3. LockedProofs!NoLostUpdate => NoLostUpdate
  <2>1. LockedProofs!Additions = Additions
    BY DEF Additions, LockedProofs!Additions, Children, LockedProofs!Children
  <2>2. LockedProofs!Cardinality(Additions) = Cardinality(Additions)
    BY Zenon DEF Cardinality, LockedProofs!Cardinality
  <2> QED BY <2>1, <2>2 DEF NoLostUpdate, LockedProofs!NoLostUpdate
<1> QED BY <1>2, <1>3, SemaphoreRefinesLock, SameSpec, PTL

\* If every fork succeeded and nobody was killed, main() prints the number it
\* expects, 4000 in the program.
THEOREM SemaphorePrintsExpected == Spec => []PrintsExpected
<1>1. {"fcntl"} \subseteq {"fcntl", "mutex", "ofd"} /\ "ofd" \notin {"fcntl"}
  OBVIOUS
<1>2. LockedProofs!Spec => []LockedProofs!PrintsExpected
  BY <1>1, CounterAssumption, LockedProofs!CounterPrintsExpected
<1>3. LockedProofs!PrintsExpected => PrintsExpected
  BY DEF PrintsExpected, LockedProofs!PrintsExpected, Children, LockedProofs!Children
<1> QED BY <1>2, <1>3, SemaphoreRefinesLock, SameSpec, PTL

-----------------------------------------------------------------------------
(* Termination, without fairness: the steps run out as they do in the       *)
(* record-lock program, and no process waits for one that is gone.          *)

\* Every step moves a process, so it is a step of the record-lock program and no
\* stuttering.
LEMMA EveryStepMoves == SemInv /\ Next => LockedProofs!vars' # LockedProofs!vars
<1> SUFFICES ASSUME SemInv, Next PROVE pc' # pc \/ ppc' # ppc \/ n' # n
  BY DEF LockedProofs!vars, LockedProofs!procVars
<1>1. n \in Nat /\ pc \in [Children -> ChildStates]
  BY CounterAssumption DEF SemInv, TypeOK, ProcTypeOK
<1>2. CASE Parent
  BY <1>1, <1>2 DEF Parent, Fork, ForkDone, Reap, Report
<1>3. ASSUME NEW c \in Children, Child(c) \/ Die(c) PROVE pc'[c] # pc[c]
  BY <1>1, <1>3 DEF Child, SemWait, SemPost, Load, Store, Die, Killed, ChildLoop, Critical
<1> QED
  BY <1>2, <1>3 DEF Next

\* Every step lowers the record-lock program's bound on the steps left, by which this
\* program makes at most N * (4 * ITERATIONS + 1) + N + 2 steps, kills included.
THEOREM SemaphoreStepsRunOut ==
  Spec => /\ [](LockedProofs!StepsLeft \in Nat)
          /\ [][LockedProofs!StepsLeft' < LockedProofs!StepsLeft]_vars
<1>1. LockedProofs!Spec
        => /\ [](LockedProofs!StepsLeft \in Nat)
           /\ [][LockedProofs!StepsLeft' < LockedProofs!StepsLeft]_LockedProofs!vars
  BY CounterAssumption, LockedProofs!CounterStepsRunOut
<1>2. /\ SemInv /\ [Next]_vars
      /\ [LockedProofs!StepsLeft' < LockedProofs!StepsLeft]_LockedProofs!vars
      => [LockedProofs!StepsLeft' < LockedProofs!StepsLeft]_vars
  BY EveryStepMoves
<1> QED
  BY <1>1, <1>2, SemInvInit, SemInvStep, SemaphoreRefinesLock, SameSpec, PTL DEF Spec

\* The conditions under which a process's next call returns: the guards of Parent and
\* of Child.
ParentCanStep == \/ ppc = "fork"
                 \/ /\ ppc = "reap"
                    /\ \/ \E c \in Children : pc[c] = "zombie"
                       \/ \A c \in Children : pc[c] \in {"unborn", "reaped"}
ChildCanStep(c) == \/ pc[c] \in Critical /\ (pc[c] = "unlock" => semval + 1 >= 0)
                   \/ pc[c] = "lock" /\ semval - 1 >= 0
CanStep == ParentCanStep \/ \E c \in Children : ChildCanStep(c)

\* SEM_UNDO keeps the program going: whoever is killed and wherever, until main() has
\* printed there is a process whose next call returns.
THEOREM SemaphoreStopsOnlyAtEnd == Spec => [](CanStep \/ ppc = "done")
<1>1. SemInv => CanStep \/ ppc = "done"
  <2> SUFFICES ASSUME SemInv, ~CanStep, ppc # "done" PROVE FALSE
    OBVIOUS
  <2>1. /\ ppc \in {"fork", "reap", "done"} /\ pc \in [Children -> ChildStates]
        /\ semval \in {0, 1}
    BY DEF SemInv, TypeOK, ProcTypeOK
  <2>2. \A c \in Children : pc[c] \notin Critical
    BY <2>1 DEF CanStep, ChildCanStep
  <2>3. PICK c \in Children : pc[c] = "lock"
    BY <2>1, <2>2 DEF CanStep, ParentCanStep, ChildStates
  <2>4. semval = 1
    BY <2>2 DEF SemInv, SemaphoreAccounts
  <2> QED
    BY <2>3, <2>4 DEF CanStep, ChildCanStep
<1> QED
  BY <1>1, SemInvInit, SemInvStep, PTL DEF Spec
=============================================================================
