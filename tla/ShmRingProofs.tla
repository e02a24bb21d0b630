--------------------------- MODULE ShmRingProofs ---------------------------
(***************************************************************************)
(* Proofs about ShmRing, for every capacity of the ring and every number   *)
(* of items.  RingInv is inductive: the accounting of the semaphores       *)
(* bounds the distance between the two processes (SemaphoreInv), which     *)
(* makes the slot the parent writes different from every unread slot       *)
(* (ContentsInv), which makes what the child loads the next number         *)
(* (DeliveryInv).                                                          *)
(***************************************************************************)
EXTENDS ShmRing, TLAPS

\* Adding one modulo the capacity, as `head' and `tail' are moved in the two
\* loops, is stepping to the next slot with wrap-around.
LEMMA IncrementModulo ==
  ASSUME NEW x \in 0 .. CAPACITY - 1
  PROVE  /\ (x + 1) % CAPACITY = Wrap(x + 1)
         /\ Wrap(x + 1) \in 0 .. CAPACITY - 1
<1>1. CASE x + 1 < CAPACITY
  BY <1>1, RingAssumption DEF Wrap
<1>2. CASE x + 1 = CAPACITY
  BY <1>2, RingAssumption DEF Wrap
<1> QED
  BY <1>1, <1>2, RingAssumption

\* The ring as main() leaves it before fork() satisfies the invariant.
LEMMA RingInvInit == Init => RingInv
<1> SUFFICES ASSUME Init PROVE RingInv
  OBVIOUS
<1> USE RingAssumption DEF Init
<1>1. TypeOK
  <2>1. slots \in [0 .. CAPACITY - 1 -> Nat] /\ head \in 0 .. CAPACITY - 1
    OBVIOUS
  <2>2. value \in 1 .. ITEMS + 1 /\ i \in 0 .. ITEMS
    OBVIOUS
  <2> QED
    BY <2>1, <2>2 DEF TypeOK, ProducerStates, ConsumerStates
<1>2. MutexInv /\ LoopInv
  <2>1. MutexInv
    BY DEF MutexInv, ProducerInside, ConsumerInside
  <2>2. linked <=> ppc # "done"
    BY Zenon
  <2> QED
    BY <2>1, <2>2 DEF LoopInv
<1>3. SemaphoreInv
  <2>1. EmptyTaken = 0 /\ FullTaken = 0
    BY DEF EmptyTaken, FullTaken
  <2> QED
    BY <2>1 DEF SemaphoreInv
<1>4. ContentsInv
  BY DEF ContentsInv, Stored, Loaded, TailMoves, HeadMoves
<1>5. DeliveryInv
  BY DEF DeliveryInv, Loaded
<1> QED
  BY <1>1, <1>2, <1>3, <1>4, <1>5 DEF RingInv

\* Every step of either process preserves the invariant.
LEMMA RingInvStep == RingInv /\ [Next]_vars => RingInv'
<1> SUFFICES ASSUME RingInv, [Next]_vars PROVE RingInv'
  OBVIOUS
<1> USE RingAssumption
    DEF RingInv, TypeOK, ProducerStates, ConsumerStates, MutexInv, ProducerInside,
        ConsumerInside, SemaphoreInv, EmptyTaken, FullTaken, LoopInv, DeliveryInv,
        ContentsInv, Stored, Loaded, TailMoves, HeadMoves, SlotOf, Wrap, sems, ring, child
<1>1. CASE Fork
  BY <1>1 DEF Fork, ProducerLoop, ConsumerLoop
<1>2. CASE ProducerWaitEmpty
  BY <1>2 DEF ProducerWaitEmpty
<1>3. CASE ProducerLock
  BY <1>3 DEF ProducerLock
<1>4. CASE ProducerStore
  <2> USE <1>4 DEF ProducerStore
  <2>1. value - Loaded <= CAPACITY
    OBVIOUS
  <2>2. SlotOf(value) = tail
    OBVIOUS
  <2>3. \A n \in Loaded + 1 .. Stored : SlotOf(n) # tail
    BY <2>1, <2>2
  <2>4. ContentsInv'
    BY <2>2, <2>3
  <2> QED
    BY <2>4
<1>5. CASE ProducerAdvance
  <2> USE <1>5 DEF ProducerAdvance
  <2>1. tail' = Wrap(tail + 1) /\ tail' \in 0 .. CAPACITY - 1
    BY IncrementModulo
  <2>2. ContentsInv'
    BY <2>1
  <2> QED
    BY <2>1, <2>2
<1>6. CASE ProducerUnlock
  BY <1>6 DEF ProducerUnlock
<1>7. CASE ProducerPostFull
  BY <1>7 DEF ProducerPostFull, ProducerLoop
<1>8. CASE WaitForPid
  BY <1>8 DEF WaitForPid
<1>9. CASE ShmUnlink
  BY <1>9, ZenonT(60) DEF ShmUnlink
<1>10. CASE ConsumerWaitFull
  BY <1>10 DEF ConsumerWaitFull
<1>11. CASE ConsumerLock
  BY <1>11 DEF ConsumerLock
<1>12. CASE ConsumerLoad
  <2> USE <1>12 DEF ConsumerLoad
  <2>1. SlotOf(i + 1) = head /\ i + 1 \in Loaded + 1 .. Stored
    OBVIOUS
  <2>2. cvalue' = i + 1
    BY <2>1
  <2> QED
    BY <2>2
<1>13. CASE ConsumerAdvance
  <2> USE <1>13 DEF ConsumerAdvance
  <2>1. head' = Wrap(head + 1) /\ head' \in 0 .. CAPACITY - 1
    BY IncrementModulo
  <2>2. /\ HeadMoves = i /\ HeadMoves' = i + 1 /\ Loaded = i + 1
        /\ UNCHANGED <<tail, slots, i, Stored, Loaded, TailMoves>>
    OBVIOUS
  <2>3. /\ i \in Nat /\ Stored \in Nat /\ TailMoves \in Nat
        /\ Stored - i <= CAPACITY
        /\ i + 1 <= TailMoves
    OBVIOUS
  <2>4. ContentsInv'
    <3> DEFINE k == TailMoves - i
    <3> HIDE DEF Stored, Loaded, TailMoves, HeadMoves
    <3>0. tail = head + k \/ tail = head + k - CAPACITY
      BY <2>2
    <3>1. \/ tail' = head' + (TailMoves' - HeadMoves')
          \/ tail' = head' + (TailMoves' - HeadMoves') - CAPACITY
      <4> HIDE <1>13
      <4>1. TailMoves' - HeadMoves' = k - 1 /\ tail' = tail /\ k \in Int /\ k >= 1
        BY <2>2, <2>3
      <4>2. head \in 0 .. CAPACITY - 1 /\ tail \in 0 .. CAPACITY - 1
        OBVIOUS
      <4> HIDE DEF k, RingInv
      <4> QED
        BY <2>1, <3>0, <4>1, <4>2
    <3>2. ASSUME NEW n \in Loaded + 1 .. Stored
          PROVE  SlotOf(n)' = SlotOf(n)
      <4> HIDE <1>13
      <4>1. head \in 0 .. CAPACITY - 1 /\ CAPACITY \in Nat
        OBVIOUS
      <4>2. n \in Int /\ i + 2 <= n /\ n <= i + CAPACITY
        BY <2>2, <2>3
      <4>3. SlotOf(n) = Wrap(head + (n - i - 1)) /\ SlotOf(n)' = Wrap(head' + (n - i - 2))
        BY <2>1, <2>2, <2>3, <4>2
      <4> HIDE DEF RingInv, SlotOf
      <4> QED
        BY <2>1, <2>3, <4>1, <4>2, <4>3
    <3>3. \A n \in Loaded + 1 .. Stored : slots[SlotOf(n)] = n
      OBVIOUS
    <3> HIDE DEF SlotOf
    <3> QED
      BY <2>2, <3>1, <3>2, <3>3
  <2> QED
    BY <2>1, <2>2, <2>4
<1>14. CASE ConsumerUnlock
  BY <1>14 DEF ConsumerUnlock
<1>15. CASE ConsumerPostEmpty
  BY <1>15 DEF ConsumerPostEmpty, ConsumerLoop
<1>16. CASE UNCHANGED vars
  BY <1>16 DEF vars
<1> QED
  BY <1>1, <1>2, <1>3, <1>4, <1>5, <1>6, <1>7, <1>8, <1>9, <1>10, <1>11, <1>12,
     <1>13, <1>14, <1>15, <1>16, ZenonT(60)
  DEF Next, Producer, Consumer

\* The ring invariant of posix_shm_ring_sem.c holds in every reachable state,
\* for every CAPACITY and ITEMS, whether or not fork() succeeds.
THEOREM RingInvariance == Spec => []RingInv
  BY RingInvInit, RingInvStep, PTL DEF Spec

\* Type correctness: in particular head and tail never leave the array.
THEOREM RingTypeOK == Spec => []TypeOK
<1>1. RingInv => TypeOK
  BY DEF RingInv
<1> QED
  BY <1>1, RingInvariance, PTL

\* The total the child prints is the sum 1 + ... + ITEMS.
THEOREM RingConsumerTotal == Spec => []ConsumerTotal
<1>1. RingInv => ConsumerTotal
  BY DEF RingInv, DeliveryInv, LoopInv, ConsumerTotal
<1> QED
  BY <1>1, RingInvariance, PTL

-----------------------------------------------------------------------------
(* The ring implements BoundedFifo.  Read off the slots, the numbers in     *)
(* transit are Loaded + 1, ..., Stored (ContentsInv); storing appends the   *)
(* next one, loading removes the first, and no other step is visible.       *)

\* The numbers a to b, as a sequence.
Interval(a, b) == [k \in 1 .. b - a |-> a + k]

\* Storing one more number appends it; loading one removes the first.
LEMMA IntervalSteps ==
  ASSUME NEW a \in Nat, NEW b \in Nat, a <= b
  PROVE  /\ Interval(a, b) \in Seq(Nat) /\ Len(Interval(a, b)) = b - a
         /\ Interval(a, b + 1) = Append(Interval(a, b), b + 1)
         /\ a < b => /\ Interval(a, b) # << >>
                     /\ Head(Interval(a, b)) = a + 1
                     /\ Tail(Interval(a, b)) = Interval(a + 1, b)
  BY SMTT(30) DEF Interval

\* What BoundedFifo calls the queue: the unread slots, read from the head on.
Transit == [k \in 1 .. Stored - Loaded |-> slots[SlotOf(Loaded + k)]]

\* In a state of the invariant the ring holds exactly Loaded + 1, ..., Stored, and
\* the child last received Loaded.
Window == /\ Loaded \in Nat /\ Stored \in Nat /\ Loaded <= Stored
          /\ Transit = Interval(Loaded, Stored)
          /\ cvalue = Loaded

\* The invariant makes the ring a window on the natural numbers.
LEMMA InTransit == RingInv => Window
<1> SUFFICES ASSUME RingInv PROVE Window
  OBVIOUS
<1>1. Loaded \in Nat /\ Stored \in Nat /\ Loaded <= Stored
  BY RingAssumption DEF RingInv, TypeOK, SemaphoreInv, FullTaken, Loaded, Stored, LoopInv
<1>2. \A n \in Loaded + 1 .. Stored : slots[SlotOf(n)] = n
  BY DEF RingInv, ContentsInv
<1>3. \A k \in 1 .. Stored - Loaded : slots[SlotOf(Loaded + k)] = Loaded + k
  BY <1>1, <1>2
<1> QED
  BY <1>1, <1>3 DEF Window, Transit, Interval, RingInv, DeliveryInv

\* What each step does to the two counts: the parent's store and the child's load
\* each move one of them by one, and no other step moves either.
LEMMA CountSteps ==
  ASSUME RingInv, [Next]_vars
  PROVE  \/ /\ Stored' = Stored + 1 /\ Loaded' = Loaded
            /\ Stored < ITEMS /\ Stored - Loaded < CAPACITY
         \/ /\ Loaded' = Loaded + 1 /\ Stored' = Stored
            /\ Loaded < Stored
         \/ Loaded' = Loaded /\ Stored' = Stored
<1> USE RingAssumption
    DEF RingInv, TypeOK, ProducerStates, ConsumerStates, SemaphoreInv, EmptyTaken, FullTaken,
        LoopInv, Stored, Loaded, sems, ring, child
<1>1. CASE ProducerStore
  BY <1>1 DEF ProducerStore
<1>2. CASE ConsumerLoad
  BY <1>2 DEF ConsumerLoad
<1>3. CASE Fork \/ WaitForPid \/ ShmUnlink \/ UNCHANGED vars
  BY <1>3, ZenonT(40) DEF Fork, WaitForPid, ShmUnlink, ProducerLoop, ConsumerLoop, vars
<1>4. CASE ProducerWaitEmpty \/ ProducerLock \/ ProducerAdvance \/ ProducerUnlock
  BY <1>4, ZenonT(40) DEF ProducerWaitEmpty, ProducerLock, ProducerAdvance, ProducerUnlock
<1>5. CASE ProducerPostFull
  BY <1>5, SMTT(30) DEF ProducerPostFull, ProducerLoop
<1>6. CASE ConsumerWaitFull \/ ConsumerLock \/ ConsumerAdvance \/ ConsumerUnlock
  BY <1>6, ZenonT(40) DEF ConsumerWaitFull, ConsumerLock, ConsumerAdvance, ConsumerUnlock
<1>7. CASE ConsumerPostEmpty
  BY <1>7 DEF ConsumerPostEmpty, ConsumerLoop
<1> QED
  BY <1>1, <1>2, <1>3, <1>4, <1>5, <1>6, <1>7, Zenon DEF Next, Producer, Consumer

\* A step of the ring is a Put, a Get or invisible.
LEMMA FifoStep ==
  ASSUME RingInv, Window, Window', [Next]_vars
  PROVE  [Fifo!Next]_Fifo!vars
<1> USE DEF Window
<1>1. CASE /\ Stored' = Stored + 1 /\ Loaded' = Loaded
           /\ Stored < ITEMS /\ Stored - Loaded < CAPACITY
  <2>1. Transit' = Append(Transit, Stored + 1) /\ Len(Transit) < CAPACITY
    BY <1>1, IntervalSteps, Zenon
  <2>2. Fifo!Put
    BY <1>1, <2>1, Zenon DEF Fifo!Put, Transit
  <2> QED
    BY <2>2 DEF Fifo!Next
<1>2. CASE Loaded' = Loaded + 1 /\ Stored' = Stored /\ Loaded < Stored
  <2>1. Transit # << >> /\ cvalue' = Head(Transit) /\ Transit' = Tail(Transit)
    BY <1>2, IntervalSteps, Zenon
  <2>2. Fifo!Get
    BY <1>2, <2>1, Zenon DEF Fifo!Get, Transit
  <2> QED
    BY <2>2 DEF Fifo!Next
<1>3. CASE Loaded' = Loaded /\ Stored' = Stored
  <2>1. Transit' = Transit /\ cvalue' = cvalue
    BY <1>3
  <2> QED
    BY <1>3, <2>1 DEF Fifo!vars, Transit
<1> QED
  BY <1>1, <1>2, <1>3, CountSteps

\* The shared-memory ring of posix_shm_ring_sem.c implements a bounded FIFO
\* channel: no number is overwritten, skipped, repeated or delivered out of order,
\* for every CAPACITY and ITEMS and whether or not fork() succeeds.
THEOREM RingRefinesFifo == Spec => ImplementsFifo
<1>1. Init => Fifo!Init
  BY RingAssumption DEF Init, Fifo!Init, Stored, Loaded
<1>2. RingInv /\ RingInv' /\ [Next]_vars => [Fifo!Next]_Fifo!vars
  <2>1. RingInv' => Window'
    BY InTransit, PTL
  <2> QED
    BY <2>1, InTransit, FifoStep
<1> QED
  BY <1>1, <1>2, RingInvariance, PTL DEF Spec, ImplementsFifo, Fifo!Spec

-----------------------------------------------------------------------------
(* Termination.  That the program ends (ConsumerCompletes,                  *)
(* OrphanProducerStops) needs fairness and is model-checked; the two facts  *)
(* it rests on need none.  Every step uses up some of a finite amount of    *)
(* work, so the steps run out; and where no process can take one, the       *)
(* program is in one of its three ends.                                     *)

\* Steps of its current iteration that a process has made, by program counter.
ProducerDone == CASE ppc = "lock" -> 1
                  [] ppc = "store" -> 2
                  [] ppc = "advance" -> 3
                  [] ppc = "unlock" -> 4
                  [] ppc = "postFull" -> 5
                  [] OTHER -> 0
ConsumerDone == CASE cpc = "lock" -> 1
                  [] cpc = "load" -> 2
                  [] cpc = "advance" -> 3
                  [] cpc = "unlock" -> 4
                  [] cpc = "postEmpty" -> 5
                  [] OTHER -> 0

\* Calls the parent still makes outside its loop: fork, wait_for_pid, shm_unlink.
Outside == CASE ppc = "fork" -> 3
             [] ppc = "unlink" -> 1
             [] ppc \in {"done", "died"} -> 0
             [] OTHER -> 2

\* The steps the two processes still make together, if the child exists: six for
\* each iteration of each loop.
StepsLeft == (6 * (ITEMS + 1 - value) - ProducerDone) + (6 * (ITEMS - i) - ConsumerDone)
               + Outside

\* The program as main() reaches fork() has at most 12 * ITEMS + 3 steps to make.
LEMMA StepsAtFork == Init => StepsLeft = 12 * ITEMS + 3
  BY RingAssumption DEF Init, StepsLeft, ProducerDone, ConsumerDone, Outside

\* The bound is a natural number, and every step of either process lowers it: no
\* loop of posix_shm_ring_sem.c runs forever, whatever the interleaving and whether
\* or not fork() succeeds.
THEOREM RingStepsRunOut == Spec => [](StepsLeft \in Nat) /\ [][StepsLeft' < StepsLeft]_vars
<1>1. RingInv => StepsLeft \in Nat
  <2> SUFFICES ASSUME RingInv PROVE StepsLeft \in Nat
    OBVIOUS
  <2>1. /\ Outside \in 0 .. 3 /\ ProducerDone \in 0 .. 5 /\ ConsumerDone \in 0 .. 5
        /\ ProducerDone > 0 => value <= ITEMS
        /\ ConsumerDone > 0 => i < ITEMS
    BY DEF Outside, ProducerDone, ConsumerDone, RingInv, LoopInv
  <2>2. ITEMS \in Nat /\ value \in 1 .. ITEMS + 1 /\ i \in 0 .. ITEMS
    BY RingAssumption DEF RingInv, TypeOK
  <2> QED
    BY <2>1, <2>2 DEF StepsLeft
<1>2. RingInv /\ [Next]_vars => [StepsLeft' < StepsLeft]_vars
  <2> SUFFICES ASSUME RingInv, Next PROVE StepsLeft' < StepsLeft
    OBVIOUS
  <2>1. /\ ITEMS \in Nat /\ value \in 1 .. ITEMS + 1 /\ i \in 0 .. ITEMS
        /\ ppc = "fork" => value = 1 /\ cpc = "none"
        /\ cpc = "none" => i = 0
        /\ ppc = "postFull" => value <= ITEMS
        /\ cpc = "postEmpty" => i < ITEMS
    BY RingAssumption DEF RingInv, TypeOK, LoopInv
  <2> USE <2>1 DEF StepsLeft, ProducerDone, ConsumerDone, Outside, sems, ring, child
  <2>2. CASE Fork
    BY <2>2 DEF Fork, ProducerLoop, ConsumerLoop
  <2>3. CASE ProducerWaitEmpty \/ ProducerLock \/ ProducerStore \/ ProducerAdvance
             \/ ProducerUnlock \/ ShmUnlink
    BY <2>3 DEF ProducerWaitEmpty, ProducerLock, ProducerStore, ProducerAdvance,
                ProducerUnlock, ShmUnlink
  <2>4. CASE ProducerPostFull
    BY <2>4 DEF ProducerPostFull, ProducerLoop
  <2>5. CASE WaitForPid
    BY <2>5 DEF WaitForPid
  <2>6. CASE ConsumerWaitFull \/ ConsumerLock \/ ConsumerLoad \/ ConsumerAdvance
             \/ ConsumerUnlock
    BY <2>6 DEF ConsumerWaitFull, ConsumerLock, ConsumerLoad, ConsumerAdvance,
                ConsumerUnlock
  <2>7. CASE ConsumerPostEmpty
    BY <2>7 DEF ConsumerPostEmpty, ConsumerLoop
  <2> QED
    BY <2>2, <2>3, <2>4, <2>5, <2>6, <2>7, Zenon DEF Next, Producer, Consumer
<1> QED
  BY <1>1, <1>2, RingInvariance, PTL DEF Spec

\* The conditions under which a process's next call returns: the guards of the
\* actions of Producer and of Consumer.
ProducerCanStep == \/ ppc \in {"store", "advance", "unlock", "postFull", "unlink"}
                   \/ ppc = "waitEmpty" /\ empty > 0
                   \/ ppc = "lock" /\ mutex > 0
                   \/ ppc = "reap" /\ cpc \in {"exited", "none"}
ConsumerCanStep == \/ cpc \in {"load", "advance", "unlock", "postEmpty"}
                   \/ cpc = "waitFull" /\ full > 0
                   \/ cpc = "lock" /\ mutex > 0
CanStep == ppc = "fork" \/ ProducerCanStep \/ ConsumerCanStep

\* The three ends: both processes are gone and the name with them; or fork() failed
\* and the parent waits on a full ring, or, having had room for everything, died in
\* wait_for_pid.
Completed == ppc = "done" /\ cpc = "reaped" /\ ~linked
OrphanBlocked == cpc = "none" /\ ppc = "waitEmpty" /\ value = CAPACITY + 1 /\ linked
OrphanDied == cpc = "none" /\ ppc = "died" /\ ITEMS <= CAPACITY /\ linked

\* Neither process is ever left waiting for the other: while the child exists and
\* the program has not completed, one of them can go on.  Only a parent without a
\* child stops early, after exactly CAPACITY numbers.
THEOREM RingStopsOnlyAtEnd ==
  Spec => [](CanStep \/ Completed \/ OrphanBlocked \/ OrphanDied)
<1>1. ASSUME RingInv, ~CanStep PROVE Completed \/ OrphanBlocked \/ OrphanDied
  <2>1. /\ CAPACITY \in Nat \ {0} /\ ITEMS \in Nat
        /\ empty \in Nat /\ full \in Nat /\ mutex \in Nat
        /\ value \in 1 .. ITEMS + 1 /\ i \in 0 .. ITEMS
        /\ ppc \in ProducerStates /\ cpc \in ConsumerStates
    BY <1>1, RingAssumption DEF RingInv, TypeOK
  <2>2. /\ ppc \in {"waitEmpty", "lock", "reap", "done", "died"}
        /\ cpc \in {"none", "waitFull", "lock", "exited", "reaped"}
    BY <1>1, <2>1 DEF CanStep, ProducerCanStep, ConsumerCanStep, ProducerStates, ConsumerStates
  <2>3. mutex = 1 /\ ppc # "lock" /\ cpc # "lock"
    BY <1>1, <2>2 DEF RingInv, MutexInv, ProducerInside, ConsumerInside,
                      CanStep, ProducerCanStep, ConsumerCanStep
  <2>4. empty = CAPACITY - (value - 1) + i /\ full = value - 1 - i
    BY <1>1, <2>1, <2>2, <2>3 DEF RingInv, SemaphoreInv, EmptyTaken, FullTaken
  <2>5. linked <=> ppc # "done"
    BY <1>1 DEF RingInv, LoopInv
  <2>6. CASE ppc = "waitEmpty"
    <3>1. empty = 0 /\ value = CAPACITY + 1 + i /\ full = CAPACITY
      BY <1>1, <2>1, <2>4, <2>6 DEF CanStep, ProducerCanStep
    <3>2. cpc = "none" /\ i = 0
      BY <1>1, <2>1, <2>2, <2>3, <2>6, <3>1 DEF CanStep, ConsumerCanStep, RingInv, LoopInv
    <3> QED
      BY <2>1, <2>5, <2>6, <3>1, <3>2 DEF OrphanBlocked
  <2>7. CASE ppc = "reap"
    <3>1. cpc = "waitFull" /\ value = ITEMS + 1 /\ i < ITEMS
      BY <1>1, <2>2, <2>3, <2>7 DEF CanStep, ProducerCanStep, RingInv, LoopInv
    <3> QED
      BY <1>1, <2>1, <2>4, <3>1 DEF CanStep, ConsumerCanStep
  <2>8. CASE ppc = "done"
    BY <1>1, <2>5, <2>8, Zenon DEF RingInv, LoopInv, Completed
  <2>9. CASE ppc = "died"
    <3>1. cpc = "none" /\ i = 0 /\ value = ITEMS + 1
      BY <1>1, <2>9 DEF RingInv, LoopInv
    <3> QED
      BY <2>1, <2>4, <2>5, <2>9, <3>1 DEF OrphanDied
  <2> QED
    BY <2>2, <2>3, <2>6, <2>7, <2>8, <2>9
<1> QED
  BY <1>1, RingInvariance, PTL
=============================================================================
