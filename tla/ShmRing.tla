------------------------------ MODULE ShmRing ------------------------------
(***************************************************************************)
(* SharedMemory/posix_shm_ring_sem.c: the parent produces 1..ITEMS into a  *)
(* ring of CAPACITY slots in POSIX shared memory, a forked child consumes  *)
(* and adds them up.  Two counting semaphores (empty, full) bound the ring *)
(* and a third (mutex) protects the indices.                               *)
(*                                                                         *)
(* A step is one semaphore call or one access to the shared structure;     *)
(* computations on a process's own variables ride along with the step      *)
(* before them.  sem_wait_retry loops on EINTR: an interrupted sem_wait    *)
(* changes nothing, so the loop is the blocking guard `value > 0'.         *)
(***************************************************************************)
EXTENDS Integers, Sequences

CONSTANTS CAPACITY,      \* slots of the ring (8 in the program)
          ITEMS,         \* numbers produced (20 in the program)
          ForkCanFail    \* may fork() return -1?

ASSUME RingAssumption == /\ CAPACITY \in Nat \ {0}
                         /\ ITEMS \in Nat
                         /\ ForkCanFail \in BOOLEAN

VARIABLES
  empty, full, mutex,    \* values of the three process-shared semaphores
  head, tail, slots,     \* the rest of struct ring
  ppc, value,            \* parent: program counter and loop variable
  cpc, i, cvalue, total, \* child: program counter and locals
  linked                 \* does the name /ipc_ring_sem exist?

sems  == <<empty, full, mutex>>
ring  == <<head, tail, slots>>
child == <<cpc, i, cvalue, total>>
vars  == <<empty, full, mutex, head, tail, slots, ppc, value,
           cpc, i, cvalue, total, linked>>

ProducerStates == {"fork", "waitEmpty", "lock", "store", "advance", "unlock",
                   "postFull", "reap", "unlink", "done", "died"}
ConsumerStates == {"none", "waitFull", "lock", "load", "advance", "unlock",
                   "postEmpty", "exited", "reaped"}

\* Where the two for loops go next, given the loop variable.
ProducerLoop(v) == IF v <= ITEMS THEN "waitEmpty" ELSE "reap"
ConsumerLoop(n) == IF n < ITEMS THEN "waitFull" ELSE "exited"

\* Mutant of Init: `empty' starts one too high.
InitEmptyTooHigh == /\ empty = CAPACITY + 1
                    /\ full = 0
                    /\ mutex = 1
                    /\ head = 0
                    /\ tail = 0
                    /\ slots = [s \in 0 .. CAPACITY - 1 |-> 0]
                    /\ ppc = "fork"
                    /\ value = 1
                    /\ cpc = "none"
                    /\ i = 0
                    /\ cvalue = 0
                    /\ total = 0
                    /\ linked = TRUE

\* main() up to fork(): the object is created, cleared and its semaphores set.
Init == /\ empty = CAPACITY
        /\ full = 0
        /\ mutex = 1
        /\ head = 0
        /\ tail = 0
        /\ slots = [s \in 0 .. CAPACITY - 1 |-> 0]
        /\ ppc = "fork"
        /\ value = 1
        /\ cpc = "none"
        /\ i = 0
        /\ cvalue = 0
        /\ total = 0
        /\ linked = TRUE

\* fork() is not checked for -1: on failure the parent produces without a consumer.
Fork == /\ ppc = "fork"
        /\ ppc' = ProducerLoop(value)
        /\ \/ cpc' = ConsumerLoop(0)
           \/ ForkCanFail /\ cpc' = "none"
        /\ UNCHANGED <<sems, ring, value, i, cvalue, total, linked>>

-----------------------------------------------------------------------------
(* The parent's loop.                                                      *)

\* Mutant of ProducerWaitEmpty: sem_trywait with its result ignored.
ProducerWaitEmptyTry == /\ ppc = "waitEmpty"
                        /\ empty' = IF empty > 0 THEN empty - 1 ELSE empty
                        /\ ppc' = "lock"
                        /\ UNCHANGED <<full, mutex, ring, value, child, linked>>

ProducerWaitEmpty == /\ ppc = "waitEmpty"
                     /\ empty > 0
                     /\ empty' = empty - 1
                     /\ ppc' = "lock"
                     /\ UNCHANGED <<full, mutex, ring, value, child, linked>>

\* Mutant of ProducerLock: the lock is not taken.
ProducerLockSkipped == /\ ppc = "lock"
                       /\ ppc' = "store"
                       /\ UNCHANGED <<sems, ring, value, child, linked>>

ProducerLock == /\ ppc = "lock"
                /\ mutex > 0
                /\ mutex' = mutex - 1
                /\ ppc' = "store"
                /\ UNCHANGED <<empty, full, ring, value, child, linked>>

ProducerStore == /\ ppc = "store"
                 /\ slots' = [slots EXCEPT ![tail] = value]
                 /\ ppc' = "advance"
                 /\ UNCHANGED <<sems, head, tail, value, child, linked>>

ProducerAdvance == /\ ppc = "advance"
                   /\ tail' = (tail + 1) % CAPACITY
                   /\ ppc' = "unlock"
                   /\ UNCHANGED <<sems, head, slots, value, child, linked>>

ProducerUnlock == /\ ppc = "unlock"
                  /\ mutex' = mutex + 1
                  /\ ppc' = "postFull"
                  /\ UNCHANGED <<empty, full, ring, value, child, linked>>

\* Mutant of ProducerPostFull: the post is forgotten.
ProducerPostFullLost == /\ ppc = "postFull"
                        /\ value' = value + 1
                        /\ ppc' = ProducerLoop(value + 1)
                        /\ UNCHANGED <<sems, ring, child, linked>>

ProducerPostFull == /\ ppc = "postFull"
                    /\ full' = full + 1
                    /\ value' = value + 1
                    /\ ppc' = ProducerLoop(value + 1)
                    /\ UNCHANGED <<empty, mutex, ring, child, linked>>

\* wait_for_pid(child).  With child = -1 and no child left, waitpid fails
\* with ECHILD and the parent dies, leaving the name behind.
WaitForPid == /\ ppc = "reap"
              /\ cpc \in {"exited", "none"}
              /\ cpc' = IF cpc = "exited" THEN "reaped" ELSE cpc
              /\ ppc' = IF cpc = "exited" THEN "unlink" ELSE "died"
              /\ UNCHANGED <<sems, ring, value, i, cvalue, total, linked>>

ShmUnlink == /\ ppc = "unlink"
             /\ linked' = FALSE
             /\ ppc' = "done"
             /\ UNCHANGED <<sems, ring, value, child>>

Producer == \/ ProducerWaitEmpty \/ ProducerLock \/ ProducerStore
            \/ ProducerAdvance \/ ProducerUnlock \/ ProducerPostFull
            \/ WaitForPid \/ ShmUnlink

-----------------------------------------------------------------------------
(* The child's loop.                                                       *)

ConsumerWaitFull == /\ cpc = "waitFull"
                    /\ full > 0
                    /\ full' = full - 1
                    /\ cpc' = "lock"
                    /\ UNCHANGED <<empty, mutex, ring, ppc, value, i, cvalue, total, linked>>

ConsumerLock == /\ cpc = "lock"
                /\ mutex > 0
                /\ mutex' = mutex - 1
                /\ cpc' = "load"
                /\ UNCHANGED <<empty, full, ring, ppc, value, i, cvalue, total, linked>>

ConsumerLoad == /\ cpc = "load"
                /\ cvalue' = slots[head]
                /\ cpc' = "advance"
                /\ UNCHANGED <<sems, ring, ppc, value, i, total, linked>>

ConsumerAdvance == /\ cpc = "advance"
                   /\ head' = (head + 1) % CAPACITY
                   /\ cpc' = "unlock"
                   /\ UNCHANGED <<sems, tail, slots, ppc, value, i, cvalue, total, linked>>

ConsumerUnlock == /\ cpc = "unlock"
                  /\ mutex' = mutex + 1
                  /\ cpc' = "postEmpty"
                  /\ UNCHANGED <<empty, full, ring, ppc, value, i, cvalue, total, linked>>

\* The last post of the body, then `total += value' and the loop test; a
\* child that leaves the loop prints the total and exits.
ConsumerPostEmpty == /\ cpc = "postEmpty"
                     /\ empty' = empty + 1
                     /\ total' = total + cvalue
                     /\ i' = i + 1
                     /\ cpc' = ConsumerLoop(i + 1)
                     /\ UNCHANGED <<full, mutex, ring, ppc, value, cvalue, linked>>

Consumer == \/ ConsumerWaitFull \/ ConsumerLock \/ ConsumerLoad
            \/ ConsumerAdvance \/ ConsumerUnlock \/ ConsumerPostEmpty

Next == Fork \/ Producer \/ Consumer

Spec == Init /\ [][Next]_vars

\* Each process is scheduled as long as it can run.
FairSpec == Spec /\ WF_vars(Fork) /\ WF_vars(Producer) /\ WF_vars(Consumer)

-----------------------------------------------------------------------------
(* Progress of the two processes, read off their program counters.         *)

\* Numbers stored in a slot / slots behind tail, by the parent.
Stored == value - 1 + (IF ppc \in {"advance", "unlock", "postFull"} THEN 1 ELSE 0)
TailMoves == value - 1 + (IF ppc \in {"unlock", "postFull"} THEN 1 ELSE 0)

\* Numbers loaded from a slot / slots behind head, by the child.
Loaded == i + (IF cpc \in {"advance", "unlock", "postEmpty"} THEN 1 ELSE 0)
HeadMoves == i + (IF cpc \in {"unlock", "postEmpty"} THEN 1 ELSE 0)

\* Tokens taken from `empty' by the parent, from `full' by the child.
EmptyTaken == value - 1 + (IF ppc \in {"lock", "store", "advance", "unlock", "postFull"}
                           THEN 1 ELSE 0)
FullTaken == i + (IF cpc \in {"lock", "load", "advance", "unlock", "postEmpty"}
                  THEN 1 ELSE 0)

ProducerInside == ppc \in {"store", "advance", "unlock"}
ConsumerInside == cpc \in {"load", "advance", "unlock"}

\* The slot `s' places after slot x of the ring, for s at most CAPACITY.
Wrap(x) == IF x >= CAPACITY THEN x - CAPACITY ELSE x

\* The slot that number n belongs in, counted from the current head.
SlotOf(n) == Wrap(head + (n - HeadMoves - 1))

-----------------------------------------------------------------------------
(* Properties.                                                             *)

\* The variables have the types the C declarations give them; head and tail
\* stay inside the array, so that no access is out of bounds.
TypeOK == /\ empty \in Nat /\ full \in Nat /\ mutex \in Nat
          /\ head \in 0 .. CAPACITY - 1
          /\ tail \in 0 .. CAPACITY - 1
          /\ slots \in [0 .. CAPACITY - 1 -> Nat]
          /\ ppc \in ProducerStates
          /\ value \in 1 .. ITEMS + 1
          /\ cpc \in ConsumerStates
          /\ i \in 0 .. ITEMS
          /\ cvalue \in Nat
          /\ total \in Nat
          /\ linked \in BOOLEAN

\* The mutex is a lock: it is taken exactly while one process is between its
\* sem_wait_retry(&ring->mutex) and its sem_post(&ring->mutex).
MutexInv == /\ ~(ProducerInside /\ ConsumerInside)
            /\ mutex = IF ProducerInside \/ ConsumerInside THEN 0 ELSE 1

\* The counting semaphores add up: a token of `empty' is either available, held
\* by the parent, or stands for a number the child has not given back.
SemaphoreInv == /\ empty = CAPACITY - EmptyTaken + i
                /\ full = value - 1 - FullTaken

\* Every number that was stored and not yet loaded is intact in its own slot,
\* and tail lies exactly as far behind head as there are numbers between them.
ContentsInv == /\ \/ tail = head + (TailMoves - HeadMoves)
                  \/ tail = head + (TailMoves - HeadMoves) - CAPACITY
               /\ \A n \in Loaded + 1 .. Stored : slots[SlotOf(n)] = n

\* The two loops are where their program counters say.
LoopInv == /\ ppc \in {"waitEmpty", "lock", "store", "advance", "unlock", "postFull"}
                 => value <= ITEMS
           /\ ppc \in {"reap", "unlink", "done", "died"} => value = ITEMS + 1
           /\ ppc = "fork" => value = 1 /\ cpc = "none"
           /\ cpc \in {"waitFull", "lock", "load", "advance", "unlock", "postEmpty"}
                 => i < ITEMS
           /\ cpc \in {"exited", "reaped"} => i = ITEMS
           /\ cpc = "none" => i = 0
           /\ ppc \in {"unlink", "done"} <=> cpc = "reaped"
           /\ ppc = "died" => cpc = "none"
           /\ linked <=> ppc # "done"

\* The child has received 1, 2, ..., Loaded in this order and has summed the
\* first i of them.
DeliveryInv == /\ cvalue = Loaded
               /\ 2 * total = i * (i + 1)

\* The inductive invariant: the synchronisation of posix_shm_ring_sem.c keeps
\* the ring a faithful window on the sequence 1, 2, 3, ...
RingInv == /\ TypeOK /\ MutexInv /\ SemaphoreInv
           /\ LoopInv /\ ContentsInv /\ DeliveryInv

\* A child that has printed `consumer total=' printed the sum of all ITEMS
\* numbers (210 for the program's 20, as docs/SAMPLE_OUTPUT.md shows), whatever
\* the interleaving.
ConsumerTotal == cpc \in {"exited", "reaped"} => 2 * total = ITEMS * (ITEMS + 1)

\* The ring implements a bounded FIFO channel: the numbers in transit are read
\* off the slots themselves, so an overwritten, skipped, repeated or reordered
\* slot is a step BoundedFifo does not have.
Fifo == INSTANCE BoundedFifo
          WITH Capacity <- CAPACITY, Items <- ITEMS,
               queue <- [k \in 1 .. Stored - Loaded |-> slots[SlotOf(Loaded + k)]],
               sent <- Stored, last <- cvalue
ImplementsFifo == Fifo!Spec

\* Once the child exists the program ends: the parent is never left waiting on
\* `empty', the child never on `full', neither on `mutex', and the name of the
\* shared memory object is gone.
ConsumerCompletes == (cpc = "waitFull") ~> [](ppc = "done" /\ cpc = "reaped" /\ ~linked)

\* If fork() failed, a parent with more items than slots, as in the program,
\* fills the ring and then waits on `empty' for good, without touching an unread
\* slot; the name of the object stays.
OrphanProducerStops == (ppc # "fork" /\ cpc = "none" /\ ITEMS > CAPACITY)
                         ~> [](ppc = "waitEmpty" /\ value = CAPACITY + 1 /\ linked)
=============================================================================
