---------------------------- MODULE BoundedFifo ----------------------------
(***************************************************************************)
(* What the shared-memory ring of SharedMemory/posix_shm_ring_sem.c        *)
(* promises: a first-in first-out channel of at most Capacity elements     *)
(* that carries the numbers 1, 2, ..., Items.  Neither semaphores nor      *)
(* slots are visible at this level.                                        *)
(***************************************************************************)
EXTENDS Naturals, Sequences

CONSTANTS Capacity,   \* the most elements the channel holds
          Items       \* how many numbers the producer sends

VARIABLES queue,      \* the elements in transit, oldest first
          sent,       \* the last number sent, 0 before the first
          last        \* the last number delivered, 0 before the first

vars == <<queue, sent, last>>

Init == /\ queue = << >>
        /\ sent = 0
        /\ last = 0

Put == /\ sent < Items
       /\ Len(queue) < Capacity
       /\ queue' = Append(queue, sent + 1)
       /\ sent' = sent + 1
       /\ UNCHANGED last

Get == /\ queue # << >>
       /\ last' = Head(queue)
       /\ queue' = Tail(queue)
       /\ UNCHANGED sent

Next == Put \/ Get

Spec == Init /\ [][Next]_vars
=============================================================================
