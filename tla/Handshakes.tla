----------------------------- MODULE Handshakes -----------------------------
(***************************************************************************)
(* Calls on semaphores and file locks, and the programs made of them:      *)
(*   barrier    Semaphores/sysv_semaphore_set_barrier.c                    *)
(*   pingpong   Semaphores/posix_named_sem_pingpong.c                      *)
(*   latch      Semaphores/posix_shm_unnamed_sem_latch.c                   *)
(*   request    MessageQueues/sysv_request_reply.c                         *)
(*   ordered    FileLocking/deadlock_avoidance_ordering.c                  *)
(*   ranges     FileLocking/fcntl_byte_range_locks.c                       *)
(*   flock      FileLocking/flock_parent_child.c                           *)
(* Messages of one type without competition are a semaphore: a unit is put *)
(* and taken.  No program looks at the result of fork().                   *)
(***************************************************************************)
EXTENDS Processes

CONSTANTS WORKERS,       \* children at the barrier, 3 in the program
          ROUNDS         \* rounds of ping-pong, 3 in the program

ASSUME HandshakeAssumption == WORKERS \in 2 .. MaxChildren /\ ROUNDS \in Nat

VARIABLES sem,           \* the values of the semaphores
          held           \* per process: the bytes of the file it has locked

syncVars == <<sem, held>>

Sem(s, d) == [op |-> "sem", on |-> s, delta |-> d]
Zero(s)   == [op |-> "zero", on |-> s]
Lock(b)   == [op |-> "lock", bytes |-> b]
Unlock(b) == [op |-> "unlock", bytes |-> b]
Try(b)    == [op |-> "try", bytes |-> b]

-----------------------------------------------------------------------------
(* The programs.                                                           *)

BarrierParent == [k \in 1 .. WORKERS |-> Fork(k)] \o <<ReapAll>>
BarrierChild == <<Do("reached"), Sem("gate", -1), Zero("gate"), Do("released")>>

PingPongParent == <<Fork(1)>> \o Repeat(<<Sem("ping", -1), Printf("ping"), Sem("pong", 1)>>, ROUNDS)
                    \o <<Wait(1)>>
PingPongChild == Repeat(<<Sem("pong", -1), Do("pong"), Sem("ping", 1)>>, ROUNDS)

\* Mutant of LatchParent: the latch is released before the message is there.
LatchParentEarly == <<Fork(1), Sem("ready", 1), Do("written"), Wait(1)>>
LatchParent == <<Fork(1), Do("written"), Sem("ready", 1), Wait(1)>>
LatchChild == <<Sem("ready", -1), Do("observed")>>

RequestParent == <<Fork(1), Do("asked"), Sem("request", 1), Sem("reply", -1), Printf("answer"), Wait(1)>>
RequestServer == <<Sem("request", -1), Do("answered"), Sem("reply", 1)>>

OrderedParent == <<Fork(1), Fork(2), ReapAll>>
\* Mutant of OrderedChild: every process starts with a byte of its own.
OrderedChildCrossed(q) == <<Lock({q % 2}), Lock({(q + 1) % 2}), Do("acquired")>>
OrderedChild(q) == <<Lock({0}), Lock({1}), Do("acquired")>>

RangesParent == <<Fork(1), Fork(2), Wait(1), Wait(2)>>
RangesChild(q) == <<Lock(IF q = 1 THEN 0 .. 31 ELSE 64 .. 95), Do("wrote")>>

FlockParent == <<Lock({0}), Fork(1), Wait(1), Unlock({0})>>
FlockChild == <<Try({0})>>

SyncScripts ==
  [barrier  |-> Family(BarrierParent, [k \in 1 .. WORKERS |-> BarrierChild]),
   pingpong |-> Family(PingPongParent, <<PingPongChild>>),
   latch    |-> Family(LatchParent, <<LatchChild>>),
   request  |-> Family(RequestParent, <<RequestServer>>),
   ordered  |-> Family(OrderedParent, <<OrderedChild(1), OrderedChild(2)>>),
   ranges   |-> Family(RangesParent, <<RangesChild(1), RangesChild(2)>>),
   flock    |-> Family(FlockParent, <<FlockChild>>)]

\* What each program is there to show, in this order.
SyncOrder ==
  [barrier  |-> Repeat(<<"reached">>, WORKERS) \o Repeat(<<"released">>, WORKERS),
   pingpong |-> Repeat(<<"ping", "pong">>, ROUNDS),
   latch    |-> <<"written", "observed">>,
   request  |-> <<"asked", "answered", "answer">>,
   ordered  |-> <<"acquired", "acquired">>,
   ranges   |-> <<"wrote", "wrote">>,
   flock    |-> <<"rejected">>]

\* The values the semaphores start with.
SyncInit == /\ sem = [s \in {"gate", "ping", "pong", "ready", "request", "reply"} |->
                        IF s = "gate" THEN WORKERS ELSE IF s = "ping" THEN 1 ELSE 0]
            /\ held = [p \in Procs |-> {}]

-----------------------------------------------------------------------------
(* What the calls do.                                                      *)

Locals == <<fixed, status, faults, buf>>

\* sem_wait, sem_post, change: waits while the value would become negative.
SemStep(p) == /\ At(p, "sem")
              /\ sem[Call(p).on] + Call(p).delta >= 0
              /\ sem' = [sem EXCEPT ![Call(p).on] = @ + Call(p).delta]
              /\ Advance(p)
              /\ UNCHANGED <<Locals, log, held>>

\* wait_zero.
ZeroStep(p) == /\ At(p, "zero")
               /\ sem[Call(p).on] = 0
               /\ Advance(p)
               /\ UNCHANGED <<Locals, log, syncVars>>

\* Process q has locked some of the bytes b.
Conflict(p, q, b) == p # q /\ held[q] \cap b # {}

\* F_SETLKW: waits for every conflicting lock.  flock(LOCK_EX) likewise.
LockStep(p) == /\ At(p, "lock")
               /\ \A q \in Procs : ~Conflict(p, q, Call(p).bytes)
               /\ held' = [held EXCEPT ![p] = @ \cup Call(p).bytes]
               /\ Advance(p)
               /\ UNCHANGED <<Locals, log, sem>>

UnlockStep(p) == /\ At(p, "unlock")
                 /\ held' = [held EXCEPT ![p] = @ \ Call(p).bytes]
                 /\ Advance(p)
                 /\ UNCHANGED <<Locals, log, sem>>

\* flock(LOCK_EX | LOCK_NB) on a file opened anew, and what the child makes of it.
TryStep(p) == /\ At(p, "try")
              /\ log' = Append(log, IF \E q \in Procs : Conflict(p, q, Call(p).bytes)
                                      THEN "rejected" ELSE "taken")
              /\ Advance(p)
              /\ UNCHANGED <<Locals, syncVars>>

SyncStep(p) == SemStep(p) \/ ZeroStep(p) \/ LockStep(p) \/ UnlockStep(p) \/ TryStep(p)

\* Mutant of ReleaseLocks: the locks outlive the process.
ReleaseLocksNot(p) == UNCHANGED syncVars

\* The locks of process p go with it, its semaphore units do not come back.
ReleaseLocks(p) == held' = [held EXCEPT ![p] = {}] /\ UNCHANGED sem

\* Process p waits for a lock of process q.
WaitsFor(p, q) == At(p, "lock") /\ Conflict(p, q, Call(p).bytes)
=============================================================================
