------------------------------ MODULE SemGuard ------------------------------
(***************************************************************************)
(* Semaphores/sysv_binary_semaphore_guard.c: CounterProcs with a System V  *)
(* semaphore of value 1 as the lock, every operation with SEM_UNDO.  The   *)
(* kernel keeps an adjustment per process and adds it when the process     *)
(* ends, however it ends.  The semaphore has no owner; that it behaves as  *)
(* one is the refinement of LockedCounter with record locks.               *)
(***************************************************************************)
EXTENDS CounterProcs

VARIABLES semval,        \* the semaphore's value
          semadj         \* per child: what the kernel adds when it ends

vars == <<procVars, semval, semadj>>

Init == /\ ProcInit
        /\ semval = 1
        /\ semadj = [c \in Children |-> 0]

\* Mutant of SemOp: the flag SEM_UNDO is left out.
SemOpNoUndo(c, op) == /\ semval + op >= 0
                      /\ semval' = semval + op
                      /\ UNCHANGED semadj

\* sem_op(semid, op): semop blocks while the value would become negative.
SemOp(c, op) == /\ semval + op >= 0
                /\ semval' = semval + op
                /\ semadj' = [semadj EXCEPT ![c] = @ - op]

SemWait(c) == /\ pc[c] = "lock"
              /\ SemOp(c, -1)
              /\ pc' = [pc EXCEPT ![c] = "load"]
              /\ UNCHANGED <<counter, reg, j, died, ppc, n, printed>>

\* sem_op(semid, 1), then the loop test.  A child leaving the loop exits with
\* nothing to undo.
SemPost(c) == /\ pc[c] = "unlock"
              /\ SemOp(c, 1)
              /\ pc' = [pc EXCEPT ![c] = ChildLoop(j[c])]
              /\ UNCHANGED <<counter, reg, j, died, ppc, n, printed>>

\* The kernel applies the adjustment of a killed child.
Die(c) == /\ Killed(c)
          /\ semval' = semval + semadj[c]
          /\ semadj' = [semadj EXCEPT ![c] = 0]

Child(c) == \/ SemWait(c) \/ SemPost(c)
            \/ (Load(c) \/ Store(c)) /\ UNCHANGED <<semval, semadj>>

Parent == (Fork \/ ForkDone \/ (\E c \in Children : Reap(c)) \/ Report)
            /\ UNCHANGED <<semval, semadj>>

Next == Parent \/ \E c \in Children : Child(c) \/ Die(c)

Spec == Init /\ [][Next]_vars

\* Every process that can run is scheduled, as in LockedCounter.
FairSpec == Spec /\ WF_vars(Parent) /\ \A c \in Children : WF_vars(Child(c))

-----------------------------------------------------------------------------
(* Properties.                                                             *)

\* The variables have their types; the adjustment never leaves 0 and 1.
TypeOK == /\ ProcTypeOK /\ LoopInv
          /\ semval \in {0, 1}
          /\ semadj \in [Children -> {0, 1}]

\* The semaphore's bookkeeping: a child's adjustment is 1 while it is in the
\* critical section and 0 otherwise, at most one child is there, and the value
\* is 0 exactly then - also after kills, so that a unit is never lost or gained.
SemaphoreAccounts ==
  /\ \A c \in Children : semadj[c] = IF pc[c] \in Critical THEN 1 ELSE 0
  /\ MutualExclusion
  /\ semval = IF \E c \in Children : pc[c] \in Critical THEN 0 ELSE 1

\* The owner the semaphore does not know it has.
Holder == IF \E c \in Children : semadj[c] = 1
            THEN CHOOSE c \in Children : semadj[c] = 1
            ELSE 0

Locked == INSTANCE LockedCounter WITH lock <- Holder, mechanism <- "fcntl",
                                      Mechanisms <- {"fcntl"}

\* The guarded program is the record-lock program, kills, fairness and all:
\* SEM_UNDO gives the semaphore back exactly when the kernel would have
\* released a record lock.
ImplementsLockedCounter == Locked!FairSpec
=============================================================================
