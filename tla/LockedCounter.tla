--------------------------- MODULE LockedCounter ---------------------------
(***************************************************************************)
(* CounterProcs with a lock that has an owner:                             *)
(*  "fcntl"  SharedMemory/mmap_file_lock_counter.c, F_SETLKW record locks: *)
(*           owned by the process, released by the kernel when it dies;    *)
(*  "mutex"  SharedMemory/process_shared_mutex.c, a process-shared mutex   *)
(*           that is not robust: a dead owner keeps it;                    *)
(*  "ofd"    FileLocking/ofd_lock_counter.c, F_OFD_SETLKW: owned by the    *)
(*           open file description.  The program opens the file once,      *)
(*           before fork(), so that all children share one description.    *)
(* The kernel's part is external; it is modelled by whom a lock excludes.  *)
(***************************************************************************)
EXTENDS CounterProcs

CONSTANT Mechanisms      \* the programs considered

ASSUME MechanismAssumption == Mechanisms \subseteq {"fcntl", "mutex", "ofd"}

VARIABLES lock,          \* the owner of the lock, or Free
          mechanism      \* the program that runs

vars == <<procVars, lock, mechanism>>

Free == 0
Description == N + 1     \* the one open file description of ofd_lock_counter.c

\* On whose behalf child c locks.
Owner(c) == IF mechanism = "ofd" THEN Description ELSE c

Init == ProcInit /\ lock = Free /\ mechanism \in Mechanisms

\* Mutant of Acquire: F_SETLK with its failure ignored.
AcquireTry(c) == /\ pc[c] = "lock"
                 /\ lock' = IF lock = Free THEN Owner(c) ELSE lock
                 /\ pc' = [pc EXCEPT ![c] = "load"]
                 /\ UNCHANGED <<counter, reg, j, died, ppc, n, printed>>

\* lock_region(fd, F_WRLCK), ofd_lock(fd, F_WRLCK), pthread_mutex_lock: waits
\* while another owner has the lock.
Acquire(c) == /\ pc[c] = "lock"
              /\ lock \in {Free, Owner(c)}
              /\ lock' = Owner(c)
              /\ pc' = [pc EXCEPT ![c] = "load"]
              /\ UNCHANGED <<counter, reg, j, died, ppc, n, printed>>

\* The unlock, then the loop test.  Unlocking a range the owner does not hold
\* succeeds and does nothing.
Release(c) == /\ pc[c] = "unlock"
              /\ lock' = IF lock = Owner(c) THEN Free ELSE lock
              /\ pc' = [pc EXCEPT ![c] = ChildLoop(j[c])]
              /\ UNCHANGED <<counter, reg, j, died, ppc, n, printed>>

\* Mutant of Die: a record lock survives its process.
DieKeepsLock(c) == Killed(c) /\ UNCHANGED lock

\* The kernel drops a dead process's record locks; it does not unlock its mutex,
\* and an open file description lives on in the other processes.
Die(c) == /\ Killed(c)
          /\ lock' = IF mechanism = "fcntl" /\ lock = c THEN Free ELSE lock

Child(c) == /\ \/ Acquire(c) \/ Release(c)
               \/ (Load(c) \/ Store(c)) /\ UNCHANGED lock
            /\ UNCHANGED mechanism

Parent == /\ Fork \/ ForkDone \/ (\E c \in Children : Reap(c)) \/ Report
          /\ UNCHANGED <<lock, mechanism>>

Next == Parent \/ \E c \in Children : Child(c) \/ (Die(c) /\ UNCHANGED mechanism)

Spec == Init /\ [][Next]_vars

\* Every process that can run is scheduled; a kill is never due.  The blocking
\* lock calls need no more: a waiting child's rivals run out of iterations.
FairSpec == Spec /\ WF_vars(Parent) /\ \A c \in Children : WF_vars(Child(c))

-----------------------------------------------------------------------------
(* Properties.                                                             *)

\* The variables have their types.
TypeOK == /\ ProcTypeOK
          /\ lock \in {Free, Description} \cup Children
          /\ mechanism \in Mechanisms

\* Who is inside the critical section owns the lock: with fcntl and the mutex,
\* together with FreshRead, the inductive heart of mutual exclusion.
OwnerInside == \A c \in Children : pc[c] \in Critical => lock = Owner(c)

\* The inductive invariant behind the exclusive mechanisms.
CounterInv == /\ TypeOK /\ LoopInv /\ FinalWhenPrinted
              /\ mechanism # "ofd" => OwnerInside /\ FreshRead

\* The lock is left behind by a dead child.
Orphaned == lock \in died

\* The program ends unless a killed child takes the mutex into its grave; record
\* locks are never orphaned, so with them it always ends.
CompletesUnlessOrphaned == <>(ppc = "done" \/ (Orphaned /\ mechanism = "mutex"))

\* The mutex of process_shared_mutex.c is not robust: once its owner is dead,
\* nobody gets it again and the shared int never changes again.
OrphanedMutexBlocks ==
  [][mechanism = "mutex" /\ Orphaned
       => Orphaned' /\ counter' = counter /\ \A c \in Children : pc'[c] \notin Critical]_vars
=============================================================================
