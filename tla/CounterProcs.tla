---------------------------- MODULE CounterProcs ----------------------------
(***************************************************************************)
(* What the four shared-counter programs have in common                    *)
(* (SharedMemory/mmap_file_lock_counter.c, process_shared_mutex.c,         *)
(* FileLocking/ofd_lock_counter.c, Semaphores/sysv_binary_semaphore_guard.c): *)
(* main() forks N children, each child adds DELTA to a shared int          *)
(* ITERATIONS times, main() reaps them all and prints the int.  What       *)
(* surrounds the addition - the lock - is in LockedCounter and SemGuard.   *)
(*                                                                         *)
(* `*counter += DELTA' is a load and a store: between them another process *)
(* may run.  A child may be killed at any point, MaxDeaths times in all.   *)
(***************************************************************************)
EXTENDS Integers, FiniteSets

CONSTANTS N,             \* children (4, or 3 in ofd_lock_counter.c)
          ITERATIONS,    \* additions per child (500 or 1000)
          DELTA,         \* what one addition adds (2 in process_shared_mutex.c)
          ForkCanFail,   \* may fork() return -1?
          MaxDeaths      \* bound on the children killed

ASSUME CounterAssumption == /\ N \in Nat /\ ITERATIONS \in Nat /\ MaxDeaths \in Nat
                            /\ DELTA \in Int \ {0}
                            /\ ForkCanFail \in BOOLEAN

VARIABLES counter,       \* the shared int
          pc, reg, j,    \* per child: where it is, the value loaded, additions made
          died,          \* the children that were killed
          ppc, n,        \* parent: where it is, children it has tried to fork
          printed        \* the number main() prints

procVars == <<counter, pc, reg, j, died, ppc, n, printed>>

Children == 1 .. N

Critical == {"load", "store", "unlock"}
ChildStates == {"unborn", "lock", "zombie", "reaped"} \cup Critical

\* Mutant of ChildLoop: one turn too few.
ChildLoopOneLess(k) == IF k + 1 < ITERATIONS THEN "lock" ELSE "zombie"

\* A child that leaves its loop calls _exit(0).
ChildLoop(k) == IF k < ITERATIONS THEN "lock" ELSE "zombie"

ProcInit == /\ counter = 0
            /\ pc = [c \in Children |-> "unborn"]
            /\ reg = [c \in Children |-> 0]
            /\ j = [c \in Children |-> 0]
            /\ died = {}
            /\ ppc = "fork"
            /\ n = 0
            /\ printed = 0

\* One turn of the fork loop; a failed fork() is not noticed.
Fork == /\ ppc = "fork"
        /\ n < N
        /\ n' = n + 1
        /\ \/ pc' = [pc EXCEPT ![n + 1] = ChildLoop(0)]
           \/ ForkCanFail /\ UNCHANGED pc
        /\ UNCHANGED <<counter, reg, j, died, ppc, printed>>

\* The fork loop is over: main() enters reap_all_children.
ForkDone == /\ ppc = "fork"
            /\ n = N
            /\ ppc' = "reap"
            /\ UNCHANGED <<counter, pc, reg, j, died, n, printed>>

\* One successful wait(NULL).
Reap(c) == /\ ppc = "reap"
           /\ pc[c] = "zombie"
           /\ pc' = [pc EXCEPT ![c] = "reaped"]
           /\ UNCHANGED <<counter, reg, j, died, ppc, n, printed>>

\* Mutant of Report: main() waits for all children but one.
ReportEarly == /\ ppc = "reap"
               /\ Cardinality({c \in Children : pc[c] \notin {"unborn", "reaped"}}) <= 1
               /\ printed' = counter
               /\ ppc' = "done"
               /\ UNCHANGED <<counter, pc, reg, j, died, n>>

\* wait() fails: no child is left.  main() prints the counter, removes the
\* object it lives in and returns.
Report == /\ ppc = "reap"
          /\ \A c \in Children : pc[c] \in {"unborn", "reaped"}
          /\ printed' = counter
          /\ ppc' = "done"
          /\ UNCHANGED <<counter, pc, reg, j, died, n>>

Load(c) == /\ pc[c] = "load"
           /\ reg' = [reg EXCEPT ![c] = counter]
           /\ pc' = [pc EXCEPT ![c] = "store"]
           /\ UNCHANGED <<counter, j, died, ppc, n, printed>>

\* The store; the child's loop variable, which only it reads, moves with it.
Store(c) == /\ pc[c] = "store"
            /\ counter' = reg[c] + DELTA
            /\ j' = [j EXCEPT ![c] = @ + 1]
            /\ pc' = [pc EXCEPT ![c] = "unlock"]
            /\ UNCHANGED <<reg, died, ppc, n, printed>>

\* A signal, or die_errno in a lock call, ends child c.
Killed(c) == /\ pc[c] \in {"lock"} \cup Critical
             /\ Cardinality(died) < MaxDeaths
             /\ died' = died \cup {c}
             /\ pc' = [pc EXCEPT ![c] = "zombie"]
             /\ UNCHANGED <<counter, reg, j, ppc, n, printed>>

-----------------------------------------------------------------------------
(* Properties.                                                             *)

\* The variables have the types the C declarations give them.
ProcTypeOK == /\ counter \in Int
              /\ pc \in [Children -> ChildStates]
              /\ reg \in [Children -> Int]
              /\ j \in [Children -> 0 .. ITERATIONS]
              /\ died \subseteq Children
              /\ ppc \in {"fork", "reap", "done"}
              /\ n \in 0 .. N
              /\ printed \in Int

\* A child in its loop has additions left to make; one that is not born has made
\* none, and none is born before the fork loop comes to it.
LoopInv == \A c \in Children : /\ pc[c] \in {"lock", "load", "store"} => j[c] < ITERATIONS
                               /\ pc[c] = "unborn" => j[c] = 0
                               /\ c > n => pc[c] = "unborn"

\* No two children are between taking and giving back the lock around the
\* addition.
MutualExclusion == \A c, d \in Children :
                     pc[c] \in Critical /\ pc[d] \in Critical => c = d

\* What a child is about to store is computed from the current counter: the
\* value it loaded has not gone stale.
FreshRead == \A c \in Children : pc[c] = "store" => reg[c] = counter

\* The additions made so far: child c's k-th one.
Additions == {a \in Children \X (1 .. ITERATIONS) : a[2] <= j[a[1]]}

\* No addition is lost or made twice, also when children are killed inside the
\* critical section: the counter is DELTA times the stores executed.
NoLostUpdate == counter = DELTA * Cardinality(Additions)

\* If every fork succeeded and nobody was killed, main() prints the number it
\* calls `expected' (4000, 4000, 1500 and 4000 in the four programs).
PrintsExpected == ppc = "done" /\ died = {} /\ (\A c \in Children : pc[c] # "unborn")
                    => printed = DELTA * ITERATIONS * N

\* The number is final when main() prints it: no child can still change it.
FinalWhenPrinted == ppc = "done" => printed = counter /\ \A c \in Children :
                                                            pc[c] \in {"unborn", "reaped"}

\* A step leaves the counter alone or adds exactly DELTA.
StepAddsDelta == [][counter' \in {counter, counter + DELTA}]_counter
=============================================================================
