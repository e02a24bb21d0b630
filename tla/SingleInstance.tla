--------------------------- MODULE SingleInstance ---------------------------
(***************************************************************************)
(* FileLocking/lockfile_single_instance.c, started several times: every    *)
(* instance opens or creates the lock file, tries a record lock on it, and *)
(* with the lock runs: it forks a child that plays a second instance,      *)
(* waits for it and removes the file.  An instance that does not get the   *)
(* lock dies.  Instances and children may be killed.                       *)
(*                                                                         *)
(* The file system and the record locks are external: the path names a     *)
(* file or nothing, a lock belongs to a process and a file, and vanishes   *)
(* with the process.                                                       *)
(***************************************************************************)
EXTENDS Integers, FiniteSets

CONSTANTS P,             \* how many times the program is started
          ForkCanFail,   \* may fork() return -1?
          MaxKills       \* bound on the instances killed; if positive, any child may be

ASSUME InstanceAssumption == P \in Nat /\ MaxKills \in Nat /\ ForkCanFail \in BOOLEAN

VARIABLES path,          \* the file that LOCK_PATH names, or None
          created,       \* files created so far: 1 .. created
          holder,        \* per file: the process that has the lock, or None
          pc, fd,        \* per instance: where it is, the file it opened
          cpc, cfd,      \* the same for its child
          unlinked       \* the files that LOCK_PATH named and that were removed

vars == <<path, created, holder, pc, fd, cpc, cfd, unlinked>>

None == 0
Instances == 1 .. P
Files == 1 .. P          \* an instance creates at most one
ChildOf(p) == -p         \* the child as a process

Active == {"fork", "wait", "unlink"}

Init == /\ path = None
        /\ created = 0
        /\ holder = [f \in Files |-> None]
        /\ pc = [p \in Instances |-> "open"]
        /\ fd = [p \in Instances |-> None]
        /\ cpc = [p \in Instances |-> "none"]
        /\ cfd = [p \in Instances |-> None]
        /\ unlinked = {}

\* The kernel drops the locks of a process that ends.
Released(proc) == [f \in Files |-> IF holder[f] = proc THEN None ELSE holder[f]]

\* Mutant of Open: O_EXCL, the file itself is the lock.
OpenExclusive(p) == /\ pc[p] = "open"
                    /\ IF path = None
                         THEN /\ created' = created + 1
                              /\ path' = created + 1
                              /\ fd' = [fd EXCEPT ![p] = created + 1]
                              /\ pc' = [pc EXCEPT ![p] = "lock"]
                         ELSE /\ fd' = [fd EXCEPT ![p] = path]
                              /\ pc' = [pc EXCEPT ![p] = "rejected"]
                              /\ UNCHANGED <<created, path>>
                    /\ UNCHANGED <<holder, cpc, cfd, unlinked>>

\* open(LOCK_PATH, O_CREAT | O_RDWR)
Open(p) == /\ pc[p] = "open"
           /\ IF path = None
                THEN /\ created' = created + 1
                     /\ path' = created + 1
                     /\ fd' = [fd EXCEPT ![p] = created + 1]
                ELSE /\ fd' = [fd EXCEPT ![p] = path]
                     /\ UNCHANGED <<created, path>>
           /\ pc' = [pc EXCEPT ![p] = "lock"]
           /\ UNCHANGED <<holder, cpc, cfd, unlinked>>

\* Mutant of TryLock: the result is not looked at.
TryLockUnchecked(p) == /\ pc[p] = "lock"
                       /\ pc' = [pc EXCEPT ![p] = "fork"]
                       /\ holder' = IF holder[fd[p]] = None
                                      THEN [holder EXCEPT ![fd[p]] = p] ELSE holder
                       /\ UNCHANGED <<path, created, fd, cpc, cfd, unlinked>>

\* try_lock(fd), then die_errno("initial lock") or on.
TryLock(p) == /\ pc[p] = "lock"
              /\ \/ /\ holder[fd[p]] = None
                    /\ holder' = [holder EXCEPT ![fd[p]] = p]
                    /\ pc' = [pc EXCEPT ![p] = "fork"]
                 \/ /\ holder[fd[p]] # None
                    /\ pc' = [pc EXCEPT ![p] = "rejected"]
                    /\ UNCHANGED holder
              /\ UNCHANGED <<path, created, fd, cpc, cfd, unlinked>>

\* The pid is written and the child forked; failure of fork() is not noticed.
Fork(p) == /\ pc[p] = "fork"
           /\ pc' = [pc EXCEPT ![p] = "wait"]
           /\ \/ cpc' = [cpc EXCEPT ![p] = "open"]
              \/ ForkCanFail /\ UNCHANGED cpc
           /\ UNCHANGED <<path, created, holder, fd, cfd, unlinked>>

\* Mutant of WaitForPid: every failure of waitpid is retried.
WaitForPidRetries(p) == /\ pc[p] = "wait"
                        /\ cpc[p] = "zombie"
                        /\ cpc' = [cpc EXCEPT ![p] = "reaped"]
                        /\ pc' = [pc EXCEPT ![p] = "unlink"]
                        /\ UNCHANGED <<path, created, holder, fd, cfd, unlinked>>

\* wait_for_pid(child); without a child it fails and the instance dies.
WaitForPid(p) == /\ pc[p] = "wait"
                 /\ \/ /\ cpc[p] = "zombie"
                       /\ cpc' = [cpc EXCEPT ![p] = "reaped"]
                       /\ pc' = [pc EXCEPT ![p] = "unlink"]
                       /\ UNCHANGED holder
                    \/ /\ cpc[p] = "none"
                       /\ pc' = [pc EXCEPT ![p] = "ended"]
                       /\ holder' = Released(p)
                       /\ UNCHANGED cpc
                 /\ UNCHANGED <<path, created, fd, cfd, unlinked>>

\* unlink(LOCK_PATH) removes whatever the path names now.
Unlink(p) == /\ pc[p] = "unlink"
             /\ path' = None
             /\ unlinked' = unlinked \cup ({path} \ {None})
             /\ pc' = [pc EXCEPT ![p] = "exit"]
             /\ UNCHANGED <<created, holder, fd, cpc, cfd>>

Return(p) == /\ pc[p] = "exit"
             /\ holder' = Released(p)
             /\ pc' = [pc EXCEPT ![p] = "ended"]
             /\ UNCHANGED <<path, created, fd, cpc, cfd, unlinked>>

\* The instance is killed; the file stays where it is.
Kill(p) == /\ pc[p] \in Active \cup {"lock", "exit"}
           /\ Cardinality({q \in Instances : pc[q] = "killed"}) < MaxKills
           /\ pc' = [pc EXCEPT ![p] = "killed"]
           /\ holder' = Released(p)
           /\ UNCHANGED <<path, created, fd, cpc, cfd, unlinked>>

-----------------------------------------------------------------------------
(* The child.                                                              *)

\* open(LOCK_PATH, O_RDWR), which may fail.
ChildOpen(p) == /\ cpc[p] = "open"
                /\ cfd' = [cfd EXCEPT ![p] = path]
                /\ cpc' = [cpc EXCEPT ![p] = "lock"]
                /\ UNCHANGED <<path, created, holder, pc, fd, unlinked>>

\* Mutant of ChildTryLock: the child inherits its parent's lock.
ChildTryLockInherits(p) ==
  /\ cpc[p] = "lock"
  /\ \/ /\ cfd[p] # None /\ holder[cfd[p]] \in {None, p}
        /\ holder' = [holder EXCEPT ![cfd[p]] = ChildOf(p)]
        /\ cpc' = [cpc EXCEPT ![p] = "acquired"]
     \/ /\ ~(cfd[p] # None /\ holder[cfd[p]] \in {None, p})
        /\ cpc' = [cpc EXCEPT ![p] = "zombie"]
        /\ UNCHANGED holder
  /\ UNCHANGED <<path, created, pc, fd, cfd, unlinked>>

\* try_lock(competing) fails on a lock of another process, its parent included,
\* and on the descriptor -1; the child reports that and exits.
ChildTryLock(p) == /\ cpc[p] = "lock"
                   /\ \/ /\ cfd[p] # None /\ holder[cfd[p]] = None
                         /\ holder' = [holder EXCEPT ![cfd[p]] = ChildOf(p)]
                         /\ cpc' = [cpc EXCEPT ![p] = "acquired"]
                      \/ /\ ~(cfd[p] # None /\ holder[cfd[p]] = None)
                         /\ cpc' = [cpc EXCEPT ![p] = "zombie"]
                         /\ UNCHANGED holder
                   /\ UNCHANGED <<path, created, pc, fd, cfd, unlinked>>

\* _exit(1) of a child that got the lock.
ChildExit(p) == /\ cpc[p] = "acquired"
                /\ holder' = Released(ChildOf(p))
                /\ cpc' = [cpc EXCEPT ![p] = "zombie"]
                /\ UNCHANGED <<path, created, pc, fd, cfd, unlinked>>

\* The child is killed.
KillChild(p) == /\ cpc[p] \in {"open", "lock", "acquired"}
                /\ MaxKills > 0
                /\ holder' = Released(ChildOf(p))
                /\ cpc' = [cpc EXCEPT ![p] = "zombie"]
                /\ UNCHANGED <<path, created, pc, fd, cfd, unlinked>>

Instance(p) == \/ Open(p) \/ TryLock(p) \/ Fork(p) \/ WaitForPid(p)
               \/ Unlink(p) \/ Return(p)
Child(p) == ChildOpen(p) \/ ChildTryLock(p) \/ ChildExit(p)

Next == \E p \in Instances : Instance(p) \/ Child(p) \/ Kill(p) \/ KillChild(p)

Spec == Init /\ [][Next]_vars

\* Started instances and their children are scheduled; nobody has to be killed.
FairSpec == Spec /\ \A p \in Instances : WF_vars(Instance(p)) /\ WF_vars(Child(p))

-----------------------------------------------------------------------------
(* Properties.                                                             *)

Running == {p \in Instances : pc[p] \in Active}

\* The variables have their types; past open() the descriptor is a file.
TypeOK == /\ path \in {None} \cup Files
          /\ created \in 0 .. P
          /\ holder \in [Files -> -P .. P]
          /\ pc \in [Instances -> Active \cup {"open", "lock", "exit", "rejected", "ended", "killed"}]
          /\ fd \in [Instances -> {None} \cup Files]
          /\ \A p \in Instances : pc[p] # "open" => fd[p] # None
          /\ cpc \in [Instances -> {"none", "open", "lock", "acquired", "zombie", "reaped"}]
          /\ cfd \in [Instances -> {None} \cup Files]
          /\ unlinked \in SUBSET Files

\* The instances that run at a time are at most one more than the lock files removed
\* so far, whatever is killed and whoever takes over: one until the first unlink(), and
\* each unlink() lets in one more.  An instance that had opened the file before
\* it was removed locks the nameless file, the next start creates and locks a new one.
OneMorePerRemoval == Cardinality(Running) <= 1 + Cardinality(unlinked)

\* The child that plays a second instance gets a lock only when its parent has been
\* killed, or when the very file its parent has locked was removed before the child
\* opened the path.
ChildRejected == \A p \in Instances :
                   cpc[p] = "acquired" => pc[p] = "killed" \/ fd[p] \in unlinked

\* A process that is alive has the lock on file f.
HeldByLiving(f) == \E q \in Instances : \/ fd[q] = f /\ pc[q] \in Active \cup {"exit"}
                                        \/ cfd[q] = f /\ cpc[q] = "acquired"

\* A start is turned away only by a process that is alive and has locked the file the
\* start has opened: the file that a killed instance leaves behind turns nobody away.
RejectedByLiving == [][\A p \in Instances :
                         pc[p] # "rejected" /\ pc'[p] = "rejected" => HeldByLiving(fd'[p])]_vars

\* Every start ends: no instance waits for another one.
AllEnd == <>(\A p \in Instances : pc[p] \in {"rejected", "ended", "killed"})
=============================================================================
