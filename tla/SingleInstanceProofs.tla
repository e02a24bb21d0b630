------------------------ MODULE SingleInstanceProofs ------------------------
(***************************************************************************)
(* Proofs about SingleInstance, for any number of starts and of kills.     *)
(* Whoever runs has the lock on the file it opened, so that no two run on  *)
(* one file; and of all files created only the one that the path names has *)
(* not been removed.                                                       *)
(***************************************************************************)
EXTENDS SingleInstance, FiniteSetTheorems, TLAPS

Opened == {p \in Instances : pc[p] # "open"}
Locking == Active \cup {"exit"}

\* Every file was created by an instance of its own.
CreatedInv == created <= Cardinality(Opened)

\* What is open was created, and what was created is removed or has the name.
FilesInv == /\ path <= created
            /\ \A p \in Instances : fd[p] <= created
            /\ \A f \in 1 .. created : f = path \/ f \in unlinked

\* A lock belongs to a process that is alive and has opened the file ...
LockInv == \A f \in Files : holder[f] # None =>
             \/ holder[f] > 0 /\ pc[holder[f]] \in Locking /\ fd[holder[f]] = f
             \/ holder[f] < 0 /\ cpc[-holder[f]] = "acquired" /\ cfd[-holder[f]] = f

\* ... and an instance past try_lock() has it.
HolderInv == \A p \in Instances : pc[p] \in Locking => holder[fd[p]] = p

\* An instance has a child only after its fork(), and outlives it unless killed.  A
\* child that has opened another file than its parent came after the removal.
FamilyInv == \A p \in Instances :
               /\ cpc[p] # "none" => pc[p] \notin {"open", "lock", "fork", "rejected"}
               /\ cpc[p] \in {"open", "lock", "acquired"} => pc[p] \in {"wait", "killed"}
               /\ cpc[p] \in {"lock", "acquired"} => cfd[p] = fd[p] \/ fd[p] \in unlinked

InstanceInv == /\ TypeOK /\ CreatedInv /\ FilesInv /\ LockInv /\ HolderInv
               /\ FamilyInv /\ ChildRejected

\* What the steps of an instance after its open() leave as it was.
LEMMA SameOpened ==
  ASSUME NEW p \in Instances, TypeOK, NEW v, v # "open", pc[p] # "open", pc' = [pc EXCEPT ![p] = v]
  PROVE  Opened' = Opened
BY DEF Opened, TypeOK

\* Instances are finitely many, so that there are at most P files.
LEMMA OpenedBound ==
  ASSUME NEW S \in SUBSET Instances
  PROVE  IsFiniteSet(S) /\ Cardinality(S) \in Nat /\ Cardinality(S) <= P
<1>1. IsFiniteSet(Instances) /\ Cardinality(Instances) = P
  BY FS_Interval, InstanceAssumption DEF Instances
<1>2. IsFiniteSet(S) /\ Cardinality(S) <= Cardinality(Instances)
  BY <1>1, FS_Subset
<1> QED BY <1>1, <1>2, FS_CardinalityType

-----------------------------------------------------------------------------
\* open() finds the file the path names or creates one.
LEMMA OpenStep ==
  ASSUME InstanceInv, NEW p \in Instances, Open(p)
  PROVE  InstanceInv'
<1> USE DEF InstanceInv
<1>0. /\ pc[p] = "open" /\ pc' = [pc EXCEPT ![p] = "lock"]
      /\ UNCHANGED <<holder, cpc, cfd, unlinked>>
  BY DEF Open
<1>1. Opened' = Opened \cup {p} /\ p \notin Opened
  BY <1>0 DEF Opened, TypeOK
<1>2. /\ Cardinality(Opened') = Cardinality(Opened) + 1 /\ Cardinality(Opened) \in Nat
      /\ Cardinality(Opened') <= P
  <2>1. Opened \in SUBSET Instances /\ Opened' \in SUBSET Instances
    BY DEF Opened
  <2>2. Cardinality(Opened') <= P /\ Cardinality(Opened) \in Nat /\ IsFiniteSet(Opened)
    BY <2>1, OpenedBound
  <2> QED BY <1>1, <2>2, FS_AddElement
<1>3. created + 1 <= Cardinality(Opened') /\ created \in Nat /\ P \in Nat
  BY <1>2, InstanceAssumption DEF CreatedInv, TypeOK
<1>4. \/ path = None /\ created' = created + 1 /\ path' = created + 1 /\ fd' = [fd EXCEPT ![p] = created + 1]
      \/ path # None /\ fd' = [fd EXCEPT ![p] = path] /\ UNCHANGED <<created, path>>
  BY DEF Open
<1>5. created' \in 0 .. P /\ created' <= Cardinality(Opened') /\ created <= created'
  BY <1>2, <1>3, <1>4 DEF TypeOK
<1>6. /\ path' \in Files /\ fd' \in [Instances -> {None} \cup Files] /\ fd'[p] = path' /\ path' # None
      /\ path' <= created' /\ \A q \in Instances \ {p} : fd'[q] = fd[q]
  <2>1. created + 1 \in Files /\ created + 1 # None
    BY <1>2, <1>3 DEF Files, None
  <2>2. path' \in Files /\ path' # None /\ fd' = [fd EXCEPT ![p] = path']
    BY <1>4, <2>1 DEF TypeOK
  <2>3. path' <= created'
    BY <1>3, <1>4 DEF FilesInv
  <2> QED BY <2>2, <2>3 DEF TypeOK
<1>7. TypeOK' /\ CreatedInv'
  BY <1>0, <1>5, <1>6, ZenonT(30) DEF TypeOK, CreatedInv, Active
<1>8. FilesInv'
  <2>1. \A q \in Instances : fd'[q] <= created'
    <3>1. \A q \in Instances : fd[q] <= created'
      BY <1>3, <1>4, SMTT(30) DEF FilesInv, TypeOK, Files, None
    <3> QED BY <1>6, <3>1
  <2>2. \A f \in 1 .. created' : f = path' \/ f \in unlinked'
    BY <1>0, <1>3, <1>4 DEF FilesInv, None
  <2> QED BY <1>6, <2>1, <2>2 DEF FilesInv
<1>9. LockInv' /\ HolderInv'
  <2>1. \A q \in Instances : pc[q] \in Locking => q # p
    BY <1>0 DEF Locking, Active
  <2>2. \A q \in Instances \ {p} : pc'[q] = pc[q] /\ fd'[q] = fd[q]
    BY <1>0, <1>6 DEF TypeOK
  <2>3. pc'[p] \notin Locking
    BY <1>0 DEF TypeOK, Locking, Active
  <2>4. HolderInv'
    BY <1>0, <2>2, <2>3 DEF HolderInv
  <2>5. \A f \in Files : holder[f] > 0 => holder[f] \in Instances
    BY InstanceAssumption DEF TypeOK, Instances
  <2>6. LockInv'
    BY <1>0, <2>1, <2>2, <2>5 DEF LockInv
  <2> QED BY <2>4, <2>6
<1>10. FamilyInv' /\ ChildRejected'
  BY <1>0, <1>6 DEF FamilyInv, ChildRejected, TypeOK
<1> QED BY <1>7, <1>8, <1>9, <1>10

\* fcntl(F_SETLK) takes the lock when nobody has it, or the instance is rejected.
LEMMA LockStep ==
  ASSUME InstanceInv, NEW p \in Instances, TryLock(p)
  PROVE  InstanceInv'
<1> USE DEF InstanceInv
<1>0. pc[p] = "lock" /\ UNCHANGED <<path, created, fd, cpc, cfd, unlinked>> /\ fd[p] \in Files /\ p \in -P .. P
  BY InstanceAssumption DEF TryLock, TypeOK, Instances
<1>1. FilesInv'
  BY <1>0 DEF FilesInv
<1>2. CASE /\ holder[fd[p]] = None /\ holder' = [holder EXCEPT ![fd[p]] = p]
           /\ pc' = [pc EXCEPT ![p] = "fork"]
  <2>1. TypeOK'
    BY <1>0, <1>2 DEF TypeOK, Active
  <2>2. CreatedInv'
    BY <1>0, <1>2, SameOpened, ZenonT(30) DEF CreatedInv
  <2>3. LockInv'
    BY <1>0, <1>2 DEF LockInv, TypeOK, Active, Locking, Instances
  <2>4. HolderInv'
    BY <1>0, <1>2 DEF HolderInv, TypeOK, Active, Locking, None, Instances
  <2>5. FamilyInv' /\ ChildRejected'
    BY <1>0, <1>2 DEF FamilyInv, ChildRejected, TypeOK
  <2> QED BY <1>1, <2>1, <2>2, <2>3, <2>4, <2>5
<1>3. CASE pc' = [pc EXCEPT ![p] = "rejected"] /\ UNCHANGED holder
  <2>1. TypeOK'
    BY <1>0, <1>3 DEF TypeOK, Active
  <2>2. CreatedInv'
    BY <1>0, <1>3, SameOpened, ZenonT(30) DEF CreatedInv
  <2>3. LockInv' /\ HolderInv'
    BY <1>0, <1>3 DEF LockInv, HolderInv, TypeOK, Active, Locking, Instances
  <2>4. FamilyInv' /\ ChildRejected'
    BY <1>0, <1>3 DEF FamilyInv, ChildRejected, TypeOK
  <2> QED BY <1>1, <2>1, <2>2, <2>3, <2>4
<1> QED BY <1>2, <1>3 DEF TryLock


\* A process that ends gives up its locks and nobody else's.
LEMMA ReleasedLocks ==
  ASSUME TypeOK, NEW proc
  PROVE  /\ Released(proc) \in [Files -> -P .. P]
         /\ \A f \in Files : Released(proc)[f] = IF holder[f] = proc THEN None ELSE holder[f]
BY InstanceAssumption DEF TypeOK, Released, None

\* An instance that leaves its active part by dying, returning or being killed.
LEMMA EndStep ==
  ASSUME InstanceInv, NEW p \in Instances, NEW v \in {"ended", "killed"},
         pc[p] # "open", pc' = [pc EXCEPT ![p] = v], holder' = Released(p),
         v = "ended" => cpc[p] \notin {"open", "lock", "acquired"},
         UNCHANGED <<path, created, fd, cpc, cfd, unlinked>>
  PROVE  InstanceInv'
<1> USE DEF InstanceInv
<1>1. /\ holder' \in [Files -> -P .. P]
      /\ \A f \in Files : holder'[f] = IF holder[f] = p THEN None ELSE holder[f]
  BY ReleasedLocks
<1>2. TypeOK'
  BY <1>1 DEF TypeOK, Active
<1>3. CreatedInv' /\ FilesInv'
  BY SameOpened, ZenonT(30) DEF CreatedInv, FilesInv
<1>4. LockInv'
  BY <1>1 DEF LockInv, TypeOK, Instances, None
<1>5. HolderInv'
  BY <1>1 DEF HolderInv, TypeOK, Active, Locking, Instances, None
<1>6. FamilyInv' /\ ChildRejected'
  BY DEF FamilyInv, ChildRejected, TypeOK
<1> QED BY <1>2, <1>3, <1>4, <1>5, <1>6

\* An instance that goes on with the lock it has.
LEMMA HoldStep ==
  ASSUME InstanceInv, NEW p \in Instances, NEW v \in Locking,
         pc[p] \in Locking, pc' = [pc EXCEPT ![p] = v],
         \A q \in Instances : cpc[q] = "acquired" => cpc'[q] = "acquired",
         UNCHANGED <<holder, fd, cfd>>
  PROVE  LockInv' /\ HolderInv'
<1>1. \A q \in Instances : pc[q] \in Locking <=> pc'[q] \in Locking
  BY DEF InstanceInv, TypeOK
<1>2. \A f \in Files : /\ holder[f] > 0 => holder[f] \in Instances
                       /\ holder[f] < 0 => -holder[f] \in Instances
  BY InstanceAssumption DEF InstanceInv, TypeOK, Instances
<1> QED BY <1>1, <1>2 DEF InstanceInv, LockInv, HolderInv

\* The other steps of an instance: it forks, waits, removes the file, returns, or is killed.
LEMMA RestStep ==
  ASSUME InstanceInv, NEW p \in Instances, Fork(p) \/ WaitForPid(p) \/ Unlink(p) \/ Return(p) \/ Kill(p)
  PROVE  InstanceInv'
<1> USE DEF InstanceInv
<1>1. CASE Fork(p)
  <2>0. /\ pc[p] = "fork" /\ pc' = [pc EXCEPT ![p] = "wait"] /\ cpc[p] = "none"
        /\ cpc' = [cpc EXCEPT ![p] = "open"] \/ UNCHANGED cpc
        /\ UNCHANGED <<path, created, holder, fd, cfd, unlinked>>
    BY <1>1 DEF Fork, FamilyInv
  <2>1. TypeOK'
    BY <2>0 DEF TypeOK, Active
  <2>2. CreatedInv' /\ FilesInv'
    BY <2>0, SameOpened, ZenonT(30) DEF CreatedInv, FilesInv
  <2>3. LockInv' /\ HolderInv'
    <3>1. \A q \in Instances : cpc[q] = "acquired" => cpc'[q] = "acquired"
      BY <2>0 DEF TypeOK
    <3> QED BY <2>0, <3>1, HoldStep DEF Locking, Active
  <2>4. FamilyInv' /\ ChildRejected'
    BY <2>0 DEF FamilyInv, ChildRejected, TypeOK
  <2> QED BY <2>1, <2>2, <2>3, <2>4
<1>2. CASE WaitForPid(p)
  <2>1. CASE cpc[p] = "none"
    BY <1>2, <2>1, EndStep DEF WaitForPid
  <2>2. CASE cpc[p] # "none"
    <3>0. /\ pc[p] = "wait" /\ pc' = [pc EXCEPT ![p] = "unlink"]
          /\ cpc[p] = "zombie" /\ cpc' = [cpc EXCEPT ![p] = "reaped"]
          /\ UNCHANGED <<path, created, holder, fd, cfd, unlinked>>
      BY <1>2, <2>2 DEF WaitForPid
    <3>1. TypeOK'
      BY <3>0 DEF TypeOK, Active
    <3>2. CreatedInv' /\ FilesInv'
      BY <3>0, SameOpened, ZenonT(30) DEF CreatedInv, FilesInv
    <3>3. LockInv' /\ HolderInv'
      <4>1. \A q \in Instances : cpc[q] = "acquired" => cpc'[q] = "acquired"
        BY <3>0 DEF TypeOK
      <4> QED BY <3>0, <4>1, HoldStep DEF Locking, Active
    <3>4. FamilyInv' /\ ChildRejected'
      BY <3>0 DEF FamilyInv, ChildRejected, TypeOK
    <3> QED BY <3>1, <3>2, <3>3, <3>4
  <2> QED BY <2>1, <2>2
<1>3. CASE Unlink(p)
  <2>0. /\ pc[p] = "unlink" /\ pc' = [pc EXCEPT ![p] = "exit"] /\ path' = None
        /\ unlinked' = unlinked \cup ({path} \ {None})
        /\ UNCHANGED <<created, holder, fd, cpc, cfd>>
    BY <1>3 DEF Unlink
  <2>1. TypeOK'
    BY <2>0 DEF TypeOK, Active
  <2>2. CreatedInv'
    BY <2>0, SameOpened, ZenonT(30) DEF CreatedInv
  <2>3. FilesInv'
    BY <2>0 DEF FilesInv, TypeOK, None
  <2>4. LockInv' /\ HolderInv'
    BY <2>0, HoldStep DEF Locking, Active
  <2>5. FamilyInv' /\ ChildRejected'
    BY <2>0 DEF FamilyInv, ChildRejected, TypeOK
  <2> QED BY <2>1, <2>2, <2>3, <2>4, <2>5
<1>4. CASE Return(p)
  BY <1>4, EndStep, ZenonT(30) DEF Return, FamilyInv
<1>5. CASE Kill(p)
  BY <1>5, EndStep, ZenonT(30) DEF Kill, Active
<1> QED BY <1>1, <1>2, <1>3, <1>4, <1>5

\* A child that exits or is killed gives up the lock it may have.
LEMMA ChildEnds ==
  ASSUME InstanceInv, NEW p \in Instances,
         cpc' = [cpc EXCEPT ![p] = "zombie"], cpc[p] \in {"open", "lock", "acquired"},
         \/ holder' = Released(ChildOf(p))
         \/ UNCHANGED holder /\ cpc[p] # "acquired",
         UNCHANGED <<path, created, pc, fd, cfd, unlinked>>
  PROVE  InstanceInv'
<1> USE DEF InstanceInv
<1>1. /\ holder' \in [Files -> -P .. P]
      /\ \A f \in Files : \/ holder'[f] = holder[f] /\ (holder[f] = ChildOf(p) => cpc[p] # "acquired")
                          \/ holder'[f] = None /\ holder[f] = ChildOf(p)
  <2>1. CASE holder' = Released(ChildOf(p))
    <3>1. /\ Released(ChildOf(p)) \in [Files -> -P .. P]
          /\ \A f \in Files : Released(ChildOf(p))[f] =
                              IF holder[f] = ChildOf(p) THEN None ELSE holder[f]
      BY ReleasedLocks
    <3> HIDE DEF InstanceInv
    <3> QED BY <2>1, <3>1
  <2>2. CASE UNCHANGED holder /\ cpc[p] # "acquired"
    BY <2>2 DEF TypeOK
  <2> QED BY <2>1, <2>2
<1>2. /\ ChildOf(p) = -p /\ \A q \in Instances : q # ChildOf(p)
      /\ \A f \in Files : holder[f] \in Int /\ (-holder[f] = p => holder[f] = -p)
  <2>1. ChildOf(p) = -p /\ \A q \in Instances : q # ChildOf(p)
    BY InstanceAssumption DEF ChildOf, Instances
  <2>2. \A f \in Files : holder[f] \in Int
    BY InstanceAssumption DEF TypeOK
  <2>3. p \in Int /\ \A k \in Int : -k = p => k = -p
    BY InstanceAssumption DEF Instances
  <2> QED BY <2>1, <2>2, <2>3
<1>3. TypeOK' /\ CreatedInv' /\ FilesInv'
  BY <1>1 DEF TypeOK, CreatedInv, FilesInv, Opened
<1>4. LockInv'
  <2> SUFFICES ASSUME NEW f \in Files, holder'[f] # None
               PROVE  \/ holder'[f] > 0 /\ pc'[holder'[f]] \in Locking /\ fd'[holder'[f]] = f
                      \/ holder'[f] < 0 /\ cpc'[-holder'[f]] = "acquired" /\ cfd'[-holder'[f]] = f
    BY DEF LockInv
  <2>1. holder'[f] = holder[f] /\ (holder[f] = ChildOf(p) => cpc[p] # "acquired")
    BY <1>1
  <2>2. CASE holder[f] > 0 /\ pc[holder[f]] \in Locking /\ fd[holder[f]] = f
    BY <2>1, <2>2
  <2>3. CASE holder[f] < 0 /\ cpc[-holder[f]] = "acquired" /\ cfd[-holder[f]] = f
    <3>1. -holder[f] # p
      BY <1>2, <2>1, <2>3
    <3>2. cpc'[-holder[f]] = cpc[-holder[f]]
      BY <3>1, <2>3, InstanceAssumption DEF TypeOK, Instances
    <3> QED BY <2>1, <2>3, <3>2
  <2> QED BY <2>1, <2>2, <2>3 DEF LockInv
<1>5. HolderInv'
  <2>1. \A q \in Instances : pc[q] \in Locking => fd[q] \in Files
    BY DEF TypeOK, Locking, Active
  <2> QED BY <1>1, <1>2, <2>1 DEF HolderInv
<1>6. FamilyInv' /\ ChildRejected'
  BY DEF FamilyInv, ChildRejected, TypeOK
<1> QED BY <1>3, <1>4, <1>5, <1>6

\* The child: it gets the lock only if its parent is gone or its parent's file was removed.
LEMMA ChildStep ==
  ASSUME InstanceInv, NEW p \in Instances, Child(p) \/ KillChild(p)
  PROVE  InstanceInv'
<1> USE DEF InstanceInv
<1>0. UNCHANGED <<path, created, pc, fd, unlinked>> /\ CreatedInv' /\ FilesInv'
  BY DEF Child, ChildOpen, ChildTryLock, ChildExit, KillChild, CreatedInv, Opened, FilesInv
<1>1. CASE ChildOpen(p)
  <2>0. /\ cpc[p] = "open" /\ cpc' = [cpc EXCEPT ![p] = "lock"]
        /\ cfd' = [cfd EXCEPT ![p] = path] /\ UNCHANGED holder
    BY <1>1 DEF ChildOpen
  <2>1. TypeOK'
    BY <1>0, <2>0 DEF TypeOK
  <2>2. LockInv' /\ HolderInv'
    BY <1>0, <2>0 DEF LockInv, HolderInv, TypeOK, Instances
  <2>3. path = fd[p] \/ fd[p] \in unlinked
    <3>1. pc[p] # "open" /\ fd[p] \in 1 .. P
      BY <2>0 DEF FamilyInv, TypeOK, Files, None
    <3>2. created \in Nat /\ fd[p] <= created
      BY DEF FilesInv, TypeOK
    <3> QED BY <3>1, <3>2 DEF FilesInv
  <2>4. FamilyInv' /\ ChildRejected'
    BY <1>0, <2>0, <2>3 DEF FamilyInv, ChildRejected, TypeOK
  <2> QED BY <1>0, <2>1, <2>2, <2>4
<1>2. CASE ChildTryLock(p)
  <2>0. cpc[p] = "lock" /\ UNCHANGED cfd /\ pc[p] \in {"wait", "killed"}
    BY <1>2 DEF ChildTryLock, FamilyInv
  <2>1. CASE /\ cfd[p] # None /\ holder[cfd[p]] = None
             /\ holder' = [holder EXCEPT ![cfd[p]] = ChildOf(p)]
             /\ cpc' = [cpc EXCEPT ![p] = "acquired"]
    <3>1. ChildOf(p) \in -P .. P /\ ChildOf(p) < 0 /\ -ChildOf(p) = p /\ cfd[p] \in Files
      BY <2>1, InstanceAssumption DEF ChildOf, Instances, TypeOK
    <3>2. TypeOK'
      BY <1>0, <2>0, <2>1, <3>1 DEF TypeOK
    <3>3. LockInv'
      BY <1>0, <2>0, <2>1, <3>1 DEF LockInv, TypeOK, Instances
    <3>4. HolderInv'
      BY <1>0, <2>1, <3>1 DEF HolderInv, TypeOK, Instances, None
    <3>5. pc[p] = "wait" => fd[p] \in unlinked
      BY <2>0, <2>1 DEF HolderInv, FamilyInv, Locking, Active, Instances, None
    <3>6. FamilyInv' /\ ChildRejected'
      BY <1>0, <2>0, <2>1, <3>5 DEF FamilyInv, ChildRejected, TypeOK
    <3> QED BY <1>0, <3>2, <3>3, <3>4, <3>6
  <2>2. CASE cpc' = [cpc EXCEPT ![p] = "zombie"] /\ UNCHANGED holder
    BY <1>0, <2>0, <2>2, ChildEnds
  <2> QED BY <1>2, <2>1, <2>2 DEF ChildTryLock
<1>3. CASE ChildExit(p)
  BY <1>3, ChildEnds DEF ChildExit
<1>4. CASE KillChild(p)
  BY <1>4, ChildEnds DEF KillChild
<1> QED BY <1>1, <1>2, <1>3, <1>4 DEF Child

\* Before the first start there is no file and no lock.
LEMMA InstanceInductive == Init => InstanceInv
<1> SUFFICES ASSUME Init PROVE InstanceInv
  OBVIOUS
<1>1. TypeOK
  BY InstanceAssumption DEF Init, TypeOK, None, Files
<1>2. CreatedInv
  <2>1. Cardinality(Opened) \in Nat
    BY OpenedBound DEF Opened
  <2> QED BY <2>1 DEF Init, CreatedInv
<1>3. FilesInv
  BY DEF Init, FilesInv, None
<1>4. LockInv /\ HolderInv /\ FamilyInv /\ ChildRejected
  BY DEF Init, LockInv, HolderInv, FamilyInv, ChildRejected, Active, Locking
<1> QED BY <1>1, <1>2, <1>3, <1>4 DEF InstanceInv

\* Every step of an instance, its child or a kill preserves the invariant.
LEMMA InstanceStep == InstanceInv /\ [Next]_vars => InstanceInv'
<1>1. InstanceInv /\ UNCHANGED vars => InstanceInv'
  BY DEF InstanceInv, TypeOK, CreatedInv, Opened, FilesInv, LockInv, HolderInv, FamilyInv,
         ChildRejected, vars
<1> QED BY <1>1, OpenStep, LockStep, RestStep, ChildStep DEF Next, Instance

-----------------------------------------------------------------------------
\* The variables keep their types: no instance locks a descriptor that open() did not give it.
THEOREM InstanceTypes == Spec => []TypeOK
<1>1. InstanceInv => TypeOK
  BY DEF InstanceInv
<1> QED BY <1>1, InstanceInductive, InstanceStep, PTL DEF Spec

\* However often the program is started and killed, a start that try_lock() turns away
\* meets a living process with the lock on its file: what a killed instance leaves in the
\* file system turns nobody away.
THEOREM RejectedOnlyByLiving == Spec => RejectedByLiving
<1> DEFINE Justified == \A p \in Instances :
                          pc[p] # "rejected" /\ pc'[p] = "rejected" => HeldByLiving(fd'[p])
<1>1. InstanceInv /\ [Next]_vars => [Justified]_vars
  <2> SUFFICES ASSUME InstanceInv, Next, NEW p \in Instances,
                      pc[p] # "rejected", pc'[p] = "rejected"
               PROVE  HeldByLiving(fd'[p])
    BY Zenon
  <2>1. pc \in [Instances -> Active \cup {"open", "lock", "exit", "rejected", "ended", "killed"}]
    BY DEF InstanceInv, TypeOK
  <2>2. TryLock(p) /\ holder[fd[p]] # None /\ fd' = fd
    BY <2>1 DEF Next, Instance, Open, TryLock, Fork, WaitForPid, Unlink, Return, Child,
                ChildOpen, ChildTryLock, ChildExit, Kill, KillChild
  <2>3. fd[p] \in Files /\ holder[fd[p]] \in -P .. P
    BY <2>2 DEF InstanceInv, TypeOK, TryLock
  <2>4. PICK f \in Files : f = fd[p]
    BY <2>3
  <2>5. CASE holder[f] > 0 /\ pc[holder[f]] \in Locking /\ fd[holder[f]] = f
    <3>1. holder[f] \in Instances
      BY <2>3, <2>4, <2>5, InstanceAssumption DEF Instances
    <3> QED BY <2>2, <2>4, <2>5, <3>1 DEF HeldByLiving, Locking
  <2>6. CASE holder[f] < 0 /\ cpc[-holder[f]] = "acquired" /\ cfd[-holder[f]] = f
    <3>1. -holder[f] \in Instances
      BY <2>3, <2>4, <2>6, InstanceAssumption DEF Instances
    <3> QED BY <2>2, <2>4, <2>6, <3>1 DEF HeldByLiving
  <2> QED BY <2>2, <2>4, <2>5, <2>6 DEF InstanceInv, LockInv
<1> QED BY <1>1, InstanceInductive, InstanceStep, PTL DEF Spec, RejectedByLiving

\* The competing child of main() gets a lock only once its parent was killed or its
\* parent's own lock file was removed.
THEOREM ChildGetsNoLock == Spec => []ChildRejected
<1>1. InstanceInv => ChildRejected
  BY DEF InstanceInv
<1> QED BY <1>1, InstanceInductive, InstanceStep, PTL DEF Spec

\* However often the program is started and killed, the instances past try_lock() are at
\* most one more than the lock files that unlink() has removed: each has locked a file of
\* its own, and only one file has the name.
THEOREM OneInstance == Spec => []OneMorePerRemoval
<1>1. InstanceInv => OneMorePerRemoval
  <2> SUFFICES ASSUME InstanceInv PROVE Cardinality(Running) <= 1 + Cardinality(unlinked)
    BY DEF OneMorePerRemoval
  <2> DEFINE file == [p \in Running |-> fd[p]]
             Candidates == unlinked \cup {path}
  <2>1. \A p \in Running : fd[p] \in Candidates /\ holder[fd[p]] = p
    <3> SUFFICES ASSUME NEW p \in Running PROVE fd[p] \in Candidates /\ holder[fd[p]] = p
      OBVIOUS
    <3>1. p \in Instances /\ pc[p] \in Locking /\ pc[p] # "open"
      BY DEF Running, Locking, Active
    <3>2. fd[p] \in 1 .. P /\ created \in Nat /\ fd[p] <= created
      BY <3>1 DEF InstanceInv, TypeOK, FilesInv, Files, None
    <3>3. fd[p] \in Candidates
      BY <3>2 DEF InstanceInv, FilesInv
    <3> QED BY <3>1, <3>3 DEF InstanceInv, HolderInv
  <2>2. file \in Injection(Running, Candidates)
    BY <2>1 DEF Injection, IsInjective
  <2>3. IsFiniteSet(unlinked) /\ Cardinality(unlinked) \in Nat
    <3>1. unlinked \in SUBSET Instances
      BY DEF InstanceInv, TypeOK, Files, Instances
    <3> QED BY <3>1, OpenedBound
  <2>4. /\ IsFiniteSet(Candidates) /\ Cardinality(Candidates) \in Nat
        /\ Cardinality(Candidates) <= 1 + Cardinality(unlinked)
    <3>1. /\ IsFiniteSet(Candidates)
          /\ Cardinality(Candidates) = IF path \in unlinked THEN Cardinality(unlinked)
                                                            ELSE Cardinality(unlinked) + 1
      BY <2>3, FS_AddElement
    <3> QED BY <2>3, <3>1
  <2>5. Cardinality(Running) <= Cardinality(Candidates) /\ IsFiniteSet(Running)
    BY <2>2, <2>4, FS_Injection
  <2>6. Cardinality(Running) \in Nat
    BY <2>5, FS_CardinalityType
  <2> HIDE DEF Candidates
  <2> QED BY <2>3, <2>4, <2>5, <2>6
<1> QED BY <1>1, InstanceInductive, InstanceStep, PTL DEF Spec

-----------------------------------------------------------------------------
(* Termination.  AllEnd needs fairness and is model-checked; what it rests  *)
(* on does not.                                                             *)

\* Steps an instance and its child still make; a killed instance makes none.
OwnLeft(p) == CASE pc[p] = "open" -> 6
                [] pc[p] = "lock" -> 5
                [] pc[p] = "fork" -> 4
                [] pc[p] = "wait" -> 3
                [] pc[p] = "unlink" -> 2
                [] pc[p] = "exit" -> 1
                [] OTHER -> 0
ChildLeft(p) == CASE cpc[p] \in {"none", "open"} -> 3
                  [] cpc[p] = "lock" -> 2
                  [] cpc[p] = "acquired" -> 1
                  [] OTHER -> 0

\* The steps left to all, as a set of (instance, step) pairs.
StepsToMake == {s \in Instances \X (1 .. 9) : s[2] <= OwnLeft(s[1]) + ChildLeft(s[1])}
StepsLeft == Cardinality(StepsToMake)

\* The work of one instance is between 0 and 9 steps.
LEMMA WorkBound == \A p \in Instances : OwnLeft(p) + ChildLeft(p) \in 0 .. 9
<1> SUFFICES ASSUME NEW p \in Instances PROVE OwnLeft(p) + ChildLeft(p) \in 0 .. 9
  OBVIOUS
<1>1. OwnLeft(p) \in 0 .. 6
  BY DEF OwnLeft
<1>2. ChildLeft(p) \in 0 .. 3
  BY DEF ChildLeft
<1> QED
  BY <1>1, <1>2

\* A step of one instance, of its child or its death lowers that instance's part and
\* leaves the others alone.
LEMMA WorkSteps ==
  ASSUME InstanceInv, NEW p \in Instances, Instance(p) \/ Child(p) \/ Kill(p) \/ KillChild(p)
  PROVE  /\ OwnLeft(p)' + ChildLeft(p)' < OwnLeft(p) + ChildLeft(p)
         /\ \A q \in Instances \ {p} : OwnLeft(q)' = OwnLeft(q) /\ ChildLeft(q)' = ChildLeft(q)
<1>1. /\ pc \in [Instances -> Active \cup {"open", "lock", "exit", "rejected", "ended", "killed"}]
      /\ cpc \in [Instances -> {"none", "open", "lock", "acquired", "zombie", "reaped"}]
      /\ pc[p] = "fork" => cpc[p] = "none"
  BY DEF InstanceInv, TypeOK, FamilyInv
<1>2. \A q \in Instances \ {p} : pc'[q] = pc[q] /\ cpc'[q] = cpc[q]
  BY <1>1 DEF Instance, Open, TryLock, Fork, WaitForPid, Unlink, Return, Child, ChildOpen,
              ChildTryLock, ChildExit, Kill, KillChild
<1>3. \A q \in Instances \ {p} : OwnLeft(q)' = OwnLeft(q) /\ ChildLeft(q)' = ChildLeft(q)
  BY <1>2 DEF OwnLeft, ChildLeft
<1> USE <1>1, <1>3 DEF OwnLeft, ChildLeft
<1>4. CASE Open(p) \/ TryLock(p) \/ Unlink(p) \/ Return(p)
  BY <1>4 DEF Open, TryLock, Unlink, Return
<1>5. CASE Fork(p)
  BY <1>5 DEF Fork
<1>6. CASE WaitForPid(p)
  BY <1>6 DEF WaitForPid
<1>7. CASE Child(p)
  BY <1>7 DEF Child, ChildOpen, ChildTryLock, ChildExit
<1>8. CASE Kill(p)
  BY <1>8 DEF Kill, Active
<1>9. CASE KillChild(p)
  BY <1>9 DEF KillChild
<1> HIDE DEF OwnLeft, ChildLeft
<1> QED
  BY <1>3, <1>4, <1>5, <1>6, <1>7, <1>8, <1>9, Zenon DEF Instance

\* P starts make at most nine steps each.
LEMMA NineEach == /\ IsFiniteSet(Instances \X (1 .. 9))
                  /\ Cardinality(Instances \X (1 .. 9)) = P * 9
<1>1. IsFiniteSet(Instances) /\ Cardinality(Instances) = P
  BY FS_Interval, InstanceAssumption DEF Instances
<1>2. IsFiniteSet(1 .. 9) /\ Cardinality(1 .. 9) = 9
  <2>1. \A k \in Nat : IsFiniteSet(1 .. k) /\ Cardinality(1 .. k) = k
    BY FS_Interval
  <2> QED
    BY <2>1, ZenonT(40)
<1> QED
  BY <1>1, <1>2, FS_Product, ZenonT(40)

\* So many are left at the start.
LEMMA StepsAtStart == Init => StepsLeft = P * 9
<1> SUFFICES ASSUME Init PROVE StepsLeft = P * 9
  OBVIOUS
<1>1. \A p \in Instances : OwnLeft(p) + ChildLeft(p) = 9
  BY DEF Init, OwnLeft, ChildLeft
<1>2. StepsToMake = Instances \X (1 .. 9)
  BY <1>1 DEF StepsToMake
<1> QED
  BY <1>2, NineEach DEF StepsLeft

\* Every step lowers the number of steps left, however many instances are started and
\* killed: the program contains no loop that waits for the lock.
THEOREM InstanceStepsRunOut == Spec => [](StepsLeft \in Nat) /\ [][StepsLeft' < StepsLeft]_vars
<1> DEFINE All == Instances \X (1 .. 9)
<1>1. IsFiniteSet(All)
  BY NineEach
<1>2. StepsToMake \in SUBSET All /\ IsFiniteSet(StepsToMake)
  BY <1>1, FS_Subset DEF StepsToMake
<1>3. StepsLeft \in Nat
  BY <1>2, FS_CardinalityType DEF StepsLeft
<1>4. InstanceInv /\ [Next]_vars => [StepsLeft' < StepsLeft]_vars
  <2> SUFFICES ASSUME InstanceInv, Next PROVE StepsLeft' < StepsLeft
    OBVIOUS
  <2>1. PICK p \in Instances : Instance(p) \/ Child(p) \/ Kill(p) \/ KillChild(p)
    BY DEF Next
  <2>2. \A q \in Instances : /\ OwnLeft(q)' + ChildLeft(q)' \in Nat
                             /\ OwnLeft(q) + ChildLeft(q) \in 0 .. 9
    <3>1. \A q \in Instances : OwnLeft(q)' \in 0 .. 6 /\ ChildLeft(q)' \in 0 .. 3
      BY DEF OwnLeft, ChildLeft
    <3> QED
      BY <3>1, WorkBound
  <2>3. /\ OwnLeft(p)' + ChildLeft(p)' < OwnLeft(p) + ChildLeft(p)
        /\ \A q \in Instances \ {p} : OwnLeft(q)' + ChildLeft(q)' = OwnLeft(q) + ChildLeft(q)
    BY <2>1, WorkSteps
  <2>4. StepsToMake' = {s \in All : s[2] <= OwnLeft(s[1])' + ChildLeft(s[1])'}
    BY DEF StepsToMake, Instances
  <2>5. StepsToMake' \in SUBSET StepsToMake
    <3> SUFFICES ASSUME NEW s \in All, s[2] <= OwnLeft(s[1])' + ChildLeft(s[1])'
                 PROVE  s[2] <= OwnLeft(s[1]) + ChildLeft(s[1])
      BY <2>4 DEF StepsToMake
    <3>1. s[1] \in Instances /\ s[2] \in Nat
      OBVIOUS
    <3> QED
      BY <2>2, <2>3, <3>1
  <2> DEFINE last == <<p, OwnLeft(p) + ChildLeft(p)>>
  <2>6. last \in StepsToMake /\ last \notin StepsToMake'
    <3>1. OwnLeft(p) + ChildLeft(p) \in 1 .. 9
      BY <2>2, <2>3
    <3>2. last \in All /\ last[1] = p /\ last[2] = OwnLeft(p) + ChildLeft(p)
      BY <3>1
    <3> QED
      BY <2>2, <2>3, <2>4, <3>1, <3>2 DEF StepsToMake
  <2>7. Cardinality(StepsToMake') <= Cardinality(StepsToMake)
        /\ Cardinality(StepsToMake') # Cardinality(StepsToMake)
        /\ Cardinality(StepsToMake') \in Nat
    BY <1>2, <2>5, <2>6, FS_Subset, FS_CardinalityType, ZenonT(40)
  <2> QED
    BY <1>3, <2>7 DEF StepsLeft
<1> QED
  BY <1>3, <1>4, InstanceInductive, InstanceStep, PTL DEF Spec

\* A reaped child's parent has gone on.
ReapedInv == \A p \in Instances : cpc[p] = "reaped" => pc[p] # "wait"

\* The conditions under which the next call of an instance, or of its child, returns.
InstanceCanStep(p) == \/ pc[p] \in {"open", "lock", "fork", "unlink", "exit"}
                      \/ pc[p] = "wait" /\ cpc[p] \in {"zombie", "none"}
ChildCanStep(p) == cpc[p] \in {"open", "lock", "acquired"}

\* No instance ever waits for another one: until it has ended, it or its own child can
\* go on, whatever the others do with the file, the lock and each other.
THEOREM NoInstanceWaits ==
  Spec => [](\A p \in Instances : \/ pc[p] \in {"rejected", "ended", "killed"}
                                  \/ InstanceCanStep(p) \/ ChildCanStep(p))
<1> DEFINE Free == \A p \in Instances : \/ pc[p] \in {"rejected", "ended", "killed"}
                                        \/ InstanceCanStep(p) \/ ChildCanStep(p)
<1>1. Init => ReapedInv
  BY DEF Init, ReapedInv
<1>2. InstanceInv /\ ReapedInv /\ [Next]_vars => ReapedInv'
  <2> SUFFICES ASSUME InstanceInv, ReapedInv, [Next]_vars PROVE ReapedInv'
    OBVIOUS
  <2>1. /\ pc \in [Instances -> Active \cup {"open", "lock", "exit", "rejected", "ended", "killed"}]
        /\ cpc \in [Instances -> {"none", "open", "lock", "acquired", "zombie", "reaped"}]
    BY DEF InstanceInv, TypeOK
  <2>2. \A p \in Instances : pc[p] \in {"open", "lock", "fork"} => cpc[p] = "none"
    BY DEF InstanceInv, FamilyInv
  <2>3. ASSUME NEW p \in Instances, Instance(p) PROVE ReapedInv'
    BY <2>1, <2>2, <2>3
       DEF Instance, Open, TryLock, Fork, WaitForPid, Unlink, Return, ReapedInv
  <2>4. ASSUME NEW p \in Instances, Child(p) \/ Kill(p) \/ KillChild(p) PROVE ReapedInv'
    BY <2>1, <2>4 DEF Child, ChildOpen, ChildTryLock, ChildExit, Kill, KillChild, ReapedInv
  <2>5. CASE UNCHANGED vars
    BY <2>5 DEF vars, ReapedInv
  <2> QED
    BY <2>3, <2>4, <2>5 DEF Next
<1>3. InstanceInv /\ ReapedInv => Free
  BY DEF InstanceInv, TypeOK, Active, ReapedInv, InstanceCanStep, ChildCanStep
<1> QED
  BY <1>1, <1>2, <1>3, InstanceInductive, InstanceStep, PTL DEF Spec
=============================================================================
