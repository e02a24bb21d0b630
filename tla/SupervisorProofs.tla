-------------------------- MODULE SupervisorProofs --------------------------
(***************************************************************************)
(* The self-pipe of sigchld_supervisor.c loses no wakeup, for any restart  *)
(* limit and any number of stray signals.  The strengthening follows the   *)
(* news of a dead worker: pending signal, byte in the pipe, or a           *)
(* supervisor that has just read it and is about to call waitpid.  Nor is  *)
(* a report lost, whichever way the supervisor ends: the copies of its     *)
(* line are counted through the buffers that fork() hands on.              *)
(***************************************************************************)
EXTENDS Supervisor, FiniteSetTheorems, TLAPS

\* One byte or pending signal per worker that ended and per stray signal, at most.
SignalsAccounted == bytes + (IF pending THEN 1 ELSE 0)
                      <= attempt + (IF wpc = "zombie" THEN 1 ELSE 0) + stray

\* The inductive invariant.
WakeupInv ==
  /\ TypeOK
  /\ SignalsAccounted
  /\ spc = "read" => bytes > 0
  /\ spc \in {"start", "poll", "blocked", "read", "waitpid"} => attempt < RESTART_LIMIT
  /\ spc \in {"poll", "blocked", "read", "waitpid"} => wpc # "none"
  /\ spc \in {"start", "exit", "done"} => wpc = "none"
  /\ wpc = "zombie" => pending \/ bytes > 0 \/ spc = "waitpid" \/ spc \in Ended

\* Every step of the supervisor, its handler, the worker and the environment
\* preserves it.
LEMMA WakeupStep == WakeupInv /\ [Next]_vars => WakeupInv'
<1> SUFFICES ASSUME WakeupInv, [Next]_vars PROVE WakeupInv'
  OBVIOUS
<1> USE SupervisorAssumption DEF WakeupInv, TypeOK, Ended, SignalsAccounted
<1>1. CASE StartWorker
  BY <1>1 DEF StartWorker, Exit
<1>2. CASE OnSigchld
  <2> USE <1>2 DEF OnSigchld
  <2>1. pending = TRUE /\ pending' = FALSE
    OBVIOUS
  <2>2. pending' \in BOOLEAN
    BY <2>1, Zenon
  <2>3. bytes + 1 <= attempt + (IF wpc = "zombie" THEN 1 ELSE 0) + stray
    BY <2>1
  <2>4. SignalsAccounted'
    BY <2>1, <2>3
  <2>5. TypeOK'
    BY <2>2, <2>3
  <2> QED
    BY <2>1, <2>4, <2>5
<1>3. CASE Poll
  BY <1>3 DEF Poll
<1>4. CASE PollInterrupted
  <2> USE <1>4 DEF PollInterrupted, Exit
  <2>1. pending = TRUE /\ pending' = FALSE
    OBVIOUS
  <2>2. pending' \in BOOLEAN
    BY <2>1, Zenon
  <2>3. bytes + 1 <= attempt + (IF wpc = "zombie" THEN 1 ELSE 0) + stray
    BY <2>1
  <2>4. SignalsAccounted'
    BY <2>1, <2>3
  <2>5. TypeOK'
    BY <2>2, <2>3
  <2> QED
    BY <2>1, <2>4, <2>5
<1>5. CASE PollTimesOut
  BY <1>5 DEF PollTimesOut, Exit
<1>6. CASE Read
  BY <1>6 DEF Read
<1>7. CASE Waitpid
  BY <1>7, SMTT(30) DEF Waitpid, AfterReap
<1>8. CASE Return
  BY <1>8 DEF Return, Exit
<1>9. CASE WorkerPrints
  BY <1>9 DEF WorkerPrints
<1>10. CASE WorkerExits
  BY <1>10 DEF WorkerExits
<1>11. CASE StraySignal
  BY <1>11 DEF StraySignal
<1>12. CASE UNCHANGED vars
  BY <1>12 DEF vars
<1> QED
  BY <1>1, <1>2, <1>3, <1>4, <1>5, <1>6, <1>7, <1>8, <1>9, <1>10, <1>11, <1>12
     DEF Next, Supervise, Worker

\* The invariant holds in every reachable state.
THEOREM WakeupInvariance == Spec => []WakeupInv
<1>1. Init => WakeupInv
  <2> SUFFICES ASSUME Init PROVE WakeupInv
    OBVIOUS
  <2> USE SupervisorAssumption DEF Init
  <2>1. TypeOK
    <3>1. pending \in BOOLEAN
      BY Zenon
    <3> QED
      BY <3>1 DEF TypeOK, Ended
  <2>2. SignalsAccounted
    BY DEF SignalsAccounted
  <2> QED
    BY <2>1, <2>2 DEF WakeupInv, Ended
<1> QED
  BY <1>1, WakeupStep, PTL DEF Spec

\* A supervisor that polls has a living worker, a pending signal or a byte to
\* read: no interleaving of handler, worker and stray signals loses the wakeup.
THEOREM SupervisorWakeupNotLost == Spec => []WakeupNotLost
<1>1. WakeupInv => WakeupNotLost
  BY DEF WakeupInv, TypeOK, WakeupNotLost, Ended
<1> QED
  BY <1>1, WakeupInvariance, PTL

\* No worker is abandoned unreaped by a supervisor that goes on or returns.
THEOREM SupervisorNoWorkerAbandoned == Spec => []NoWorkerAbandoned
<1>1. WakeupInv => NoWorkerAbandoned
  BY DEF WakeupInv, NoWorkerAbandoned
<1> QED
  BY <1>1, WakeupInvariance, PTL

-----------------------------------------------------------------------------
(* The reports.  Lines are counted in the three places they can be: written *)
(* to stdout, in the supervisor's buffer, in the copy the worker inherited. *)

Line == {"worker", "reaped"} \X (0 .. RESTART_LIMIT)

\* How often line l is in s.
Count(s, l) == Cardinality({x \in DOMAIN s : s[x] = l})

\* The line of worker k is out: it has been reaped, or it is the current worker
\* and has printed.
Printed(k) == k < attempt \/ (k = attempt /\ wpc \in {"printed", "zombie"})

\* What fork() copies: before it ends, a supervisor without a terminal has every
\* report in its buffer, once.
Buffered(s, k) == /\ Count(s, ReapedLine(k)) = IF ~Tty /\ k < attempt THEN 1 ELSE 0
                  /\ Count(s, WorkerLine(k)) = 0

\* The inductive invariant: every later worker that has printed has flushed one
\* copy of a report, the supervisor that has ended one more.
ReportInv ==
  /\ out \in Seq(Line) /\ buf \in Seq(Line) /\ wbuf \in Seq(Line)
  /\ \A k \in 0 .. RESTART_LIMIT :
       /\ spc \notin Ended => Buffered(buf, k)
       /\ wpc = "running" => Buffered(wbuf, k)
       /\ Occurrences(WorkerLine(k)) # {} <=> Printed(k)
       /\ Count(out, ReapedLine(k)) =
            IF k >= attempt THEN 0
            ELSE IF Tty THEN 1
            ELSE Cardinality(PrintedAfter(k)) + (IF spc \in Ended THEN 1 ELSE 0)

\* The positions of a line are finitely many; an empty sequence has none.
LEMMA CountBasics ==
  ASSUME NEW s \in Seq(Line), NEW l
  PROVE  /\ IsFiniteSet({x \in DOMAIN s : s[x] = l})
         /\ Count(s, l) \in Nat
         /\ Count(s, l) = 0 <=> {x \in DOMAIN s : s[x] = l} = {}
         /\ s = << >> => Count(s, l) = 0
<1> DEFINE P == {x \in DOMAIN s : s[x] = l}
<1>1. Len(s) \in Nat /\ DOMAIN s = 1 .. Len(s)
  OBVIOUS
<1>2. IsFiniteSet(1 .. Len(s))
  BY <1>1, FS_Interval
<1>3. IsFiniteSet(P)
  BY <1>1, <1>2, FS_Subset, P \subseteq 1 .. Len(s), ZenonT(40)
<1>4. Cardinality(P) \in Nat /\ (Cardinality(P) = 0 <=> P = {})
  BY <1>3, FS_CardinalityType, FS_EmptySet
<1>5. s = << >> => P = {}
  OBVIOUS
<1> QED BY <1>3, <1>4, <1>5 DEF Count

\* Writing the sequence t after s adds up the counts.
LEMMA CountConcat ==
  ASSUME NEW s \in Seq(Line), NEW t \in Seq(Line), NEW l
  PROVE  Count(s \o t, l) = Count(s, l) + Count(t, l)
<1> DEFINE n == Len(s)
           m == Len(t)
           P == {x \in DOMAIN s : s[x] = l}
           Q == {x \in DOMAIN t : t[x] = l}
           R == {x \in n + 1 .. n + m : t[x - n] = l}
<1>1. n \in Nat /\ m \in Nat /\ DOMAIN s = 1 .. n /\ DOMAIN t = 1 .. m
  OBVIOUS
<1>2. /\ s \o t \in Seq(Line) /\ DOMAIN (s \o t) = 1 .. n + m
      /\ \A x \in 1 .. n + m : (s \o t)[x] = IF x <= n THEN s[x] ELSE t[x - n]
  OBVIOUS
<1> HIDE DEF n, m
<1>3. {x \in DOMAIN (s \o t) : (s \o t)[x] = l} = P \cup R
  BY <1>1, <1>2
<1>4. P \cap R = {}
  BY <1>1
<1>5. IsFiniteSet(P) /\ IsFiniteSet(Q)
  BY CountBasics, ZenonT(40)
<1>6. IsFiniteSet(R) /\ Cardinality(R) = Cardinality(Q)
  <2> DEFINE f == [x \in Q |-> x + n]
  <2>1. f \in [Q -> R]
    BY <1>1
  <2>2. \A x, y \in Q : f[x] = f[y] => x = y
    BY <1>1
  <2>3. \A z \in R : \E x \in Q : f[x] = z
    <3> SUFFICES ASSUME NEW z \in R PROVE \E x \in Q : f[x] = z
      BY SMTT(30)
    <3>1. z - n \in Q /\ (z - n) + n = z
      BY <1>1
    <3> QED BY <3>1
  <2>4. f \in Bijection(Q, R)
    BY <2>1, <2>2, <2>3, ZenonT(40)
       DEF Bijection, Injection, Surjection, IsInjective
  <2>5. ExistsBijection(Q, R)
    BY <2>4, Zenon DEF ExistsBijection
  <2> HIDE DEF Q, R
  <2> QED BY <1>5, <2>5, FS_Bijection
<1>7. Cardinality(P \cup R) = Cardinality(P) + Cardinality(R) - Cardinality(P \cap R)
  BY <1>5, <1>6, FS_Union, ZenonT(40)
<1>8. Cardinality(P) \in Nat /\ Cardinality(Q) \in Nat /\ Cardinality(P \cap R) = 0
  BY <1>4, <1>5, FS_CardinalityType, FS_EmptySet, ZenonT(40)
<1>9. Cardinality(P \cup R) = Cardinality(P) + Cardinality(Q)
  BY <1>6, <1>7, <1>8
<1> QED BY <1>3, <1>9, ZenonT(40) DEF Count

\* printf adds one line.
LEMMA CountAppend ==
  ASSUME NEW s \in Seq(Line), NEW e \in Line, NEW l
  PROVE  /\ Append(s, e) \in Seq(Line)
         /\ Count(Append(s, e), l) = Count(s, l) + (IF e = l THEN 1 ELSE 0)
<1>1. <<e>> \in Seq(Line) /\ Append(s, e) = s \o <<e>> /\ Append(s, e) \in Seq(Line)
  OBVIOUS
<1> DEFINE Q == {x \in DOMAIN <<e>> : <<e>>[x] = l}
<1>2. Q = IF e = l THEN {1} ELSE {}
  OBVIOUS
<1>3. Cardinality(Q) = IF e = l THEN 1 ELSE 0
  BY <1>2, FS_EmptySet, FS_Singleton, ZenonT(40)
<1>4. Count(s \o <<e>>, l) = Count(s, l) + Count(<<e>>, l)
  BY <1>1, CountConcat, ZenonT(40)
<1> QED BY <1>1, <1>3, <1>4, ZenonT(40) DEF Count

\* The facts about lines and about the workers whose line is out that every case
\* below needs.
LEMMA LineFacts ==
  /\ \A k \in 0 .. RESTART_LIMIT : WorkerLine(k) \in Line /\ ReapedLine(k) \in Line
  /\ \A k, j \in 0 .. RESTART_LIMIT : /\ WorkerLine(k) # ReapedLine(j)
                                      /\ WorkerLine(k) = WorkerLine(j) => k = j
                                      /\ ReapedLine(k) = ReapedLine(j) => k = j
  BY DEF Line, WorkerLine, ReapedLine

\* What is out in terms of the invariant: worker lines by Printed.
LEMMA OutFacts ==
  ASSUME out \in Seq(Line), attempt \in 0 .. RESTART_LIMIT, NEW k \in 0 .. RESTART_LIMIT
  PROVE  /\ Cardinality(Occurrences(WorkerLine(k))) = Count(out, WorkerLine(k))
         /\ Occurrences(WorkerLine(k)) # {} <=> Count(out, WorkerLine(k)) # 0
         /\ Count(out, ReapedLine(k)) \in Nat /\ Count(out, WorkerLine(k)) \in Nat
         /\ IsFiniteSet(PrintedAfter(k)) /\ Cardinality(PrintedAfter(k)) \in Nat
<1>1. IsFiniteSet(k + 1 .. RESTART_LIMIT)
  BY SupervisorAssumption, FS_Interval
<1>2. IsFiniteSet(PrintedAfter(k))
  BY <1>1, FS_Subset, PrintedAfter(k) \subseteq k + 1 .. RESTART_LIMIT, ZenonT(40) DEF PrintedAfter
<1>3. Occurrences(WorkerLine(k)) = {x \in DOMAIN out : out[x] = WorkerLine(k)}
  BY DEF Occurrences
<1> QED BY <1>2, <1>3, CountBasics, FS_CardinalityType, ZenonT(40) DEF Count

\* Initially nothing has been written.
LEMMA ReportInvInit == Init => ReportInv
<1> SUFFICES ASSUME Init PROVE ReportInv
  OBVIOUS
<1>1. << >> \in Seq(Line)
  OBVIOUS
<1>2. \A l : Count(<< >>, l) = 0
  BY <1>1, CountBasics, ZenonT(40)
<1>3. \A l : Occurrences(l) = {}
  BY DEF Init, Occurrences
<1> QED BY <1>1, <1>2, <1>3, SupervisorAssumption DEF Init, ReportInv, Buffered, Printed, Ended

\* exit() moves the buffer to stdout: one more copy of every report, no worker line.
LEMMA ReportInvExit ==
  ASSUME TypeOK, ReportInv, spc \notin Ended, NEW e \in Ended, Exit(e),
         UNCHANGED <<attempt, wpc, wbuf>>
  PROVE  ReportInv'
<1>1. out' = out \o buf /\ buf' = << >> /\ spc' = e
  BY DEF Exit
<1>2. out' \in Seq(Line) /\ buf' \in Seq(Line) /\ wbuf' \in Seq(Line)
  BY <1>1 DEF ReportInv
<1>3. attempt \in 0 .. RESTART_LIMIT /\ attempt' = attempt
  BY DEF TypeOK
<1>4. ASSUME NEW k \in 0 .. RESTART_LIMIT
      PROVE  /\ Count(out', ReapedLine(k)) = Count(out, ReapedLine(k))
                                             + IF ~Tty /\ k < attempt THEN 1 ELSE 0
             /\ Count(out', WorkerLine(k)) = Count(out, WorkerLine(k))
             /\ Count(out, WorkerLine(k)) \in Nat /\ Count(out, ReapedLine(k)) \in Nat
  <2>1. /\ Count(out', ReapedLine(k)) = Count(out, ReapedLine(k)) + Count(buf, ReapedLine(k))
        /\ Count(out', WorkerLine(k)) = Count(out, WorkerLine(k)) + Count(buf, WorkerLine(k))
    BY <1>1, CountConcat DEF ReportInv
  <2>2. Count(out, WorkerLine(k)) \in Nat /\ Count(out, ReapedLine(k)) \in Nat
    BY CountBasics, ZenonT(40) DEF ReportInv
  <2>3. Buffered(buf, k)
    BY DEF ReportInv
  <2> QED BY <2>1, <2>2, <2>3 DEF Buffered
<1>5. \A k \in 0 .. RESTART_LIMIT :
        Occurrences(WorkerLine(k)) # {} <=> Count(out, WorkerLine(k)) # 0
  BY <1>3, OutFacts DEF ReportInv
<1>6. \A k \in 0 .. RESTART_LIMIT :
        Occurrences(WorkerLine(k))' # {} <=> Count(out', WorkerLine(k)) # 0
  BY <1>2, CountBasics, ZenonT(40) DEF Occurrences, Count
<1>7. \A k \in 0 .. RESTART_LIMIT :
        Occurrences(WorkerLine(k))' # {} <=> Occurrences(WorkerLine(k)) # {}
  BY <1>4, <1>5, <1>6
<1>8. \A k \in 0 .. RESTART_LIMIT : PrintedAfter(k)' = PrintedAfter(k)
  BY <1>7 DEF PrintedAfter
<1>9. \A k \in 0 .. RESTART_LIMIT : Cardinality(PrintedAfter(k)) \in Nat
  BY <1>3, OutFacts DEF ReportInv
<1>10. ASSUME NEW k \in 0 .. RESTART_LIMIT
       PROVE  Count(out', ReapedLine(k)) =
                IF k >= attempt' THEN 0
                ELSE IF Tty THEN 1
                ELSE Cardinality(PrintedAfter(k)') + (IF spc' \in Ended THEN 1 ELSE 0)
  <2>1. Count(out, ReapedLine(k)) = IF k >= attempt THEN 0
                                    ELSE IF Tty THEN 1 ELSE Cardinality(PrintedAfter(k)) + 0
    BY DEF ReportInv
  <2>2. Cardinality(PrintedAfter(k)') = Cardinality(PrintedAfter(k))
    BY <1>8
  <2> QED BY <1>1, <1>3, <1>4, <1>9, <2>1, <2>2
<1>11. ASSUME NEW k \in 0 .. RESTART_LIMIT
       PROVE  /\ Occurrences(WorkerLine(k))' # {} <=> Printed(k)'
              /\ wpc' = "running" => Buffered(wbuf, k)'
  BY <1>7 DEF ReportInv, Printed, Buffered
<1> QED BY <1>1, <1>2, <1>10, <1>11 DEF ReportInv

\* A step that writes nothing, keeps the attempt and moves neither the supervisor
\* nor the worker across what the invariant tells apart.
LEMMA ReportInvQuiet ==
  ASSUME ReportInv, UNCHANGED <<attempt, buf, wbuf, out>>,
         spc' \in Ended <=> spc \in Ended,
         wpc' = wpc \/ (wpc = "printed" /\ wpc' = "zombie")
  PROVE  ReportInv'
<1>1. \A k \in 0 .. RESTART_LIMIT :
        /\ Occurrences(WorkerLine(k))' = Occurrences(WorkerLine(k))
        /\ PrintedAfter(k)' = PrintedAfter(k)
        /\ Printed(k)' <=> Printed(k)
        /\ Buffered(buf, k)' <=> Buffered(buf, k)
        /\ Buffered(wbuf, k)' <=> Buffered(wbuf, k)
  BY DEF Occurrences, PrintedAfter, Printed, Buffered
<1>2. wpc' = "running" => wpc = "running"
  OBVIOUS
<1>3. out' = out /\ buf' = buf /\ wbuf' = wbuf /\ attempt' = attempt
  OBVIOUS
<1> QED BY <1>1, <1>2, <1>3 DEF ReportInv

\* waitpid reaps the worker: its report goes out once, or joins the buffer once.
LEMMA ReportInvReap ==
  ASSUME TypeOK, ReportInv, Waitpid, wpc = "zombie", attempt < RESTART_LIMIT
  PROVE  ReportInv'
<1>1. /\ spc = "waitpid" /\ spc \notin Ended /\ wpc' = "none" /\ attempt' = attempt + 1
      /\ spc' = AfterReap(attempt + 1) /\ wbuf' = wbuf
      /\ out' = IF Tty THEN Append(out, ReapedLine(attempt)) ELSE out
      /\ buf' = IF Tty THEN buf ELSE Append(buf, ReapedLine(attempt))
  BY DEF Waitpid, Ended
<1>2. attempt \in 0 .. RESTART_LIMIT /\ RESTART_LIMIT \in Nat /\ spc' \notin Ended
  BY <1>1, SupervisorAssumption DEF TypeOK, AfterReap, Ended
<1>3. out \in Seq(Line) /\ buf \in Seq(Line) /\ wbuf \in Seq(Line) /\ ReapedLine(attempt) \in Line
  BY <1>2, LineFacts DEF ReportInv
<1>4. out' \in Seq(Line) /\ buf' \in Seq(Line) /\ wbuf' \in Seq(Line)
  BY <1>1, <1>3, CountAppend
<1>5. ASSUME NEW k \in 0 .. RESTART_LIMIT
      PROVE  /\ Count(out', WorkerLine(k)) = Count(out, WorkerLine(k))
             /\ Count(buf', WorkerLine(k)) = Count(buf, WorkerLine(k))
             /\ Count(out', ReapedLine(k)) = Count(out, ReapedLine(k))
                                             + IF Tty /\ k = attempt THEN 1 ELSE 0
             /\ Count(buf', ReapedLine(k)) = Count(buf, ReapedLine(k))
                                             + IF ~Tty /\ k = attempt THEN 1 ELSE 0
  <2>1. /\ Count(out, WorkerLine(k)) \in Nat /\ Count(buf, WorkerLine(k)) \in Nat
        /\ Count(out, ReapedLine(k)) \in Nat /\ Count(buf, ReapedLine(k)) \in Nat
    BY <1>3, CountBasics, ZenonT(40)
  <2>2. /\ ReapedLine(attempt) # WorkerLine(k)
        /\ ReapedLine(attempt) = ReapedLine(k) <=> k = attempt
    BY <1>2, LineFacts
  <2>3. CASE Tty
    BY <1>1, <1>3, <2>1, <2>2, <2>3, CountAppend
  <2>4. CASE ~Tty
    BY <1>1, <1>3, <2>1, <2>2, <2>4, CountAppend
  <2> QED BY <2>3, <2>4
<1>6. \A k \in 0 .. RESTART_LIMIT :
        /\ Occurrences(WorkerLine(k)) # {} <=> Count(out, WorkerLine(k)) # 0
        /\ Occurrences(WorkerLine(k))' # {} <=> Count(out', WorkerLine(k)) # 0
  BY <1>3, <1>4, CountBasics, ZenonT(40) DEF Occurrences, Count
<1>7. \A k \in 0 .. RESTART_LIMIT :
        Occurrences(WorkerLine(k))' # {} <=> Occurrences(WorkerLine(k)) # {}
  BY <1>5, <1>6
<1>8. \A k \in 0 .. RESTART_LIMIT : PrintedAfter(k)' = PrintedAfter(k)
  BY <1>7 DEF PrintedAfter
<1>9. ASSUME NEW k \in 0 .. RESTART_LIMIT
      PROVE  Buffered(buf, k)' /\ (Occurrences(WorkerLine(k))' # {} <=> Printed(k)')
  <2>1. Buffered(buf, k) /\ (Occurrences(WorkerLine(k)) # {} <=> Printed(k))
    BY <1>1 DEF ReportInv
  <2>2. Buffered(buf, k)'
    BY <1>1, <1>2, <1>5, <2>1 DEF Buffered
  <2>3. Printed(k)' <=> Printed(k)
    BY <1>1, <1>2 DEF Printed
  <2> QED BY <1>7, <2>1, <2>2, <2>3
<1>10. Cardinality(PrintedAfter(attempt)) = 0
  <2>1. \A x \in attempt + 1 .. RESTART_LIMIT : Occurrences(WorkerLine(x)) = {}
    BY <1>2 DEF ReportInv, Printed
  <2>2. PrintedAfter(attempt) = {}
    BY <2>1 DEF PrintedAfter
  <2> QED BY <2>2, FS_EmptySet
<1>11. ASSUME NEW k \in 0 .. RESTART_LIMIT
       PROVE  Count(out', ReapedLine(k)) =
                IF k >= attempt' THEN 0
                ELSE IF Tty THEN 1 ELSE Cardinality(PrintedAfter(k)') + 0
  <2>1. Count(out, ReapedLine(k)) = IF k >= attempt THEN 0
                                    ELSE IF Tty THEN 1 ELSE Cardinality(PrintedAfter(k)) + 0
    BY <1>1 DEF ReportInv
  <2>2. Cardinality(PrintedAfter(k)') = Cardinality(PrintedAfter(k))
    BY <1>8
  <2>3. Cardinality(PrintedAfter(k)) \in Nat
    BY <1>2, <1>3, OutFacts
  <2> QED BY <1>1, <1>2, <1>5, <1>10, <2>1, <2>2, <2>3
<1> QED BY <1>1, <1>2, <1>4, <1>9, <1>11 DEF ReportInv

\* A worker prints: its own line goes out, and before it one copy of every report
\* that was in the buffer it inherited.
LEMMA ReportInvPrints ==
  ASSUME TypeOK, ReportInv, WorkerPrints
  PROVE  ReportInv'
<1>1. /\ wpc = "running" /\ wpc' = "printed" /\ out' = out \o Append(wbuf, WorkerLine(attempt))
      /\ attempt' = attempt /\ spc' = spc /\ buf' = buf /\ wbuf' = wbuf
  BY DEF WorkerPrints
<1>2. attempt \in 0 .. RESTART_LIMIT /\ RESTART_LIMIT \in Nat
  BY SupervisorAssumption DEF TypeOK
<1>3. out \in Seq(Line) /\ buf \in Seq(Line) /\ wbuf \in Seq(Line) /\ WorkerLine(attempt) \in Line
  BY <1>2, LineFacts DEF ReportInv
<1>4. Append(wbuf, WorkerLine(attempt)) \in Seq(Line) /\ out' \in Seq(Line)
  BY <1>1, <1>3
<1>5. ASSUME NEW k \in 0 .. RESTART_LIMIT
      PROVE  /\ Count(out', WorkerLine(k)) = Count(out, WorkerLine(k))
                                             + IF k = attempt THEN 1 ELSE 0
             /\ Count(out', ReapedLine(k)) = Count(out, ReapedLine(k))
                                             + IF ~Tty /\ k < attempt THEN 1 ELSE 0
             /\ Count(out, WorkerLine(k)) \in Nat /\ Count(out, ReapedLine(k)) \in Nat
  <2>1. Count(out, WorkerLine(k)) \in Nat /\ Count(out, ReapedLine(k)) \in Nat
    BY <1>3, CountBasics, ZenonT(40)
  <2>2. /\ WorkerLine(attempt) # ReapedLine(k)
        /\ WorkerLine(attempt) = WorkerLine(k) <=> k = attempt
    BY <1>2, LineFacts
  <2>3. Buffered(wbuf, k)
    BY <1>1 DEF ReportInv
  <2>4. /\ Count(Append(wbuf, WorkerLine(attempt)), WorkerLine(k)) = IF k = attempt THEN 1 ELSE 0
        /\ Count(Append(wbuf, WorkerLine(attempt)), ReapedLine(k))
             = IF ~Tty /\ k < attempt THEN 1 ELSE 0
    BY <1>2, <1>3, <2>2, <2>3, CountAppend DEF Buffered
  <2>5. \A l : Count(out', l) = Count(out, l) + Count(Append(wbuf, WorkerLine(attempt)), l)
    <3> DEFINE t == Append(wbuf, WorkerLine(attempt))
    <3>1. t \in Seq(Line) /\ out' = out \o t
      BY <1>1, <1>4
    <3> HIDE DEF t
    <3>2. \A l : Count(out \o t, l) = Count(out, l) + Count(t, l)
      BY <1>3, <3>1, CountConcat
    <3>3. \A l : Count(out', l) = Count(out, l) + Count(t, l)
      BY <3>1, <3>2, Zenon
    <3> QED BY <3>3, Zenon DEF t
  <2> QED BY <2>1, <2>4, <2>5
<1>6. \A k \in 0 .. RESTART_LIMIT :
        /\ Occurrences(WorkerLine(k)) # {} <=> Count(out, WorkerLine(k)) # 0
        /\ Occurrences(WorkerLine(k))' # {} <=> Count(out', WorkerLine(k)) # 0
  BY <1>3, <1>4, CountBasics, ZenonT(40) DEF Occurrences, Count
<1>7. \A k \in 0 .. RESTART_LIMIT :
        Occurrences(WorkerLine(k))' # {} <=> k = attempt \/ Occurrences(WorkerLine(k)) # {}
  BY <1>2, <1>5, <1>6
<1>8. Occurrences(WorkerLine(attempt)) = {}
  BY <1>1, <1>2 DEF ReportInv, Printed
<1>9. ASSUME NEW k \in 0 .. RESTART_LIMIT, k < attempt
      PROVE  Cardinality(PrintedAfter(k)') = Cardinality(PrintedAfter(k)) + 1
  <2>1. PrintedAfter(k)' = PrintedAfter(k) \cup {attempt} /\ attempt \notin PrintedAfter(k)
    BY <1>2, <1>7, <1>8, <1>9 DEF PrintedAfter
  <2>2. IsFiniteSet(PrintedAfter(k))
    BY <1>2, <1>3, OutFacts
  <2> QED BY <2>1, <2>2, FS_AddElement, ZenonT(40)
<1>10. ASSUME NEW k \in 0 .. RESTART_LIMIT
       PROVE  Count(out', ReapedLine(k)) =
                IF k >= attempt' THEN 0
                ELSE IF Tty THEN 1
                ELSE Cardinality(PrintedAfter(k)') + (IF spc' \in Ended THEN 1 ELSE 0)
  <2>1. Count(out, ReapedLine(k)) = IF k >= attempt THEN 0
                                    ELSE IF Tty THEN 1
                                    ELSE Cardinality(PrintedAfter(k)) + (IF spc \in Ended THEN 1 ELSE 0)
    BY DEF ReportInv
  <2>2. Cardinality(PrintedAfter(k)) \in Nat
    BY <1>2, <1>3, OutFacts
  <2> QED BY <1>1, <1>2, <1>5, <1>9, <2>1, <2>2, SMTT(30)
<1>11. ASSUME NEW k \in 0 .. RESTART_LIMIT
       PROVE  /\ Occurrences(WorkerLine(k))' # {} <=> Printed(k)'
              /\ spc' \notin Ended => Buffered(buf, k)'
  BY <1>1, <1>2, <1>7, ZenonT(40) DEF ReportInv, Printed, Buffered
<1> QED BY <1>1, <1>3, <1>4, <1>10, <1>11 DEF ReportInv

\* fork() gives the worker a copy of the buffer.
LEMMA ReportInvFork ==
  ASSUME TypeOK, ReportInv, spc = "start", spc' = "poll", wpc = "none", wpc' = "running",
         wbuf' = buf, UNCHANGED <<attempt, buf, out>>
  PROVE  ReportInv'
<1>1. \A k \in 0 .. RESTART_LIMIT :
        /\ Occurrences(WorkerLine(k))' = Occurrences(WorkerLine(k))
        /\ PrintedAfter(k)' = PrintedAfter(k)
        /\ Printed(k)' <=> Printed(k)
        /\ Buffered(buf, k)' <=> Buffered(buf, k)
        /\ Buffered(wbuf, k)' <=> Buffered(buf, k)
  BY DEF Occurrences, PrintedAfter, Printed, Buffered
<1>2. spc \notin Ended /\ spc' \notin Ended
  BY DEF Ended
<1>3. out' = out /\ buf' = buf /\ wbuf' = buf /\ attempt' = attempt
  OBVIOUS
<1> QED BY <1>1, <1>2, <1>3 DEF ReportInv

\* Every step keeps the reports accounted for.
LEMMA ReportInvStep == WakeupInv /\ ReportInv /\ [Next]_vars => ReportInv'
<1> SUFFICES ASSUME WakeupInv, ReportInv, [Next]_vars PROVE ReportInv'
  OBVIOUS
<1>1. TypeOK
  BY DEF WakeupInv
<1>2. CASE StartWorker
  <2>1. CASE wpc' = "running" /\ wbuf' = buf /\ spc' = "poll" /\ UNCHANGED <<buf, out>>
    BY <1>1, <1>2, <2>1, ReportInvFork DEF StartWorker, WakeupInv
  <2>2. CASE Exit("died") /\ UNCHANGED <<wpc, wbuf>>
    BY <1>1, <1>2, <2>2, ReportInvExit DEF StartWorker, Ended
  <2> QED BY <1>2, <2>1, <2>2 DEF StartWorker
<1>3. CASE OnSigchld
  BY <1>3, ReportInvQuiet DEF OnSigchld
<1>4. CASE Poll
  BY <1>4, ReportInvQuiet DEF Poll, Ended
<1>5. CASE PollInterrupted
  BY <1>1, <1>5, ReportInvExit DEF PollInterrupted, Ended
<1>6. CASE PollTimesOut
  BY <1>1, <1>6, ReportInvExit DEF PollTimesOut, Ended
<1>7. CASE Read
  BY <1>7, ReportInvQuiet DEF Read, Ended
<1>8. CASE Waitpid
  <2>1. CASE wpc = "zombie"
    BY <1>1, <1>8, <2>1, ReportInvReap DEF WakeupInv, Waitpid
  <2>2. CASE wpc # "zombie"
    BY <1>8, <2>2, ReportInvQuiet DEF Waitpid, Ended
  <2> QED BY <2>1, <2>2
<1>9. CASE Return
  BY <1>1, <1>9, ReportInvExit DEF Return, Ended
<1>10. CASE WorkerPrints
  BY <1>1, <1>10, ReportInvPrints
<1>11. CASE WorkerExits
  BY <1>11, ReportInvQuiet DEF WorkerExits
<1>12. CASE StraySignal
  BY <1>12, ReportInvQuiet DEF StraySignal
<1>13. CASE UNCHANGED vars
  BY <1>13, ReportInvQuiet DEF vars
<1> QED BY <1>2, <1>3, <1>4, <1>5, <1>6, <1>7, <1>8, <1>9, <1>10, <1>11, <1>12, <1>13
           DEF Next, Supervise, Worker

\* However the supervisor ends - by return, by the poll timeout or because a fork
\* failed - every worker it reaped is reported, on a terminal once and otherwise
\* once more for each later worker that printed, for any restart limit.
THEOREM SupervisorReportsAccounted == Spec => []ReportsAccounted
<1>1. TypeOK /\ ReportInv => ReportsAccounted
  <2> SUFFICES ASSUME TypeOK, ReportInv, spc \in Ended, NEW k \in 0 .. RESTART_LIMIT
               PROVE  Cardinality(Occurrences(ReapedLine(k))) =
                        IF k >= attempt THEN 0
                        ELSE IF Tty THEN 1 ELSE 1 + Cardinality(PrintedAfter(k))
    BY DEF ReportsAccounted
  <2>1. Cardinality(Occurrences(ReapedLine(k))) = Count(out, ReapedLine(k))
    BY DEF Occurrences, Count
  <2>2. Count(out, ReapedLine(k)) = IF k >= attempt THEN 0
                                    ELSE IF Tty THEN 1 ELSE Cardinality(PrintedAfter(k)) + 1
    BY DEF ReportInv
  <2>3. Cardinality(PrintedAfter(k)) \in Nat
    BY OutFacts DEF TypeOK, ReportInv
  <2> QED BY <2>1, <2>2, <2>3
<1>2. WakeupInv => TypeOK
  BY DEF WakeupInv
<1> QED BY <1>1, <1>2, WakeupInvariance, ReportInvInit, ReportInvStep, PTL DEF Spec

-----------------------------------------------------------------------------
(* The supervisor comes to an end.  Nothing here needs fairness: the steps  *)
(* run out, and while the supervisor has not ended there is one to make.    *)

\* The steps a program counter of main() stands for, until main() polls again or
\* starts the next worker ...
MainLeft == CASE spc = "start" -> 9
              [] spc = "poll" -> 2
              [] spc \in {"blocked", "read", "exit"} -> 1
              [] spc = "waitpid" -> 3
              [] OTHER -> 0

\* ... those a worker still causes, its SIGCHLD included ...
WorkerLeft == CASE wpc = "running" -> 6
                [] wpc = "printed" -> 5
                [] OTHER -> 0

\* ... and those a pending SIGCHLD causes: the handler, then poll, read and waitpid
\* for its byte.
PendingLeft == IF pending THEN 4 ELSE 0

\* An upper bound on the steps left: seven for each worker, five for each stray signal.
StepsLeft == 7 * (RESTART_LIMIT - attempt) + 5 * (MaxStray - stray)
               + 3 * bytes + PendingLeft + WorkerLeft + MainLeft

\* The bound when main() enters its loop.
LEMMA StepsAtStart == Init => StepsLeft = 7 * RESTART_LIMIT + 5 * MaxStray + 9
  BY SupervisorAssumption DEF Init, StepsLeft, PendingLeft, WorkerLeft, MainLeft

\* Every step of main(), of its handler, of a worker and every stray signal lowers the
\* bound: polling again for a signal that was not the worker's uses up that signal's
\* byte, so that the loop cannot go round for ever.
THEOREM SupervisorStepsRunOut ==
  Spec => [](StepsLeft \in Nat) /\ [][StepsLeft' < StepsLeft]_vars
<1>1. WakeupInv => /\ RESTART_LIMIT - attempt \in Nat /\ MaxStray - stray \in Nat
                   /\ bytes \in Nat /\ attempt \in Nat /\ stray \in Nat
  BY SupervisorAssumption DEF WakeupInv, TypeOK
<1>2. MainLeft \in 0 .. 9 /\ WorkerLeft \in 0 .. 6 /\ PendingLeft \in 0 .. 4
  BY DEF MainLeft, WorkerLeft, PendingLeft
<1>3. WakeupInv => StepsLeft \in Nat
  BY <1>1, <1>2 DEF StepsLeft
<1>4. WakeupInv /\ [Next]_vars => [StepsLeft' < StepsLeft]_vars
  <2> SUFFICES ASSUME WakeupInv, Next PROVE StepsLeft' < StepsLeft
    OBVIOUS
  <2> USE <1>1, <1>2, SupervisorAssumption DEF StepsLeft
  <2>1. CASE StartWorker
    <3>1. CASE wpc' = "running" /\ spc' = "poll"
      BY <2>1, <3>1 DEF StartWorker, MainLeft, WorkerLeft, PendingLeft
    <3>2. CASE spc' = "died" /\ wpc' = wpc
      BY <2>1, <3>2 DEF StartWorker, MainLeft, WorkerLeft, PendingLeft
    <3> QED
      BY <2>1, <3>1, <3>2, ZenonT(40) DEF StartWorker, Exit
  <2>2. CASE OnSigchld
    <3>1. PendingLeft = 4 /\ PendingLeft' = 0
      BY <2>2 DEF OnSigchld, PendingLeft
    <3>2. bytes' = bytes + 1 /\ UNCHANGED <<attempt, stray, MainLeft, WorkerLeft>>
      BY <2>2 DEF OnSigchld, MainLeft, WorkerLeft
    <3> QED
      BY <3>1, <3>2
  <2>3. CASE PollInterrupted
    <3>1. PendingLeft = 4 /\ PendingLeft' = 0
      BY <2>3 DEF PollInterrupted, PendingLeft
    <3>2. /\ bytes' = bytes + 1 /\ UNCHANGED <<attempt, stray, WorkerLeft>>
          /\ MainLeft = 1 /\ MainLeft' = 0
      BY <2>3 DEF PollInterrupted, Exit, MainLeft, WorkerLeft
    <3> QED
      BY <3>1, <3>2
  <2>4. CASE Poll \/ PollTimesOut \/ Return
    <3>1. MainLeft' < MainLeft
      BY <2>4 DEF Poll, PollTimesOut, Return, Exit, MainLeft
    <3>2. UNCHANGED <<attempt, stray, bytes, WorkerLeft, PendingLeft>>
      BY <2>4 DEF Poll, PollTimesOut, Return, Exit, WorkerLeft, PendingLeft
    <3>3. MainLeft' \in 0 .. 9
      BY DEF MainLeft
    <3> QED
      BY <3>1, <3>2, <3>3
  <2>5. CASE Read
    <3>1. MainLeft = 1 /\ MainLeft' = 3
      BY <2>5 DEF Read, MainLeft
    <3>2. UNCHANGED <<attempt, stray, WorkerLeft, PendingLeft>>
      BY <2>5 DEF Read, WorkerLeft, PendingLeft
    <3>3. bytes' \in Nat /\ bytes' < bytes
      BY <2>5 DEF Read, WakeupInv
    <3> QED
      BY <3>1, <3>2, <3>3
  <2>6. CASE Waitpid
    <3>1. MainLeft = 3 /\ MainLeft' \in 0 .. 9 /\ UNCHANGED <<stray, bytes, PendingLeft>>
      BY <2>6 DEF Waitpid, MainLeft, PendingLeft
    <3>2. CASE wpc = "zombie"
      <4>1. attempt' = attempt + 1 /\ UNCHANGED WorkerLeft
        BY <2>6, <3>2 DEF Waitpid, WorkerLeft
      <4> QED
        BY <3>1, <4>1
    <3>3. CASE wpc # "zombie"
      <4>1. MainLeft' = 2 /\ UNCHANGED <<attempt, WorkerLeft>>
        BY <2>6, <3>3 DEF Waitpid, WorkerLeft, MainLeft
      <4> QED
        BY <3>1, <4>1
    <3> QED
      BY <3>2, <3>3
  <2>7. CASE WorkerPrints
    <3>1. WorkerLeft = 6 /\ WorkerLeft' = 5
      BY <2>7 DEF WorkerPrints, WorkerLeft
    <3>2. UNCHANGED <<attempt, stray, bytes, MainLeft, PendingLeft>>
      BY <2>7 DEF WorkerPrints, MainLeft, PendingLeft
    <3> QED
      BY <3>1, <3>2
  <2>8. CASE WorkerExits
    <3>1. WorkerLeft = 5 /\ WorkerLeft' = 0 /\ PendingLeft' = 4
      BY <2>8 DEF WorkerExits, WorkerLeft, PendingLeft
    <3>2. UNCHANGED <<attempt, stray, bytes, MainLeft>>
      BY <2>8 DEF WorkerExits, MainLeft
    <3> QED
      BY <3>1, <3>2
  <2>9. CASE StraySignal
    <3>1. stray' = stray + 1 /\ PendingLeft' = 4
      BY <2>9 DEF StraySignal, PendingLeft
    <3>2. UNCHANGED <<attempt, bytes, MainLeft, WorkerLeft>>
      BY <2>9 DEF StraySignal, MainLeft, WorkerLeft
    <3> QED
      BY <3>1, <3>2
  <2> QED
    BY <2>1, <2>2, <2>3, <2>4, <2>5, <2>6, <2>7, <2>8, <2>9, Zenon DEF Next, Supervise, Worker
<1> QED
  BY <1>3, <1>4, WakeupInvariance, PTL DEF Spec

\* The conditions under which main() or the worker goes on.  Neither the timeout of
\* poll() nor a stray signal is counted on.
MainCanStep == \/ spc \in {"start", "poll", "read", "waitpid", "exit"}
               \/ spc = "blocked" /\ pending
WorkerCanStep == wpc \in {"running", "printed"}

\* poll() blocks only on an empty pipe, and the handler that would fill it ends the wait.
BlockedInv == spc = "blocked" => bytes = 0

\* The supervisor never hangs, even without the 2000 ms: a blocked poll() always has a
\* running worker or a pending SIGCHLD to wait for, whatever signals came before.
THEOREM SupervisorStopsOnlyAtEnd == Spec => [](MainCanStep \/ WorkerCanStep \/ spc \in Ended)
<1>1. Init => BlockedInv
  BY DEF Init, BlockedInv
<1>2. BlockedInv /\ WakeupInv /\ [Next]_vars => BlockedInv'
  <2>1. WakeupInv => bytes \in Nat
    BY SupervisorAssumption DEF WakeupInv, TypeOK
  <2> QED
    BY <2>1 DEF BlockedInv, Next, Supervise, StartWorker, OnSigchld, Poll, PollInterrupted,
           PollTimesOut, Read, Waitpid, AfterReap, Return, Exit, Worker, WorkerPrints, WorkerExits,
           StraySignal, vars
<1>3. WakeupInv /\ BlockedInv => MainCanStep \/ WorkerCanStep \/ spc \in Ended
  BY DEF WakeupInv, TypeOK, BlockedInv, MainCanStep, WorkerCanStep, Ended
<1> QED
  BY <1>1, <1>2, <1>3, WakeupInvariance, PTL DEF Spec
=============================================================================
