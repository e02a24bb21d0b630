----------------------------- MODULE Supervisor -----------------------------
(***************************************************************************)
(* Signals/sigchld_supervisor.c: a supervisor starts a worker, learns of   *)
(* its end through SIGCHLD, whose handler writes a byte into a pipe that   *)
(* the main loop polls, reaps it and starts the next one.                  *)
(*                                                                         *)
(* The handler runs between any two steps of main() and inside a blocked   *)
(* poll().  poll() is never restarted by SA_RESTART: a handler that runs   *)
(* while it blocks makes it return -1 with EINTR, whatever the handler has *)
(* written.  Output goes through stdio: line by line on a terminal, into a *)
(* buffer that fork() copies and exit() flushes otherwise.                 *)
(***************************************************************************)
EXTENDS Integers, Sequences, FiniteSets

CONSTANTS RESTART_LIMIT, \* 2 in the program
          Tty,           \* is stdout a terminal?
          ForkCanFail,   \* may fork() return -1?
          SlowWorkers,   \* may a worker take longer than poll's 2000 ms?
          MaxStray       \* bound on the SIGCHLDs that other processes send

ASSUME SupervisorAssumption == /\ RESTART_LIMIT \in Nat \ {0}
                               /\ MaxStray \in Nat
                               /\ {Tty, ForkCanFail, SlowWorkers} \subseteq BOOLEAN

VARIABLES spc, attempt,  \* main()
          wpc, wbuf,     \* the current worker and its copy of the stdio buffer
          pending,       \* SIGCHLD is pending for the supervisor
          stray,         \* SIGCHLDs sent so far by other processes
          bytes,         \* unread bytes in signal_pipe
          buf, out       \* the supervisor's stdio buffer; lines written to stdout

vars == <<spc, attempt, wpc, wbuf, pending, stray, bytes, buf, out>>

Ended == {"done", "timedOut", "died"}

WorkerLine(k) == <<"worker", k>>
ReapedLine(k) == <<"reaped", k>>

Init == /\ spc = "start"
        /\ attempt = 0
        /\ wpc = "none"
        /\ wbuf = << >>
        /\ pending = FALSE
        /\ stray = 0
        /\ bytes = 0
        /\ buf = << >>
        /\ out = << >>

\* Mutant of Exit: _exit() instead of exit().
ExitUnflushed(state) == /\ spc' = state
                        /\ buf' = << >>
                        /\ UNCHANGED out

\* exit(): the buffer goes out.
Exit(state) == /\ spc' = state
               /\ out' = out \o buf
               /\ buf' = << >>

-----------------------------------------------------------------------------
(* The supervisor.                                                         *)

StartWorker == /\ spc = "start"
               /\ \/ /\ wpc' = "running"
                     /\ wbuf' = buf
                     /\ spc' = "poll"
                     /\ UNCHANGED <<buf, out>>
                  \/ /\ ForkCanFail
                     /\ Exit("died")
                     /\ UNCHANGED <<wpc, wbuf>>
               /\ UNCHANGED <<attempt, pending, bytes, stray>>

\* Mutant of OnSigchld: the handler forgets to write.
OnSigchldSilent == /\ pending
                   /\ spc \in {"start", "poll", "read", "waitpid", "exit"}
                   /\ pending' = FALSE
                   /\ UNCHANGED <<spc, attempt, wpc, wbuf, bytes, buf, out, stray>>

\* on_sigchld between two steps of main().
OnSigchld == /\ pending
             /\ spc \in {"start", "poll", "read", "waitpid", "exit"}
             /\ pending' = FALSE
             /\ bytes' = bytes + 1
             /\ UNCHANGED <<spc, attempt, wpc, wbuf, buf, out, stray>>

\* poll() returns at once if there is a byte and blocks otherwise.
Poll == /\ spc = "poll"
        /\ spc' = IF bytes > 0 THEN "read" ELSE "blocked"
        /\ UNCHANGED <<attempt, wpc, wbuf, pending, bytes, buf, out, stray>>

\* The signal arrives in the blocked poll(): the handler writes its byte, poll()
\* returns -1, and `<= 0' takes that for the timeout.
PollInterrupted == /\ spc = "blocked"
                   /\ pending
                   /\ pending' = FALSE
                   /\ bytes' = bytes + 1
                   /\ Exit("timedOut")
                   /\ UNCHANGED <<attempt, wpc, wbuf, stray>>

\* 2000 ms pass without a signal.
PollTimesOut == /\ spc = "blocked"
                /\ SlowWorkers
                /\ ~pending
                /\ Exit("timedOut")
                /\ UNCHANGED <<attempt, wpc, wbuf, pending, bytes, stray>>

\* read() into drain[8].
Read == /\ spc = "read"
        /\ bytes' = IF bytes > 8 THEN bytes - 8 ELSE 0
        /\ spc' = "waitpid"
        /\ UNCHANGED <<attempt, wpc, wbuf, pending, buf, out, stray>>

\* The restart budget and the loop test.
AfterReap(k) == IF k < RESTART_LIMIT THEN "start" ELSE "exit"

\* Mutant of Waitpid: the result of waitpid is not looked at.
WaitpidUnchecked == /\ spc = "waitpid"
                    /\ wpc' = IF wpc = "zombie" THEN "none" ELSE wpc
                    /\ attempt' = attempt + 1
                    /\ spc' = AfterReap(attempt + 1)
                    /\ out' = Append(out, ReapedLine(attempt))
                    /\ UNCHANGED <<wbuf, pending, bytes, buf, stray>>

\* waitpid(worker, WNOHANG), the report and the loop test.
Waitpid == /\ spc = "waitpid"
           /\ \/ /\ wpc = "zombie"
                 /\ wpc' = "none"
                 /\ attempt' = attempt + 1
                 /\ spc' = AfterReap(attempt + 1)
                 /\ out' = IF Tty THEN Append(out, ReapedLine(attempt)) ELSE out
                 /\ buf' = IF Tty THEN buf ELSE Append(buf, ReapedLine(attempt))
              \/ /\ wpc # "zombie"
                 /\ spc' = "poll"
                 /\ UNCHANGED <<wpc, attempt, out, buf>>
           /\ UNCHANGED <<wbuf, pending, bytes, stray>>

Return == /\ spc = "exit"
          /\ Exit("done")
          /\ UNCHANGED <<attempt, wpc, wbuf, pending, bytes, stray>>

Supervise == \/ StartWorker \/ OnSigchld \/ Poll \/ PollInterrupted
             \/ PollTimesOut \/ Read \/ Waitpid \/ Return

-----------------------------------------------------------------------------
(* The worker: printf, fflush, _exit.                                      *)

WorkerPrints == /\ wpc = "running"
                /\ out' = out \o Append(wbuf, WorkerLine(attempt))
                /\ wpc' = "printed"
                /\ UNCHANGED <<spc, attempt, wbuf, pending, bytes, buf, stray>>

WorkerExits == /\ wpc = "printed"
               /\ wpc' = "zombie"
               /\ pending' = TRUE
               /\ UNCHANGED <<spc, attempt, wbuf, bytes, buf, out, stray>>

Worker == WorkerPrints \/ WorkerExits

\* kill(supervisor, SIGCHLD) from elsewhere; it merges with a pending SIGCHLD.
StraySignal == /\ stray < MaxStray
               /\ spc \notin Ended
               /\ stray' = stray + 1
               /\ pending' = TRUE
               /\ UNCHANGED <<spc, attempt, wpc, wbuf, bytes, buf, out>>

Next == Supervise \/ Worker \/ StraySignal

Spec == Init /\ [][Next]_vars

-----------------------------------------------------------------------------
(* Properties.                                                             *)

\* The variables have their types; the pipe never holds more bytes than there were
\* signals.
TypeOK == /\ spc \in {"start", "poll", "blocked", "read", "waitpid", "exit"} \cup Ended
          /\ attempt \in 0 .. RESTART_LIMIT
          /\ wpc \in {"none", "running", "printed", "zombie"}
          /\ pending \in BOOLEAN
          /\ stray \in 0 .. MaxStray
          /\ bytes \in 0 .. attempt + 1 + stray

\* No wakeup is lost: whenever the supervisor is about to poll or blocks in it,
\* its worker is alive, or the signal is pending, or the byte is in the pipe.
WakeupNotLost == spc \in {"poll", "blocked"}
                   => wpc \in {"running", "printed"} \/ pending \/ bytes > 0

\* A new worker is started, and main() returns, only after the last one has been
\* reaped, also when a SIGCHLD came from elsewhere.
NoWorkerAbandoned == spc \in {"start", "exit", "done"} => wpc = "none"

\* Lines of `out' equal to l.
Occurrences(l) == {x \in DOMAIN out : out[x] = l}

\* The workers after the k-th whose line is out.
PrintedAfter(k) == {x \in k + 1 .. RESTART_LIMIT : Occurrences(WorkerLine(x)) # {}}

\* No report is lost, however the supervisor ends: a worker that was reaped is
\* reported, and nobody else.  On a terminal the report comes once; otherwise it
\* stays in the buffer that every later worker inherits and flushes, and comes
\* once more for each of them.
ReportsAccounted ==
  spc \in Ended =>
    \A k \in 0 .. RESTART_LIMIT :
      Cardinality(Occurrences(ReapedLine(k))) =
        IF k >= attempt THEN 0
        ELSE IF Tty THEN 1 ELSE 1 + Cardinality(PrintedAfter(k))

\* The message `poll timed out waiting for SIGCHLD' is only printed when no
\* SIGCHLD has come from the worker.
TimeoutMeansNoSignal == spc = "timedOut" => wpc # "zombie"
=============================================================================
