----------------------------- MODULE Processes ------------------------------
(***************************************************************************)
(* What the small programs of the repository have in common: a parent that *)
(* forks children, waits for them and returns, and what it prints.         *)
(*                                                                         *)
(* A process is the list of calls it makes, one record each.  The modules  *)
(* Handshakes, Streams and Signals add the calls on semaphores and locks,  *)
(* on pipes and sockets, and on signals; Demos puts all of them together.  *)
(* What a process does that others can see goes into `log': at once for a  *)
(* Do, and for a Print when stdout is a terminal or the buffer is flushed. *)
(***************************************************************************)
EXTENDS Integers, FiniteSets, SequencesExt

CONSTANTS MaxChildren,   \* the most children a program has
          ForkCanFail,   \* may fork() return -1?
          MaxDeaths      \* bound on the children killed

ASSUME ProcessAssumption == /\ MaxChildren \in Nat /\ MaxDeaths \in Nat
                            /\ ForkCanFail \in BOOLEAN

VARIABLES program,       \* the program that runs
          script,        \* per process: the calls it makes
          tty,           \* is stdout a terminal?
          pc, status,    \* per process: its next call, and whether it exists
          faults,        \* what went wrong: a set of pairs of a kind and a process
          buf,           \* per process: what it has printed and not flushed
          log            \* what happened, in this order

fixed == <<program, script, tty>>
procVars == <<fixed, pc, status, faults, buf, log>>

Parent == 0
Children == 1 .. MaxChildren
Procs == {Parent} \cup Children

\* The scripts of a program with one parent and the given children.
Family(parent, children) == [p \in Procs |-> IF p = Parent THEN parent
                                             ELSE IF p <= Len(children) THEN children[p] ELSE << >>]
Repeat(s, n) == [k \in 1 .. n * Len(s) |-> s[((k - 1) % Len(s)) + 1]]

ProcInit == /\ tty \in BOOLEAN
            /\ pc = [p \in Procs |-> 1]
            /\ status = [p \in Procs |-> IF p = Parent THEN "running" ELSE "unborn"]
            /\ faults = {}
            /\ buf = [p \in Procs |-> << >>]
            /\ log = << >>

-----------------------------------------------------------------------------
(* The calls.                                                              *)

Do(label)    == [op |-> "do", label |-> label]
Printf(label) == [op |-> "print", label |-> label]
Fork(q)      == [op |-> "fork", child |-> q, checked |-> FALSE]
ForkOrDie(q) == [op |-> "fork", child |-> q, checked |-> TRUE]
Wait(q)      == [op |-> "wait", child |-> q]
Flush        == [op |-> "flush"]
ReapAll      == [op |-> "reap"]
Jump(k)      == [op |-> "jump", to |-> k]

Call(p) == script[p][pc[p]]

\* Process p exists and its next call is `op'.
At(p, op) == /\ status[p] = "running"
             /\ pc[p] <= Len(script[p])
             /\ Call(p).op = op

Goto(p, k) == pc' = [pc EXCEPT ![p] = k]
Advance(p) == Goto(p, pc[p] + 1)
Fault(kind, p) == faults' = faults \cup {<<kind, p>>}
Killed == {f[2] : f \in {g \in faults : g[1] = "killed"}}

\* Process p printed the labels s without flushing.
Buffered(p, s) == IF tty THEN log' = log \o s /\ UNCHANGED buf
                  ELSE buf' = [buf EXCEPT ![p] = @ \o s] /\ UNCHANGED log

-----------------------------------------------------------------------------
(* How processes end.  A parent that does not return from main() has died. *)

Ended(p) == status' = [status EXCEPT ![p] = IF p = Parent THEN "died" ELSE "zombie"]

\* die() and die_errno(): exit() writes out what is buffered.
Die(p) == /\ Ended(p)
          /\ log' = log \o buf[p]
          /\ UNCHANGED <<pc, buf>>

\* A signal ends the process: what is buffered is lost.
Shot(p) == Ended(p) /\ UNCHANGED <<pc, buf, log>>

\* The parent returns from main(), a child calls _exit(), which flushes nothing.
Exit(p) == /\ status[p] = "running"
           /\ pc[p] > Len(script[p])
           /\ status' = [status EXCEPT ![p] = IF p = Parent THEN "returned" ELSE "zombie"]
           /\ log' = IF p = Parent THEN log \o buf[p] ELSE log
           /\ UNCHANGED <<fixed, pc, faults, buf>>

Kill(c) == /\ status[c] = "running"
           /\ Cardinality(Killed) < MaxDeaths
           /\ Fault("killed", c)
           /\ Shot(c)
           /\ UNCHANGED fixed

-----------------------------------------------------------------------------
(* What the calls do.                                                      *)

DoStep(p) == /\ At(p, "do")
             /\ log' = Append(log, Call(p).label)
             /\ Advance(p)
             /\ UNCHANGED <<fixed, status, faults, buf>>

PrintStep(p) == /\ At(p, "print")
                /\ Buffered(p, <<Call(p).label>>)
                /\ Advance(p)
                /\ UNCHANGED <<fixed, status, faults>>

\* fflush(stdout).
FlushStep(p) == /\ At(p, "flush")
                /\ log' = log \o buf[p]
                /\ buf' = [buf EXCEPT ![p] = << >>]
                /\ Advance(p)
                /\ UNCHANGED <<fixed, status, faults>>

JumpStep(p) == /\ At(p, "jump")
               /\ Goto(p, Call(p).to)
               /\ UNCHANGED <<fixed, status, faults, buf, log>>

\* fork() returns in parent and child, which has a copy of the stdio buffer.
ForkStep(p) == /\ At(p, "fork")
               /\ status' = [status EXCEPT ![Call(p).child] = "running"]
               /\ buf' = [buf EXCEPT ![Call(p).child] = buf[p]]
               /\ Advance(p)
               /\ UNCHANGED <<fixed, faults, log>>

\* fork() fails and nobody looks.
ForkFails(p) == /\ At(p, "fork") /\ ~Call(p).checked
                /\ ForkCanFail
                /\ status' = [status EXCEPT ![Call(p).child] = "missing"]
                /\ Fault("fork", Call(p).child)
                /\ Advance(p)
                /\ UNCHANGED <<fixed, buf, log>>

\* fork() fails and the parent calls die_errno.
ForkDies(p) == /\ At(p, "fork") /\ Call(p).checked
               /\ ForkCanFail
               /\ Fault("fork", Call(p).child)
               /\ Die(p)
               /\ UNCHANGED fixed

\* The children a waitpid for q may return or wait for: after a failed fork() the
\* argument is -1, which stands for any child.
Awaited(q) == {c \in Children : /\ status[c] \in {"running", "zombie"}
                                /\ status[q] = "missing" \/ c = q}

WaitStep(p) == /\ At(p, "wait")
               /\ \E c \in Awaited(Call(p).child) :
                    /\ status[c] = "zombie"
                    /\ status' = [status EXCEPT ![c] = "reaped"]
               /\ Advance(p)
               /\ UNCHANGED <<fixed, faults, buf, log>>

\* Mutant of WaitDies: the failure of waitpid is ignored.
WaitDiesNot(p) == /\ At(p, "wait")
                  /\ Awaited(Call(p).child) = {}
                  /\ Advance(p)
                  /\ UNCHANGED <<fixed, status, faults, buf, log>>

\* waitpid fails without such a child, and wait_for_pid dies.
WaitDies(p) == /\ At(p, "wait")
               /\ Awaited(Call(p).child) = {}
               /\ Die(p)
               /\ UNCHANGED <<fixed, faults>>

\* reap_all_children: one wait(NULL) at a time, until there is no child left.
ReapStep(p) == /\ At(p, "reap")
               /\ \/ /\ \E c \in Children : /\ status[c] = "zombie"
                                            /\ status' = [status EXCEPT ![c] = "reaped"]
                     /\ UNCHANGED pc
                  \/ /\ \A c \in Children : status[c] \notin {"running", "zombie"}
                     /\ Advance(p)
                     /\ UNCHANGED status
               /\ UNCHANGED <<fixed, faults, buf, log>>

\* The calls after which everything but these variables is as before.
PlainStep(p) == \/ DoStep(p) \/ PrintStep(p) \/ FlushStep(p) \/ JumpStep(p)
                \/ ForkFails(p) \/ WaitStep(p) \/ ReapStep(p)

\* The calls that end their process.
LastStep(p) == Exit(p) \/ ForkDies(p) \/ WaitDies(p)
=============================================================================
