------------------------------- MODULE Demos --------------------------------
(***************************************************************************)
(* The programs of Handshakes, Streams and Signals, one of them at a time, *)
(* with everything a fork shares and the end of a process gives up.        *)
(***************************************************************************)
EXTENDS Handshakes, Signals

CONSTANT Programs        \* the programs to look at

vars == <<procVars, syncVars, streamVars, sigVars>>

Scripts == SyncScripts @@ StreamScripts @@ SignalScripts
Order == SyncOrder @@ StreamOrder @@ SignalOrder

ASSUME ProgramAssumption == Programs \subseteq DOMAIN Scripts

Init == /\ program \in Programs
        /\ script = Scripts[program]
        /\ ProcInit /\ SyncInit /\ StreamInit /\ SignalInit

\* A fork shares every descriptor, and no fcntl lock.
ForkAll(p) == ForkStep(p) /\ Inherit(p, Call(p).child) /\ UNCHANGED <<syncVars, sigVars>>

\* The end of a process gives up its locks and its descriptors.
EndAll(p) == LastStep(p) /\ ReleaseLocks(p) /\ CloseAll(p) /\ UNCHANGED <<sockVars, sigVars>>

KillAll(c) == /\ program # "selfpipe"
              /\ Kill(c) /\ ReleaseLocks(c) /\ CloseAll(c)
              /\ UNCHANGED <<sockVars, sigVars>>

\* The next call of process p.
Step(p) == /\ p = Parent => ~Deliverable
           /\ \/ PlainStep(p) /\ UNCHANGED <<syncVars, streamVars, sigVars>>
              \/ ForkAll(p)
              \/ EndAll(p)
              \/ SyncStep(p) /\ UNCHANGED <<streamVars, sigVars>>
              \/ StreamStep(p) /\ UNCHANGED <<syncVars, sigVars>>
              \/ StreamEnd(p) /\ ReleaseLocks(p) /\ UNCHANGED sigVars
              \/ SigStep(p) /\ UNCHANGED syncVars

Deliver == (Handle \/ HandleWaiting \/ HandlePolling) /\ UNCHANGED syncVars

Next == \/ \E p \in Procs : Step(p)
        \/ Deliver
        \/ \E c \in Children : KillAll(c)

\* Every process runs on while it can, and signals are delivered; nobody has to be killed.
FairSpec == /\ Init /\ [][Next]_vars
            /\ \A p \in Procs : WF_vars(Step(p))
            /\ WF_vars(Deliver)

-----------------------------------------------------------------------------
(* What the programs promise.                                              *)

Finished == status[Parent] = "returned"
Over == status[Parent] \in {"returned", "died"}
ForkFailed == \E f \in faults : f[1] = "fork"

\* What a program prints without fflush(), when that is not all it does.
Late == [pingpong |-> {"ping"}, duplex |-> {"processed"}, request |-> {"answer"},
         masked |-> {"pending", "delivered"}]
IsLate(l) == ~tty /\ program \in DOMAIN Late /\ l \in Late[program]
Early(s) == SelectSeq(s, LAMBDA l : ~IsLate(l))
Rest(s) == SelectSeq(s, IsLate)
Expected == Early(Order[program]) \o Rest(Order[program])

\* Order: whatever the scheduling, the failed forks, the kills, the lost datagrams and
\* the timeouts, nothing happens before what should come first: nobody leaves the barrier
\* before the last one has reached it, pings and pongs alternate, no reply comes before
\* its request, the half-closed connection answers after end of file, the handler has
\* run when read() returns, realtime signals keep their order.  When stdout is not a
\* terminal that holds of what is flushed and of what is not, each by itself: the pings
\* of posix_named_sem_pingpong.c then all come after the pongs.
InOrder == IsPrefix(Early(log), Early(Order[program])) /\ IsPrefix(Rest(log), Rest(Order[program]))

\* No two processes wait for locks of each other: the children of
\* deadlock_avoidance_ordering.c lock byte 0 before byte 1.
NoLockCycle == \A p, q \in Procs : ~(WaitsFor(p, q) /\ WaitsFor(q, p))

\* Unless something goes wrong (a fork or an exec fails, a child is killed, a datagram is
\* lost, a timeout expires, a signal interrupts poll) the program ends having done everything.
\* No wakeup is lost between the test of a flag and the wait for its signal.
Completes == <>((Finished /\ log = Expected) \/ faults # {})

\* The calls at which the parent of a program can wait for ever.
StuckAt == [barrier |-> "reap", pingpong |-> "sem", request |-> "sem", suspend |-> "suspend",
            halfclose |-> "accept", abstract |-> "accept", forking |-> "accept",
            udp |-> "recv", eventfd |-> "read", restart |-> "read"]
Stuck == program \in DOMAIN StuckAt /\ At(Parent, StuckAt[program])

\* The programs that return as if nothing had happened when a child is killed.
Tolerant == program \in {"latch", "ordered", "ranges", "flock", "dgram"} /\ ~ForkFailed

\* Whatever goes wrong, the parent ends, or waits for ever at the one call StuckAt names
\* for its program: accept(), sigsuspend(), read(), sem_wait(), msgrcv() and wait() have no
\* timeout.  Programs whose children only take locks or messages survive the death of one.
Settles == <>[](IF Tolerant THEN Finished ELSE Over \/ Stuck)

\* When the parent is gone its children end: each sees end of file, SIGPIPE or its message,
\* as every process has closed the ends of the pipes that it does not use.
NoOrphanWaits == Over ~> \A c \in Children : status[c] # "running"

\* self_pipe_signal_reactor.c loses no signal and handles them in order: what the main
\* loop has printed and what is in the pipe are the signals its handler has seen, wherever
\* the handler ran.  So a reactor that dies when poll() is interrupted leaves the signal in
\* the pipe, unread.
SignalsKept == program = "selfpipe" =>
                 log \o (IF Over THEN << >> ELSE buf[Parent]) \o data["pipe"]
                   = SubSeq(Order["selfpipe"], 1, caught)

\* The programs that die when a fork fails: at once; in wait_for_pid, for there is no
\* child left for waitpid(-1); or when the message of the missing client times out.
DiesWithoutChild == {"duplex", "pipeline", "abstract", "dgram", "fdpass",
                     "latch", "ranges", "flock", "epoll"}

\* After a failed fork() a program dies as above, does the rest of its work (the
\* children that compete for the two locks; a connection without a worker), or waits for
\* ever, unless the other workers at the barrier are killed too.
AfterFailedFork ==
  <>[](ForkFailed => \/ program \in DiesWithoutChild /\ status[Parent] = "died"
                     \/ program = "ordered" /\ Finished
                     \/ program = "forking" /\ "missing" \notin {status[1], status[2]} /\ Finished
                     \/ program = "barrier" /\ \A c \in 1 .. WORKERS : status[c] # "running"
                     \/ program \in DOMAIN StuckAt \ {"abstract"} /\ Stuck)
=============================================================================
