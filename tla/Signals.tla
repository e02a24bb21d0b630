------------------------------ MODULE Signals -------------------------------
(***************************************************************************)
(* Signals sent to the parent, and the programs made of them:              *)
(*   suspend    Signals/sigsuspend_wait.c                                  *)
(*   restart    Signals/sigaction_restart_demo.c                           *)
(*   masked     Signals/signal_mask_pending.c                              *)
(*   payload    Signals/sigqueue_payload.c                                 *)
(*   realtime   Signals/realtime_signal_order.c                            *)
(*   notify     MessageQueues/posix_mq_notify_signal.c                     *)
(*   selfpipe   Pipes/self_pipe_signal_reactor.c                           *)
(*   signalfd   AlternativeIO/signalfd_sigusr1.c                           *)
(* A signal that is not blocked is handled before the process makes its    *)
(* next call.  It interrupts the call the process is in, which then fails, *)
(* goes on waiting (a read, with SA_RESTART) or returns (pause).           *)
(***************************************************************************)
EXTENDS Streams

VARIABLES pending,       \* the signals sent to the parent and not handled, oldest first
          masked,        \* does the parent block them?
          caught         \* how many it has handled

sigVars == <<pending, masked, caught>>

Signal(v)   == [op |-> "signal", sig |-> v, queued |-> FALSE]
RtSignal(v) == [op |-> "signal", sig |-> v, queued |-> TRUE]
Mask(b)     == [op |-> "mask", to |-> b]
IfCaught(n, k) == [op |-> "test", count |-> n, to |-> k]
Pause       == [op |-> "pause"]
Suspend     == [op |-> "suspend"]
Alarm       == [op |-> "alarm"]
Pending     == [op |-> "pending"]
ReadSignal  == [op |-> "sigread"]

-----------------------------------------------------------------------------
(* The programs.  `while (!flag) pause();' is a test at k and a Pause.     *)

\* Mutant of SuspendParent: pause() on an open mask in place of sigsuspend.
SuspendParentPauses == <<Mask(TRUE), Fork(1), Mask(FALSE), IfCaught(1, 6), Pause, Printf("observed"), ReapAll>>
SuspendParent == <<Mask(TRUE), Fork(1), IfCaught(1, 5), Suspend, Printf("observed"), ReapAll>>
SuspendChild == <<Signal("usr1")>>

RestartParent == <<Fork(1), Read("pipe", "next", "stdio"), Wait(1)>>
RestartChild == <<Signal("usr1"), Write("pipe", "resumed")>>

MaskedMain == <<Mask(TRUE), Signal("usr1"), Pending, Mask(FALSE), Printf("delivered")>>
PayloadMain == <<Signal("4096"), IfCaught(1, 4), Pause, Printf("payload")>>
RealtimeMain == <<Mask(TRUE), RtSignal("100"), RtSignal("101"), RtSignal("102"), Mask(FALSE),
                  IfCaught(3, 8), Pause, Printf("values")>>
\* mq_send puts the message and, the queue having been empty, sends the signal.
NotifyMain == <<Write("pipe", "text"), Signal("usr1"), IfCaught(1, 5), Pause, Recv("pipe", "stdio")>>
SelfPipeMain == <<Signal("usr1"), Alarm>> \o Repeat(<<Poll("pipe"), Recv("pipe", "stdio")>>, 2)
Timer == <<Signal("alrm")>>
SignalfdMain == <<Mask(TRUE), Signal("usr1"), ReadSignal>>

SignalScripts ==
  [suspend  |-> Family(SuspendParent, <<SuspendChild>>),
   restart  |-> Family(RestartParent, <<RestartChild>>),
   masked   |-> Family(MaskedMain, << >>),
   payload  |-> Family(PayloadMain, << >>),
   realtime |-> Family(RealtimeMain, << >>),
   notify   |-> Family(NotifyMain, << >>),
   selfpipe |-> Family(SelfPipeMain, <<Timer>>),
   signalfd |-> Family(SignalfdMain, << >>)]

\* What each program is there to show, in this order.
SignalOrder ==
  [suspend  |-> <<"usr1", "observed">>,
   restart  |-> <<"usr1", "resumed">>,
   masked   |-> <<"pending", "usr1", "delivered">>,
   payload  |-> <<"4096", "payload">>,
   realtime |-> <<"100", "101", "102", "values">>,
   notify   |-> <<"usr1", "text">>,
   selfpipe |-> <<"usr1", "alrm">>,
   signalfd |-> <<"usr1">>]

SignalInit == pending = << >> /\ masked = FALSE /\ caught = 0

-----------------------------------------------------------------------------
(* What the calls do.                                                      *)

Same == <<fixed, status, faults, streamVars>>

\* kill, raise, sigqueue: a signal already pending is merged unless it is a realtime one.
Queue(v, queued) == IF queued \/ v \notin Range(pending) THEN Append(pending, v) ELSE pending

SignalStep(p) == /\ At(p, "signal")
                 /\ pending' = IF status[Parent] = "running"
                                 THEN Queue(Call(p).sig, Call(p).queued) ELSE pending
                 /\ Advance(p) /\ Quiet
                 /\ UNCHANGED <<Same, masked, caught>>

\* sigprocmask.
MaskStep(p) == /\ At(p, "mask")
               /\ masked' = Call(p).to
               /\ Advance(p) /\ Quiet
               /\ UNCHANGED <<Same, pending, caught>>

TestStep(p) == /\ At(p, "test")
               /\ Goto(p, IF caught >= Call(p).count THEN Call(p).to ELSE pc[p] + 1) /\ Quiet
               /\ UNCHANGED <<Same, sigVars>>

\* alarm(1) starts the timer.
AlarmStep(p) == /\ At(p, "alarm")
                /\ status' = [status EXCEPT ![1] = "running"]
                /\ Advance(p) /\ Quiet
                /\ UNCHANGED <<fixed, faults, streamVars, sigVars>>

\* sigpending, and what the program prints of it.
PendingStep(p) == /\ At(p, "pending")
                  /\ Buffered(p, <<IF pending = << >> THEN "none" ELSE "pending">>)
                  /\ Advance(p)
                  /\ UNCHANGED <<Same, sigVars>>

\* read from a signalfd takes the signal, no handler runs.
SigReadStep(p) == /\ At(p, "sigread") /\ pending # << >>
                  /\ Buffered(p, <<Head(pending)>>)
                  /\ pending' = Tail(pending)
                  /\ Advance(p)
                  /\ UNCHANGED <<Same, masked, caught>>

\* A signal is to be handled before the parent's next call.
Deliverable == /\ status[Parent] = "running" /\ pending # << >>
               /\ ~masked \/ At(Parent, "suspend")

Take == /\ pending' = Tail(pending)
        /\ caught' = caught + 1
        /\ UNCHANGED <<fixed, masked, sockVars>>

\* Mutant of signal_handler: one byte in the pipe stands for all signals.
signal_handlerOnce == /\ IF data["pipe"] = << >> THEN Put("pipe", Head(pending)) ELSE UNCHANGED chanVars
                      /\ Quiet

\* signal_handler writes the signal to the pipe, the other handlers note it.
signal_handler == Put("pipe", Head(pending)) /\ Quiet
Note == log' = Append(log, Head(pending)) /\ UNCHANGED <<buf, chanVars>>

\* The handler runs between two calls, or in a read, which is restarted.
Handle == /\ Deliverable /\ ~At(Parent, "suspend")
          /\ Take
          /\ IF program = "selfpipe" THEN signal_handler ELSE Note
          /\ UNCHANGED <<pc, status, faults>>

\* The handler runs in pause() or sigsuspend(), which returns to the test before it.
HandleWaiting == /\ Deliverable
                 /\ At(Parent, "pause") \/ At(Parent, "suspend")
                 /\ Take /\ Note
                 /\ Goto(Parent, pc[Parent] - 1)
                 /\ UNCHANGED <<status, faults>>

\* The handler runs in poll(), which SA_RESTART does not restart: it returns -1 although
\* the byte is in the pipe, the program takes that for its timeout, and dies.
HandlePolling == /\ Deliverable /\ At(Parent, "poll") /\ ~Ready(Chan(Parent))
                 /\ Take
                 /\ Insert("pipe", Head(pending))
                 /\ Fault("interrupted", Parent)
                 /\ Die(Parent) /\ CloseEnds(Parent)

SigStep(p) == \/ SignalStep(p) \/ MaskStep(p) \/ TestStep(p) \/ AlarmStep(p)
              \/ PendingStep(p) \/ SigReadStep(p)
=============================================================================
