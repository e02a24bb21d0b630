------------------------------ MODULE Streams -------------------------------
(***************************************************************************)
(* Calls on pipes, sockets and queues, and the programs made of them:      *)
(*   duplex     Pipes/full_duplex_pipe_poll.c                              *)
(*   pipeline   Pipes/anonymous_pipeline_exec.c                            *)
(*   halfclose  InternetSockets/tcp_shutdown_halfclose.c                   *)
(*   forking    InternetSockets/tcp_forking_echo_server.c                  *)
(*   udp        InternetSockets/udp_connected_echo.c                       *)
(*   abstract   Sockets/abstract_namespace_ping.c                          *)
(*   epoll      Sockets/epoll_unix_echo.c                                  *)
(*   dgram      Sockets/unix_dgram_logger.c                                *)
(*   fdpass     Sockets/socketpair_fd_passing.c                            *)
(*   eventfd    AlternativeIO/eventfd_counter.c                            *)
(*   select     AlternativeIO/select_timeout_pipe.c                        *)
(*   many       AlternativeIO/poll_many_pipes.c                            *)
(*   edge       AlternativeIO/epoll_edge_triggered_pipe.c                  *)
(*   timed      MessageQueues/posix_mq_timed_receive.c                     *)
(* A channel is one direction of a pipe or socket: what is in it, and the  *)
(* processes that hold its two ends.  fork() shares the ends, the end of a *)
(* process closes them.  Messages are small and arrive whole.              *)
(***************************************************************************)
EXTENDS Processes

VARIABLES data,          \* per channel: the messages in it
          rd, wr,        \* per channel: who holds the end for reading, for writing
          backlog,       \* the clients connected and not accepted
          conn,          \* per process: the client whose connection it holds
          watched,       \* the clients the epoll set has
          events,        \* what epoll_wait returned and the loop has not handled
          replies        \* how many messages the epoll loop has read

chanVars == <<data, rd, wr>>
sockVars == <<backlog, conn, watched, events, replies>>
streamVars == <<chanVars, sockVars>>

Kernel == -1             \* holds the server's ends of a connection not yet accepted
Listener == 0            \* the listening socket, as an event
Up == <<"up1", "up2">>   \* from client 1 and 2
Down == <<"down1", "down2">>
Pipes == {"pipe", "reply", "third"}
Channels == Pipes \cup Range(Up) \cup Range(Down)

-----------------------------------------------------------------------------
(* The calls.                                                              *)

Write(c, m)    == [op |-> "write", on |-> c, msg |-> m]
TcpWrite(c, m) == [op |-> "tcpwrite", on |-> c, msg |-> m]
Send(c, m)     == [op |-> "send", on |-> c, msg |-> m]
\* Read what there is.  At end of file: "die", "exit" or go on to the "next" call.
\* What was read is "logged" or printed to "stdio".
Read(c, eof, out) == [op |-> "read", on |-> c, eof |-> eof, out |-> out]
Recv(c, out)   == [op |-> "recv", on |-> c, out |-> out]
Drain(c)       == [op |-> "drain", on |-> c]
CloseRead(c)   == [op |-> "close", on |-> c, end |-> "read"]
CloseWrite(c)  == [op |-> "close", on |-> c, end |-> "write"]
Poll(c)        == [op |-> "poll", on |-> c]
Connect        == [op |-> "connect"]
Accept         == [op |-> "accept"]
EpollLoop      == [op |-> "epoll"]
Exec           == [op |-> "exec"]

-----------------------------------------------------------------------------
(* The programs.                                                           *)

Requests == <<"inode", "cache", "journal">>
DuplexParent ==
  <<ForkOrDie(1), CloseRead("pipe"), CloseWrite("reply")>>
    \o FlattenSeq([k \in 1 .. 3 |-> <<Write("pipe", Requests[k]), Poll("reply"), Read("reply", "die", "stdio")>>])
    \o <<CloseWrite("pipe"), CloseRead("reply"), Wait(1)>>
\* Mutant of DuplexChild: it keeps the ends it does not use.
DuplexChildKeeps == <<Read("pipe", "exit", "logged"), Write("reply", "processed"), Jump(1)>>
DuplexChild == <<CloseWrite("pipe"), CloseRead("reply"),
                 Read("pipe", "exit", "logged"), Write("reply", "processed"), Jump(3)>>

PipelineParent == <<ForkOrDie(1), CloseRead("pipe"), Do("payload"), Write("pipe", "payload"),
                    CloseWrite("pipe"), Wait(1)>>
PipelineChild == <<CloseWrite("pipe"), Exec, Drain("pipe"), Do("upper")>>

HalfcloseParent == <<Fork(1), Accept, Drain("up1"), Do("eof"), TcpWrite("down1", "response"), Wait(1)>>
HalfcloseChild == <<Connect, TcpWrite("up1", "body"), CloseWrite("up1"), Read("down1", "next", "logged")>>

CloseAccepted == [op |-> "hangup"]
ForkingParent == <<Fork(1), Fork(2), Accept, Fork(3), CloseAccepted, Accept, Fork(4), CloseAccepted, ReapAll>>
connect_client(q) == <<Connect, TcpWrite(Up[q], "echo"), CloseWrite(Up[q])>>
ForkingWorker == <<Read("accepted", "next", "logged")>>

UdpMain == <<Send("pipe", "payload"), Recv("pipe", "logged"), Send("reply", "payload"), Recv("reply", "stdio")>>

AbstractParent == <<ForkOrDie(1), Accept, Read("up1", "next", "stdio"), Wait(1)>>
AbstractChild == <<Connect, Write("up1", "ping")>>

EpollParent == <<Fork(1), Fork(2), EpollLoop, ReapAll>>
EpollChild(q) == <<Connect, Write(Up[q], "echo")>>

Events == <<"event1", "event2", "event3">>
DgramParent == <<ForkOrDie(1)>> \o [k \in 1 .. 3 |-> Write("pipe", Events[k])] \o <<Wait(1)>>
DgramChild == Repeat(<<Recv("pipe", "stdio")>>, 3) \o <<Flush>>

FdpassParent == <<ForkOrDie(1), CloseRead("pipe"), Do("sent"), Write("pipe", "fd"), Wait(1)>>
FdpassChild == <<CloseWrite("pipe"), Recv("pipe", "logged"), Do("file")>>

EventfdParent == <<Fork(1), Read("pipe", "die", "stdio"), Wait(1)>>
EventfdChild == <<Write("pipe", "five")>>

SelectMain == <<Write("pipe", "ready"), Poll("pipe"), Read("pipe", "next", "stdio")>>
ManyMain == <<Write("pipe", "pipe1"), Write("reply", "pipe2"), Write("third", "pipe3"), Poll("pipe")>>
              \o <<Read("pipe", "next", "stdio"), Read("reply", "next", "stdio"), Read("third", "next", "stdio")>>
EdgeMain == <<Write("pipe", "edge"), Poll("pipe"), Read("pipe", "next", "stdio")>>
TimedMain == <<Write("pipe", "message"), Poll("pipe"), Recv("pipe", "stdio")>>

StreamScripts ==
  [duplex    |-> Family(DuplexParent, <<DuplexChild>>),
   pipeline  |-> Family(PipelineParent, <<PipelineChild>>),
   halfclose |-> Family(HalfcloseParent, <<HalfcloseChild>>),
   forking   |-> Family(ForkingParent, <<connect_client(1), connect_client(2), ForkingWorker, ForkingWorker>>),
   udp       |-> Family(UdpMain, << >>),
   abstract  |-> Family(AbstractParent, <<AbstractChild>>),
   epoll     |-> Family(EpollParent, <<EpollChild(1), EpollChild(2)>>),
   dgram     |-> Family(DgramParent, <<DgramChild>>),
   fdpass    |-> Family(FdpassParent, <<FdpassChild>>),
   eventfd   |-> Family(EventfdParent, <<EventfdChild>>),
   select    |-> Family(SelectMain, << >>),
   many      |-> Family(ManyMain, << >>),
   edge      |-> Family(EdgeMain, << >>),
   timed     |-> Family(TimedMain, << >>)]

\* What each program is there to show, in this order.
StreamOrder ==
  [duplex    |-> <<"inode", "processed", "cache", "processed", "journal", "processed">>,
   pipeline  |-> <<"payload", "upper">>,
   halfclose |-> <<"eof", "response">>,
   forking   |-> <<"echo", "echo">>,
   udp       |-> <<"payload", "payload">>,
   abstract  |-> <<"ping">>,
   epoll     |-> <<"echo", "echo">>,
   dgram     |-> Events,
   fdpass    |-> <<"sent", "fd", "file">>,
   eventfd   |-> <<"five">>,
   select    |-> <<"ready">>,
   many      |-> <<"pipe1", "pipe2", "pipe3">>,
   edge      |-> <<"edge">>,
   timed     |-> <<"message">>]

\* Pipes and queues are there before the first fork, connections are not.
StreamInit == /\ data = [c \in Channels |-> << >>]
              /\ rd = [c \in Channels |-> IF c \in Pipes THEN {Parent} ELSE {}]
              /\ wr = rd
              /\ backlog = << >>
              /\ conn = [p \in Procs |-> 1]
              /\ watched = {} /\ events = {} /\ replies = 0

-----------------------------------------------------------------------------
(* What the calls do.                                                      *)

Chan(p) == IF Call(p).on = "accepted" THEN Up[conn[p]] ELSE Call(p).on

\* The ends of process p are closed when it ends.
CloseEnds(p) == /\ rd' = [c \in Channels |-> rd[c] \ {p}]
                /\ wr' = [c \in Channels |-> wr[c] \ {p}]
CloseAll(p) == CloseEnds(p) /\ UNCHANGED data

\* fork() gives child q a copy of every descriptor of p.
Inherit(p, q) == /\ rd' = [c \in Channels |-> IF p \in rd[c] THEN rd[c] \cup {q} ELSE rd[c]]
                 /\ wr' = [c \in Channels |-> IF p \in wr[c] THEN wr[c] \cup {q} ELSE wr[c]]
                 /\ conn' = [conn EXCEPT ![q] = conn[p]]
                 /\ UNCHANGED <<data, backlog, watched, events, replies>>

Insert(c, m) == data' = [data EXCEPT ![c] = Append(@, m)]
Put(c, m) == Insert(c, m) /\ UNCHANGED <<rd, wr>>
Output(p, s) == IF Call(p).out = "stdio" THEN Buffered(p, s)
                ELSE log' = log \o s /\ UNCHANGED buf
Quiet == UNCHANGED <<buf, log>>

\* write_all, sendmsg: all of the message, or SIGPIPE when nobody can read it.
WriteStep(p) == /\ At(p, "write") /\ rd[Chan(p)] # {}
                /\ Put(Chan(p), Call(p).msg) /\ Advance(p) /\ Quiet
                /\ UNCHANGED <<fixed, status, faults, sockVars>>

BrokenPipe(p) == /\ At(p, "write") /\ rd[Chan(p)] = {}
                 /\ Shot(p) /\ CloseAll(p)
                 /\ UNCHANGED <<fixed, faults, sockVars>>

\* execlp: the program that follows takes over with the descriptors, ...
ExecStep(p) == /\ At(p, "exec")
               /\ Advance(p) /\ Quiet
               /\ UNCHANGED <<fixed, status, faults, streamVars>>

\* ... or there is none, and die_errno ends the child.
ExecFails(p) == /\ At(p, "exec")
                /\ Fault("exec", p)
                /\ Die(p) /\ CloseAll(p)
                /\ UNCHANGED <<fixed, sockVars>>

\* The first write after the peer of a TCP connection has closed it still succeeds.
TcpWriteStep(p) == /\ At(p, "tcpwrite")
                   /\ Put(Chan(p), Call(p).msg) /\ Advance(p) /\ Quiet
                   /\ UNCHANGED <<fixed, status, faults, sockVars>>

\* A UDP datagram arrives or is lost.
SendStep(p) == /\ At(p, "send")
               /\ \/ Put(Chan(p), Call(p).msg) /\ UNCHANGED faults
                  \/ Fault("lost", p) /\ UNCHANGED chanVars
               /\ Advance(p) /\ Quiet
               /\ UNCHANGED <<fixed, status, sockVars>>

AtEof(c) == data[c] = << >> /\ wr[c] = {}
Ready(c) == data[c] # << >> \/ wr[c] = {}

\* read takes everything there is.
ReadStep(p) == /\ At(p, "read") /\ data[Chan(p)] # << >>
               /\ Output(p, data[Chan(p)])
               /\ data' = [data EXCEPT ![Chan(p)] = << >>]
               /\ Advance(p)
               /\ UNCHANGED <<fixed, status, faults, rd, wr, sockVars>>

\* read returns 0: the loop ends, or the program makes do with the empty buffer.
ReadEof(p) == /\ At(p, "read") /\ AtEof(Chan(p)) /\ Call(p).eof # "die"
              /\ Goto(p, IF Call(p).eof = "exit" THEN Len(script[p]) + 1 ELSE pc[p] + 1) /\ Quiet
              /\ UNCHANGED <<fixed, status, faults, streamVars>>

ReadDies(p) == /\ At(p, "read") /\ AtEof(Chan(p)) /\ Call(p).eof = "die"
               /\ Die(p) /\ CloseAll(p)
               /\ UNCHANGED <<fixed, faults, sockVars>>

\* recv, recvfrom, recvmsg, mq_receive, and the read of one byte: one message.
RecvStep(p) == /\ At(p, "recv") /\ data[Chan(p)] # << >>
               /\ Output(p, <<Head(data[Chan(p)])>>)
               /\ data' = [data EXCEPT ![Chan(p)] = Tail(@)]
               /\ Advance(p)
               /\ UNCHANGED <<fixed, status, faults, rd, wr, sockVars>>

\* Read until end of file.
DrainStep(p) == /\ At(p, "drain") /\ Ready(Chan(p))
                /\ data' = [data EXCEPT ![Chan(p)] = << >>]
                /\ IF AtEof(Chan(p)) THEN Advance(p) ELSE UNCHANGED pc
                /\ Quiet
                /\ UNCHANGED <<fixed, status, faults, rd, wr, sockVars>>

\* xclose of one end of a pipe, shutdown(SHUT_WR).
CloseStep(p) == /\ At(p, "close")
                /\ IF Call(p).end = "read"
                     THEN rd' = [rd EXCEPT ![Chan(p)] = @ \ {p}] /\ UNCHANGED wr
                     ELSE wr' = [wr EXCEPT ![Chan(p)] = @ \ {p}] /\ UNCHANGED rd
                /\ Advance(p) /\ Quiet
                /\ UNCHANGED <<fixed, status, faults, data, sockVars>>

\* The server's ends of the connection of client q go from one holder to others.
Rehold(q, from, to) == /\ rd' = [rd EXCEPT ![Up[q]] = (@ \ from) \cup to]
                       /\ wr' = [wr EXCEPT ![Down[q]] = (@ \ from) \cup to]
                       /\ UNCHANGED data

\* xclose of an accepted connection.
HangupStep(p) == /\ At(p, "hangup")
                 /\ Rehold(conn[p], {p}, {})
                 /\ Advance(p) /\ Quiet
                 /\ UNCHANGED <<fixed, status, faults, sockVars>>

\* poll, select, epoll_wait and mq_timedreceive return when there is something, or
\* end of file, ...
PollStep(p) == /\ At(p, "poll") /\ Ready(Chan(p))
               /\ Advance(p) /\ Quiet
               /\ UNCHANGED <<fixed, status, faults, streamVars>>

\* ... or after the timeout, which is fatal.
PollTimesOut(p) == /\ At(p, "poll") /\ ~Ready(Chan(p))
                   /\ Fault("timeout", p)
                   /\ Die(p) /\ CloseAll(p)
                   /\ UNCHANGED <<fixed, sockVars>>

\* The backlog has room for every client, and each client holds the listening socket.
ConnectStep(p) == /\ At(p, "connect")
                  /\ backlog' = Append(backlog, p)
                  /\ rd' = [rd EXCEPT ![Up[p]] = {Kernel}, ![Down[p]] = {p}]
                  /\ wr' = [wr EXCEPT ![Up[p]] = {p}, ![Down[p]] = {Kernel}]
                  /\ Advance(p) /\ Quiet
                  /\ UNCHANGED <<fixed, status, faults, data, conn, watched, events, replies>>

AcceptStep(p) == /\ At(p, "accept") /\ backlog # << >>
                 /\ conn' = [conn EXCEPT ![p] = Head(backlog)]
                 /\ backlog' = Tail(backlog)
                 /\ Rehold(Head(backlog), {Kernel}, {p})
                 /\ Advance(p) /\ Quiet
                 /\ UNCHANGED <<fixed, status, faults, watched, events, replies>>

-----------------------------------------------------------------------------
(* The event loop of epoll_unix_echo.c.                                    *)

EpollReady == {q \in watched : Ready(Up[q])} \cup (IF backlog = << >> THEN {} ELSE {Listener})
InLoop(p) == At(p, "epoll") /\ events = {} /\ replies < 2

\* epoll_wait returns everything that is ready ...
EpollWait(p) == /\ InLoop(p) /\ EpollReady # {}
                /\ events' = EpollReady /\ Quiet
                /\ UNCHANGED <<fixed, pc, status, faults, chanVars, backlog, conn, watched, replies>>

\* ... or nothing, after the timeout.
EpollTimesOut(p) == /\ InLoop(p) /\ EpollReady = {}
                    /\ Fault("timeout", p)
                    /\ Die(p) /\ CloseAll(p)
                    /\ UNCHANGED <<fixed, sockVars>>

EpollAccept(p) == /\ At(p, "epoll") /\ Listener \in events
                  /\ watched' = watched \cup {Head(backlog)}
                  /\ backlog' = Tail(backlog)
                  /\ events' = events \ {Listener}
                  /\ Rehold(Head(backlog), {Kernel}, {p}) /\ Quiet
                  /\ UNCHANGED <<fixed, pc, status, faults, conn, replies>>

\* A client's message is counted, end of file is not; the connection is closed.
EpollRead(p) == /\ At(p, "epoll")
                /\ \E q \in events \ {Listener} :
                     /\ Buffered(p, data[Up[q]])
                     /\ replies' = IF data[Up[q]] = << >> THEN replies ELSE replies + 1
                     /\ data' = [data EXCEPT ![Up[q]] = << >>]
                     /\ rd' = [rd EXCEPT ![Up[q]] = @ \ {p}]
                     /\ wr' = [wr EXCEPT ![Down[q]] = @ \ {p}]
                     /\ watched' = watched \ {q}
                     /\ events' = events \ {q}
                /\ UNCHANGED <<fixed, pc, status, faults, backlog, conn>>

EpollDone(p) == /\ At(p, "epoll") /\ events = {} /\ replies >= 2
                /\ Advance(p) /\ Quiet
                /\ UNCHANGED <<fixed, status, faults, streamVars>>

\* The calls after which the process goes on, and those that end it.
StreamStep(p) == \/ WriteStep(p) \/ TcpWriteStep(p) \/ SendStep(p)
                 \/ ReadStep(p) \/ ReadEof(p) \/ RecvStep(p) \/ DrainStep(p)
                 \/ CloseStep(p) \/ HangupStep(p) \/ PollStep(p) \/ ConnectStep(p) \/ AcceptStep(p)
                 \/ ExecStep(p)
                 \/ EpollWait(p) \/ EpollAccept(p) \/ EpollRead(p) \/ EpollDone(p)
StreamEnd(p) == \/ BrokenPipe(p) \/ ExecFails(p) \/ ReadDies(p)
                \/ PollTimesOut(p) \/ EpollTimesOut(p)
=============================================================================
