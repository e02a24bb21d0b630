----------------------------- MODULE CalcServer -----------------------------
(***************************************************************************)
(* Sockets/unix_calc_server.c with its clients, unix_calc_client.c: the    *)
(* server accepts connections and forks a worker per client; SIGCHLD runs  *)
(* the handler reap(), which collects every child that has ended.          *)
(*                                                                         *)
(* What evaluate() makes of a request is a parameter: the set of its       *)
(* value, empty if the worker dies in the parser.  SIGCHLD is one          *)
(* bit: children that end while it is pending, or while the handler runs,  *)
(* share one delivery.  accept() is restarted after the handler.  The      *)
(* socket layer is external: a backlog, and a connection whose server end  *)
(* is closed when no process holds it.                                     *)
(***************************************************************************)
EXTENDS Integers, Sequences

CONSTANTS Clients,       \* the clients there may be
          Loads,         \* the requests they may make, per client
          NoRequest,     \* the request of a client that is not started
          Value(_),      \* what evaluate() computes for a request
          Meaning(_),    \* what the request stands for
          BACKLOG,       \* listen(server, BACKLOG): 32 in the program, one more may wait
          READ_MAX,      \* the characters serve() reads: BUFFER_SIZE - 1 = 511
          ForkCanFail    \* may fork() return -1?

ASSUME CalcAssumption == /\ \A load \in Loads : DOMAIN load = Clients
                         /\ BACKLOG \in Nat /\ READ_MAX \in Nat
                         /\ ForkCanFail \in BOOLEAN

VARIABLES spc, conn,     \* the server's loop; the connection accepted last
          reaping,       \* is the server inside reap()?
          pending,       \* SIGCHLD is pending
          backlog,       \* connections waiting for accept()
          holds,         \* per client: who holds the server end open
          wpc,           \* per client: its worker
          cpc, request,  \* per client: where it is, what it asks
          response,      \* per client: the set of the response in the socket
          answer         \* per client: the set of what its read() returned

vars == <<spc, conn, reaping, pending, backlog, holds, wpc, cpc, request, response, answer>>
clientVars == <<cpc, request, answer>>

Nobody == "nobody"

Init == /\ spc = "start"
        /\ conn = Nobody
        /\ reaping = FALSE
        /\ pending = FALSE
        /\ backlog = << >>
        /\ holds = [c \in Clients |-> {}]
        /\ wpc = [c \in Clients |-> "none"]
        /\ request \in Loads
        /\ cpc = [c \in Clients |-> IF request[c] = NoRequest THEN "unused" ELSE "connect"]
        /\ response = [c \in Clients |-> {}]
        /\ answer = [c \in Clients |-> {}]

-----------------------------------------------------------------------------
(* The server.  Its main loop stands still while the handler runs.         *)

\* socket, unlink, bind, listen.
Listen == /\ spc = "start"
          /\ spc' = "accept"
          /\ UNCHANGED <<conn, reaping, pending, backlog, holds, wpc, response, clientVars>>

Accept == /\ spc = "accept" /\ ~reaping
          /\ backlog # << >>
          /\ conn' = Head(backlog)
          /\ backlog' = Tail(backlog)
          /\ holds' = [holds EXCEPT ![Head(backlog)] = {"server"}]
          /\ spc' = "fork"
          /\ UNCHANGED <<reaping, pending, wpc, response, clientVars>>

\* fork(); the child inherits the connection.  If it fails the server dies, and
\* with it its descriptors and the backlog.
Fork == /\ spc = "fork" /\ ~reaping
        /\ \/ /\ wpc' = [wpc EXCEPT ![conn] = "read"]
              /\ holds' = [holds EXCEPT ![conn] = @ \cup {"worker"}]
              /\ spc' = "close"
              /\ UNCHANGED backlog
           \/ /\ ForkCanFail
              /\ spc' = "died"
              /\ holds' = [c \in Clients |-> holds[c] \ {"server"}]
              /\ backlog' = << >>
              /\ UNCHANGED wpc
        /\ UNCHANGED <<conn, reaping, pending, response, clientVars>>

\* Mutant of Close: the parent keeps the connection.
CloseLeaks == /\ spc = "close" /\ ~reaping
              /\ spc' = "accept"
              /\ UNCHANGED <<conn, holds, reaping, pending, backlog, wpc, response, clientVars>>

\* xclose(client) in the parent.
Close == /\ spc = "close" /\ ~reaping
         /\ holds' = [holds EXCEPT ![conn] = @ \ {"server"}]
         /\ spc' = "accept"
         /\ UNCHANGED <<conn, reaping, pending, backlog, wpc, response, clientVars>>

\* The signal is delivered: reap() begins.
EnterReap == /\ pending /\ ~reaping
             /\ spc # "died"
             /\ pending' = FALSE
             /\ reaping' = TRUE
             /\ UNCHANGED <<spc, conn, backlog, holds, wpc, response, clientVars>>

\* Mutant of ReapOne: `if' instead of `while'.
ReapOneOnly(c) == /\ reaping
                  /\ wpc[c] = "zombie"
                  /\ wpc' = [wpc EXCEPT ![c] = "reaped"]
                  /\ reaping' = FALSE
                  /\ UNCHANGED <<spc, conn, pending, backlog, holds, response, clientVars>>

\* One waitpid(-1, NULL, WNOHANG) that finds a child.
ReapOne(c) == /\ reaping
              /\ wpc[c] = "zombie"
              /\ wpc' = [wpc EXCEPT ![c] = "reaped"]
              /\ UNCHANGED <<spc, conn, reaping, pending, backlog, holds, response, clientVars>>

\* It finds none: the handler returns.
LeaveReap == /\ reaping
             /\ \A c \in Clients : wpc[c] # "zombie"
             /\ reaping' = FALSE
             /\ UNCHANGED <<spc, conn, pending, backlog, holds, wpc, response, clientVars>>

Server == \/ Listen \/ Accept \/ Fork \/ Close
          \/ EnterReap \/ (\E c \in Clients : ReapOne(c)) \/ LeaveReap

-----------------------------------------------------------------------------
(* The worker of client c: serve(), xclose(), _exit().                     *)

HasSent(c) == cpc[c] \in {"shutdown", "read", "done"} /\ request[c] # << >>
HasShutDown(c) == cpc[c] \in {"read", "done"}

\* read() waits for the request or for the end of the stream.
WorkerRead(c) == /\ wpc[c] = "read"
                 /\ HasSent(c) \/ HasShutDown(c)
                 /\ wpc' = [wpc EXCEPT ![c] = IF HasSent(c) THEN "evaluate" ELSE "exit"]
                 /\ UNCHANGED <<spc, conn, reaping, pending, backlog, holds, response, clientVars>>

\* The one read() of serve(): what does not fit into the buffer is never looked at.
Received(c) == IF Len(request[c]) <= READ_MAX THEN request[c] ELSE SubSeq(request[c], 1, READ_MAX)

\* evaluate() and write_all; a request without a value ends in die().
Evaluate(c) == /\ wpc[c] = "evaluate"
               /\ response' = [response EXCEPT ![c] = Value(Received(c))]
               /\ wpc' = [wpc EXCEPT ![c] = "exit"]
               /\ UNCHANGED <<spc, conn, reaping, pending, backlog, holds, clientVars>>

\* The descriptors are closed and the parent is signalled.
WorkerExit(c) == /\ wpc[c] = "exit"
                 /\ wpc' = [wpc EXCEPT ![c] = "zombie"]
                 /\ holds' = [holds EXCEPT ![c] = @ \ {"worker"}]
                 /\ pending' = (spc # "died")
                 /\ UNCHANGED <<spc, conn, reaping, backlog, response, clientVars>>

Worker(c) == WorkerRead(c) \/ Evaluate(c) \/ WorkerExit(c)

-----------------------------------------------------------------------------
(* Client c.                                                               *)

\* Mutant of Connect: the backlog has no limit.
ConnectUnbounded(c) == /\ cpc[c] = "connect"
                       /\ spc \notin {"start", "died"}
                       /\ backlog' = Append(backlog, c)
                       /\ cpc' = [cpc EXCEPT ![c] = "write"]
                       /\ UNCHANGED <<spc, conn, reaping, pending, holds, wpc, request, response, answer>>

\* connect() is refused without a listening server and waits for room: the kernel
\* lets one connection more than BACKLOG wait.
Connect(c) == /\ cpc[c] = "connect"
              /\ \/ /\ spc \in {"start", "died"}
                    /\ cpc' = [cpc EXCEPT ![c] = "refused"]
                    /\ UNCHANGED backlog
                 \/ /\ spc \notin {"start", "died"}
                    /\ Len(backlog) <= BACKLOG
                    /\ backlog' = Append(backlog, c)
                    /\ cpc' = [cpc EXCEPT ![c] = "write"]
              /\ UNCHANGED <<spc, conn, reaping, pending, holds, wpc, request, response, answer>>

Waiting(c) == c \in {backlog[x] : x \in DOMAIN backlog}

\* No process has the other end of the connection, and none will.
Gone(c) == holds[c] = {} /\ ~Waiting(c)

\* write_all, which makes no call for an empty request.  SIGPIPE ends a client whose
\* server is gone.
Write(c) == /\ cpc[c] = "write"
            /\ cpc' = [cpc EXCEPT ![c] = IF Gone(c) /\ request[c] # << >> THEN "broken"
                                                                          ELSE "shutdown"]
            /\ UNCHANGED <<spc, conn, reaping, pending, backlog, holds, wpc, request, response, answer>>

\* shutdown(SHUT_WR).
Shutdown(c) == /\ cpc[c] = "shutdown"
               /\ cpc' = [cpc EXCEPT ![c] = "read"]
               /\ UNCHANGED <<spc, conn, reaping, pending, backlog, holds, wpc, request, response, answer>>

\* read() returns the response, or nothing (end of file, reset) once the other end is gone.
ClientRead(c) == /\ cpc[c] = "read"
                 /\ response[c] # {} \/ Gone(c)
                 /\ answer' = [answer EXCEPT ![c] = response[c]]
                 /\ cpc' = [cpc EXCEPT ![c] = "done"]
                 /\ UNCHANGED <<spc, conn, reaping, pending, backlog, holds, wpc, request, response>>

Client(c) == Connect(c) \/ Write(c) \/ Shutdown(c) \/ ClientRead(c)

Next == Server \/ \E c \in Clients : Worker(c) \/ Client(c)

Spec == Init /\ [][Next]_vars

\* Every process that can run is scheduled, and a pending signal is delivered
\* before its process goes on for ever.
FairSpec == /\ Spec
            /\ WF_vars(Server) /\ WF_vars(EnterReap)
            /\ \A c \in Clients : WF_vars(Worker(c)) /\ WF_vars(Client(c))

-----------------------------------------------------------------------------
(* Properties.                                                             *)

\* The variables have their types; the backlog keeps its limit.
TypeOK == /\ spc \in {"start", "accept", "fork", "close", "died"}
          /\ conn \in Clients \cup {Nobody}
          /\ reaping \in BOOLEAN /\ pending \in BOOLEAN
          /\ backlog \in Seq(Clients) /\ Len(backlog) <= BACKLOG + 1
          /\ holds \in [Clients -> SUBSET {"server", "worker"}]
          /\ wpc \in [Clients -> {"none", "read", "evaluate", "exit", "zombie", "reaped"}]
          /\ cpc \in [Clients -> {"connect", "write", "shutdown", "read", "done", "broken",
                              "refused", "unused"}]
          /\ response = [c \in Clients |-> response[c]] /\ answer = [c \in Clients |-> answer[c]]
          /\ \A c \in Clients : answer[c] \subseteq response[c]

\* A client's read returns what its request means, and nothing if it means
\* nothing: the parser understands exactly the usual grammar, and no client gets
\* another one's answer, or none.  Only a server that died before it forked the
\* client's worker leaves a good request unanswered, or breaks the client's write.
\* A request longer than the buffer of serve() is answered, without notice, for its
\* first READ_MAX characters.
AnswersMatch == \A c \in Clients : cpc[c] \in {"done", "broken"} =>
                  \/ answer[c] = Meaning(Received(c))
                  \/ answer[c] = {} /\ spc = "died" /\ wpc[c] = "none"

\* No dead worker is forgotten: as long as there is a zombie, the handler runs
\* or is about to, although signals of several workers merge into one.
ZombiesAnnounced == spc # "died" /\ (\E c \in Clients : wpc[c] = "zombie")
                      => pending \/ reaping

\* Every client ends, with an answer or without, also when the server dies or
\* the backlog is full when it comes.
ClientsEnd == \A c \in Clients : <>(cpc[c] \in {"done", "broken", "refused", "unused"})

\* Every worker that has ended is reaped as long as the server lives.
WorkersReaped == \A c \in Clients : (wpc[c] = "zombie") ~> (wpc[c] = "reaped" \/ spc = "died")
=============================================================================
