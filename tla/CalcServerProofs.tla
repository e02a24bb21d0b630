-------------------------- MODULE CalcServerProofs --------------------------
(***************************************************************************)
(* Proofs about CalcServer, for any set of clients, any length of the      *)
(* backlog and of the buffer, and with forks that may fail.  FlowInv says  *)
(* where a connection may be; the answers, the types and termination rest  *)
(* on it.  That the parser computes what a text means is an assumption of  *)
(* the theorem about the answers only; TLC checks it.                      *)
(***************************************************************************)
EXTENDS CalcServer, FiniteSetTheorems, TLAPS

Connected == {"write", "shutdown", "read", "done", "broken"}
Queued == {backlog[x] : x \in DOMAIN backlog}

\* Nobody waits twice, and whoever waits has no worker yet.
QueueInv == /\ \A x, y \in DOMAIN backlog : backlog[x] = backlog[y] => x = y
            /\ \A c \in Queued : wpc[c] = "none" /\ cpc[c] \in Connected

\* The server is about to fork the worker of a client that waits no longer.  Only
\* then does it have the connection open, and nobody waits without a server.
ServerInv == /\ spc \in {"fork", "close"} => conn \in Clients
             /\ spc = "fork" => /\ conn \notin Queued
                                /\ wpc[conn] = "none"
                                /\ cpc[conn] \in Connected
             /\ spc = "close" => wpc[conn] # "none"
             /\ \A c \in Clients :
                  "server" \in holds[c] <=> spc \in {"fork", "close"} /\ conn = c
             /\ spc \in {"start", "died"} => backlog = << >>

\* A client without a worker is not connected, waits, is being served, or has
\* lost its server.  No worker has read what its client has not written.
ClientInv == \A c \in Clients :
               /\ cpc[c] \notin Connected => wpc[c] = "none" /\ c \notin Queued
               /\ cpc[c] \in Connected /\ wpc[c] = "none" =>
                    c \in Queued \/ (spc = "fork" /\ conn = c) \/ spc = "died"
               /\ cpc[c] \in {"write", "broken"} => wpc[c] \in {"none", "read"}

\* A worker holds the connection as long as it lives, and answers last.
WorkerInv == \A c \in Clients :
               /\ wpc[c] \in {"none", "read", "evaluate"} => response[c] = {}
               /\ "worker" \in holds[c] <=> wpc[c] \in {"read", "evaluate", "exit"}

\* Where the connections are; and that a worker answers what it read.
FlowInv == TypeOK /\ QueueInv /\ ServerInv /\ ClientInv /\ WorkerInv
AnswerInv == /\ \A c \in Clients :
                  wpc[c] \in {"exit", "zombie", "reaped"} => response[c] = Meaning(Received(c))
             /\ AnswersMatch

-----------------------------------------------------------------------------
(* The queue of connections as a set.                                      *)

\* A connection joins the end of the queue; if it is new, nobody waits twice.
LEMMA AppendQueue ==
  ASSUME NEW S, NEW s \in Seq(S), NEW e \in S
  PROVE  /\ Append(s, e) \in Seq(S) /\ Len(Append(s, e)) = Len(s) + 1
         /\ {Append(s, e)[x] : x \in DOMAIN Append(s, e)} = {s[x] : x \in DOMAIN s} \cup {e}
         /\ (\A x, y \in DOMAIN s : s[x] = s[y] => x = y) /\ e \notin {s[x] : x \in DOMAIN s}
              => \A x, y \in DOMAIN Append(s, e) : Append(s, e)[x] = Append(s, e)[y] => x = y
<1> DEFINE t == Append(s, e)
<1>1. t \in Seq(S) /\ Len(t) = Len(s) + 1 /\ DOMAIN t = 1 .. Len(s) + 1 /\ DOMAIN s = 1 .. Len(s)
  OBVIOUS
<1>2. t[Len(s) + 1] = e /\ \A x \in DOMAIN s : t[x] = s[x]
  OBVIOUS
<1> HIDE DEF t
<1>3. {t[x] : x \in DOMAIN t} = {s[x] : x \in DOMAIN s} \cup {e}
  BY <1>1, <1>2
<1>4. (\A x, y \in DOMAIN s : s[x] = s[y] => x = y) /\ e \notin {s[x] : x \in DOMAIN s}
              => \A x, y \in DOMAIN t : t[x] = t[y] => x = y
  BY <1>1, <1>2
<1> QED BY <1>1, <1>3, <1>4 DEF t

\* accept() takes the first connection and no other; it does not wait any more.
LEMMA TailQueue ==
  ASSUME NEW S, NEW s \in Seq(S), s # << >>,
         \A x, y \in DOMAIN s : s[x] = s[y] => x = y
  PROVE  /\ Head(s) \in S /\ Tail(s) \in Seq(S) /\ Len(Tail(s)) = Len(s) - 1
         /\ Head(s) \in {s[x] : x \in DOMAIN s}
         /\ {Tail(s)[x] : x \in DOMAIN Tail(s)} = {s[x] : x \in DOMAIN s} \ {Head(s)}
         /\ \A x, y \in DOMAIN Tail(s) : Tail(s)[x] = Tail(s)[y] => x = y
<1> DEFINE t == Tail(s)
<1>1. /\ t \in Seq(S) /\ Len(t) = Len(s) - 1 /\ Len(s) \in Nat /\ Len(s) > 0
      /\ DOMAIN t = 1 .. Len(s) - 1 /\ DOMAIN s = 1 .. Len(s)
  OBVIOUS
<1>2. Head(s) = s[1] /\ Head(s) \in S /\ \A x \in DOMAIN t : t[x] = s[x + 1]
  OBVIOUS
<1> HIDE DEF t
<1>3. {t[x] : x \in DOMAIN t} = {s[x] : x \in DOMAIN s} \ {Head(s)}
  <2>1. ASSUME NEW x \in DOMAIN t PROVE t[x] \in {s[z] : z \in DOMAIN s} \ {Head(s)}
    BY <1>1, <1>2, x + 1 \in DOMAIN s, 1 \in DOMAIN s, x + 1 # 1
  <2>2. ASSUME NEW x \in DOMAIN s, s[x] # Head(s) PROVE s[x] \in {t[z] : z \in DOMAIN t}
    BY <1>1, <1>2, <2>2, x - 1 \in DOMAIN t, t[x - 1] = s[x]
  <2> QED BY <2>1, <2>2
<1>4. \A x, y \in DOMAIN t : t[x] = t[y] => x = y
  BY <1>1, <1>2, SMTT(30)
<1>5. Head(s) \in {s[x] : x \in DOMAIN s}
  BY <1>1, <1>2
<1> QED BY <1>1, <1>2, <1>3, <1>4, <1>5, ZenonT(30) DEF t

-----------------------------------------------------------------------------
(* The connections.                                                        *)

\* Everything but the queue, for steps that leave the queue alone.
LEMMA SameQueue == UNCHANGED backlog => Queued' = Queued
BY DEF Queued

\* accept() takes the client that waits longest out of the queue.
LEMMA AcceptTakes ==
  ASSUME FlowInv, Accept
  PROVE  /\ Head(backlog) \in Clients /\ Head(backlog) \in Queued
         /\ Queued' = Queued \ {Head(backlog)}
         /\ backlog' \in Seq(Clients) /\ Len(backlog') = Len(backlog) - 1
         /\ \A x, y \in DOMAIN backlog' : backlog'[x] = backlog'[y] => x = y
<1> DEFINE c == Head(backlog)
<1>1. /\ backlog \in Seq(Clients) /\ backlog # << >> /\ backlog' = Tail(backlog)
      /\ \A x, y \in DOMAIN backlog : backlog[x] = backlog[y] => x = y
  BY DEF Accept, FlowInv, TypeOK, QueueInv
<1>2. /\ Head(backlog) \in Clients /\ Tail(backlog) \in Seq(Clients)
      /\ Len(Tail(backlog)) = Len(backlog) - 1
      /\ Head(backlog) \in {backlog[x] : x \in DOMAIN backlog}
      /\ {Tail(backlog)[x] : x \in DOMAIN Tail(backlog)}
           = {backlog[x] : x \in DOMAIN backlog} \ {Head(backlog)}
      /\ \A x, y \in DOMAIN Tail(backlog) : Tail(backlog)[x] = Tail(backlog)[y] => x = y
  BY ONLY <1>1, TailQueue, ZenonT(30)
<1>3. /\ c \in Clients /\ backlog' \in Seq(Clients) /\ Len(backlog') = Len(backlog) - 1
      /\ c \in Queued /\ Queued' = Queued \ {c}
      /\ \A x, y \in DOMAIN backlog' : backlog'[x] = backlog'[y] => x = y
  BY ONLY <1>1, <1>2, SMTT(30) DEF Queued, c
<1> QED BY <1>3, ZenonT(30) DEF c

\* accept(): the client at the head of the queue waits no longer.
LEMMA AcceptStep == FlowInv /\ Accept => FlowInv'
<1> SUFFICES ASSUME FlowInv, Accept PROVE FlowInv'
  OBVIOUS
<1> USE DEF FlowInv, TypeOK, clientVars, Connected, Nobody
<1> DEFINE c == Head(backlog)
<1>1. /\ c \in Clients /\ backlog' \in Seq(Clients) /\ Len(backlog') = Len(backlog) - 1
      /\ c \in Queued /\ Queued' = Queued \ {c}
      /\ \A x, y \in DOMAIN backlog' : backlog'[x] = backlog'[y] => x = y
  BY AcceptTakes
<1> HIDE DEF c
<1>2. /\ spc = "accept" /\ spc' = "fork" /\ conn' = c
      /\ holds' = [holds EXCEPT ![c] = {"server"}]
      /\ UNCHANGED <<reaping, pending, wpc, response, cpc, request, answer>>
  BY DEF Accept, c
<1>3. wpc[c] = "none" /\ cpc[c] \in Connected
  BY <1>1 DEF QueueInv
<1>4. TypeOK'
  <2>1. Len(backlog') <= BACKLOG + 1
    BY <1>1, CalcAssumption
  <2> QED BY <1>1, <1>2, <2>1
<1>5. QueueInv'
  BY <1>1, <1>2 DEF QueueInv
<1>6. ServerInv'
  <2>1. ASSUME NEW d \in Clients PROVE "server" \in holds'[d] <=> d = c
    BY <1>1, <1>2 DEF ServerInv
  <2> QED BY <1>1, <1>2, <1>3, <2>1 DEF ServerInv
<1>7. ClientInv'
  BY <1>1, <1>2, <1>3 DEF ClientInv
<1>8. WorkerInv'
  BY <1>1, <1>2, <1>3 DEF WorkerInv
<1> QED BY <1>4, <1>5, <1>6, <1>7, <1>8

\* fork() makes the worker, or fails and ends the server.
LEMMA ForkStep == FlowInv /\ Fork => FlowInv'
<1> SUFFICES ASSUME FlowInv, Fork PROVE FlowInv'
  OBVIOUS
<1> USE DEF FlowInv, TypeOK, clientVars, Connected, Nobody
<1>1. /\ spc = "fork" /\ conn \in Clients /\ conn \notin Queued
      /\ wpc[conn] = "none" /\ cpc[conn] \in Connected
      /\ \A c \in Clients : "server" \in holds[c] <=> conn = c
  BY DEF Fork, ServerInv
<1>2. UNCHANGED <<conn, reaping, pending, response, cpc, request, answer>>
  BY DEF Fork
<1>3. CASE /\ wpc' = [wpc EXCEPT ![conn] = "read"]
           /\ holds' = [holds EXCEPT ![conn] = @ \cup {"worker"}]
           /\ spc' = "close"
           /\ UNCHANGED backlog
  <2>1. Queued' = Queued
    BY <1>3, SameQueue
  <2>2. TypeOK'
    BY <1>1, <1>2, <1>3
  <2>3. QueueInv' /\ ServerInv'
    BY <1>1, <1>2, <1>3, <2>1 DEF QueueInv, ServerInv
  <2>4. ClientInv' /\ WorkerInv'
    BY <1>1, <1>2, <1>3, <2>1 DEF ClientInv, WorkerInv
  <2> QED BY <2>2, <2>3, <2>4
<1>4. CASE /\ spc' = "died"
           /\ holds' = [d \in Clients |-> holds[d] \ {"server"}]
           /\ backlog' = << >>
           /\ UNCHANGED wpc
  <2>1. Queued' = {} /\ DOMAIN backlog' = {} /\ Len(backlog') = 0 /\ backlog' \in Seq(Clients)
    BY <1>4 DEF Queued
  <2>2. TypeOK'
    BY <1>1, <1>2, <1>4, <2>1, CalcAssumption
  <2>3. QueueInv' /\ ServerInv'
    BY <1>1, <1>2, <1>4, <2>1 DEF QueueInv, ServerInv
  <2>4. ClientInv' /\ WorkerInv'
    BY <1>1, <1>2, <1>4, <2>1 DEF ClientInv, WorkerInv
  <2> QED BY <2>2, <2>3, <2>4
<1> QED BY <1>3, <1>4 DEF Fork

\* The server's steps.
LEMMA ServerStep == FlowInv /\ Server => FlowInv'
<1> SUFFICES ASSUME FlowInv, Server PROVE FlowInv'
  OBVIOUS
<1> USE DEF FlowInv, TypeOK, clientVars, Connected, Nobody
<1>1. CASE Listen
  BY <1>1, SameQueue DEF Listen, QueueInv, ServerInv, ClientInv, WorkerInv
<1>2. CASE Close
  <2>1. Queued' = Queued
    BY <1>2, SameQueue DEF Close
  <2>2. TypeOK' /\ QueueInv' /\ ClientInv'
    BY <1>2, <2>1, ZenonT(40) DEF Close, QueueInv, ClientInv
  <2>3. ServerInv' /\ WorkerInv'
    BY <1>2, <2>1 DEF Close, ServerInv, WorkerInv
  <2> QED BY <2>2, <2>3
<1>3. CASE EnterReap \/ LeaveReap
  <2>1. reaping' \in BOOLEAN /\ pending' \in BOOLEAN
    BY <1>3, Zenon DEF EnterReap, LeaveReap
  <2>2. UNCHANGED <<spc, conn, backlog, holds, wpc, response, cpc, request, answer>>
    BY <1>3 DEF EnterReap, LeaveReap
  <2> QED BY <2>1, <2>2, SameQueue DEF QueueInv, ServerInv, ClientInv, WorkerInv
<1>4. ASSUME NEW c \in Clients, ReapOne(c) PROVE FlowInv'
  BY <1>4, SameQueue DEF ReapOne, QueueInv, ServerInv, ClientInv, WorkerInv
<1> QED BY <1>1, <1>2, <1>3, <1>4, AcceptStep, ForkStep DEF Server

\* The steps of the workers.
LEMMA WorkerStep ==
  ASSUME FlowInv, NEW w \in Clients, Worker(w)
  PROVE  FlowInv'
<1> USE DEF FlowInv, TypeOK, clientVars, Connected, Nobody
<1>1. CASE WorkerRead(w)
  <2>1. /\ wpc[w] = "read"
        /\ wpc' = [wpc EXCEPT ![w] = IF HasSent(w) THEN "evaluate" ELSE "exit"]
        /\ UNCHANGED <<spc, conn, reaping, pending, backlog, holds, response, cpc, request, answer>>
    BY <1>1 DEF WorkerRead
  <2>2. Queued' = Queued
    BY <2>1, SameQueue
  <2>3. cpc[w] \notin {"write", "broken"}
    BY <1>1 DEF WorkerRead, HasSent, HasShutDown
  <2> QED BY <2>1, <2>2, <2>3 DEF QueueInv, ServerInv, ClientInv, WorkerInv
<1>2. CASE Evaluate(w)
  <2>1. /\ wpc[w] = "evaluate" /\ wpc' = [wpc EXCEPT ![w] = "exit"]
        /\ response' = [response EXCEPT ![w] = Value(Received(w))]
        /\ UNCHANGED <<spc, conn, reaping, pending, backlog, holds, cpc, request, answer>>
    BY <1>2, ZenonT(30) DEF Evaluate
  <2>2. Queued' = Queued
    BY <2>1, SameQueue
  <2>3. answer[w] = {}
    BY <2>1 DEF WorkerInv
  <2>4. TypeOK'
    BY <2>1, <2>3, ZenonT(30)
  <2>5. QueueInv' /\ ServerInv' /\ ClientInv'
    BY <2>1, <2>2 DEF QueueInv, ServerInv, ClientInv
  <2>6. WorkerInv'
    BY <2>1 DEF WorkerInv
  <2> QED BY <2>4, <2>5, <2>6
<1>3. CASE WorkerExit(w)
  <2>1. /\ wpc[w] = "exit" /\ wpc' = [wpc EXCEPT ![w] = "zombie"]
        /\ holds' = [holds EXCEPT ![w] = @ \ {"worker"}]
        /\ UNCHANGED <<spc, conn, reaping, backlog, response, cpc, request, answer>>
    BY <1>3 DEF WorkerExit
  <2>2. pending' \in BOOLEAN
    BY <1>3, Zenon DEF WorkerExit
  <2>3. Queued' = Queued
    BY <2>1, SameQueue
  <2>4. TypeOK' /\ QueueInv' /\ ClientInv'
    BY <2>1, <2>2, <2>3 DEF QueueInv, ClientInv
  <2>5. ServerInv' /\ WorkerInv'
    BY <2>1, <2>3 DEF ServerInv, WorkerInv
  <2> QED BY <2>4, <2>5
<1> QED BY <1>1, <1>2, <1>3 DEF Worker

\* The steps of the clients.
LEMMA ClientStep ==
  ASSUME FlowInv, NEW d \in Clients, Client(d)
  PROVE  FlowInv'
<1> USE DEF FlowInv, TypeOK, Connected, Nobody
<1>1. UNCHANGED <<spc, conn, reaping, pending, holds, wpc, request, response>>
  BY DEF Client, Connect, Write, Shutdown, ClientRead
<1>2. WorkerInv'
  BY <1>1 DEF WorkerInv
<1>3. CASE Connect(d)
  <2>1. cpc[d] = "connect" /\ d \notin Queued /\ wpc[d] = "none" /\ UNCHANGED answer
    BY <1>3 DEF Connect, ClientInv
  <2>2. CASE cpc' = [cpc EXCEPT ![d] = "refused"] /\ UNCHANGED backlog
    <3>1. Queued' = Queued
      BY <2>2, SameQueue
    <3>2. TypeOK' /\ QueueInv' /\ ServerInv' /\ ClientInv'
      BY <1>1, <2>1, <2>2, <3>1 DEF QueueInv, ServerInv, ClientInv
    <3> QED BY <1>2, <3>2
  <2>3. CASE /\ spc \notin {"start", "died"} /\ Len(backlog) <= BACKLOG
             /\ backlog' = Append(backlog, d) /\ cpc' = [cpc EXCEPT ![d] = "write"]
    <3>1. /\ backlog' \in Seq(Clients) /\ Len(backlog') = Len(backlog) + 1
          /\ Queued' = Queued \cup {d}
          /\ \A x, y \in DOMAIN backlog' : backlog'[x] = backlog'[y] => x = y
      <4>1. /\ backlog \in Seq(Clients) /\ d \notin Queued
            /\ \A x, y \in DOMAIN backlog : backlog[x] = backlog[y] => x = y
        BY <2>1 DEF QueueInv
      <4> QED BY ONLY <2>3, <4>1, AppendQueue, d \in Clients, SMTT(30) DEF Queued
    <3>2. TypeOK'
      <4>1. Len(backlog') <= BACKLOG + 1
        BY <2>3, <3>1, CalcAssumption
      <4> QED BY <1>1, <2>1, <2>3, <3>1, <4>1
    <3>3. QueueInv' /\ ClientInv'
      BY <1>1, <2>1, <2>3, <3>1 DEF QueueInv, ClientInv
    <3>4. ServerInv'
      BY <1>1, <2>1, <2>3, <3>1 DEF ServerInv, ClientInv
    <3> QED BY <1>2, <3>2, <3>3, <3>4
  <2> QED BY <1>3, <2>2, <2>3 DEF Connect
<1>4. CASE Write(d) \/ Shutdown(d)
  <2>1. /\ UNCHANGED <<answer, backlog>>
        /\ \/ cpc[d] = "write" /\ cpc' = [cpc EXCEPT ![d] = "shutdown"]
           \/ cpc[d] = "write" /\ cpc' = [cpc EXCEPT ![d] = "broken"]
           \/ cpc[d] = "shutdown" /\ cpc' = [cpc EXCEPT ![d] = "read"]
    BY <1>4 DEF Write, Shutdown
  <2>2. Queued' = Queued
    BY <2>1, SameQueue
  <2>3. TypeOK'
    <3>1. cpc' \in [Clients -> {"connect", "write", "shutdown", "read", "done", "broken",
                               "refused", "unused"}]
      BY <2>1
    <3>2. UNCHANGED <<answer, backlog>>
      BY <2>1
    <3> QED BY <1>1, <3>1, <3>2
  <2>4. QueueInv' /\ ServerInv'
    <3>1. \A c \in Clients : cpc[c] \in Connected => cpc'[c] \in Connected
      BY <2>1
    <3>2. Queued \subseteq Clients /\ UNCHANGED backlog
      BY <2>1 DEF Queued
    <3> HIDE DEF Connected
    <3>3. QueueInv'
      BY <1>1, <2>2, <3>1, <3>2 DEF QueueInv
    <3>4. ServerInv'
      BY <1>1, <2>2, <3>1, <3>2 DEF ServerInv
    <3> QED BY <3>3, <3>4
  <2>5. ClientInv'
    BY <1>1, <2>1, <2>2 DEF ClientInv
  <2> QED BY <1>2, <2>3, <2>4, <2>5
<1>5. CASE ClientRead(d)
  <2>1. /\ cpc[d] = "read" /\ cpc' = [cpc EXCEPT ![d] = "done"] /\ UNCHANGED backlog
        /\ answer' = [answer EXCEPT ![d] = response[d]]
    BY <1>5 DEF ClientRead
  <2>2. Queued' = Queued
    BY <2>1, SameQueue
  <2>3. answer' = [c \in Clients |-> answer'[c]] /\ \A c \in Clients : answer'[c] \subseteq response[c]
    BY <2>1, ZenonT(30)
  <2>4. cpc' \in [Clients -> {"connect", "write", "shutdown", "read", "done", "broken", "refused", "unused"}]
    BY <2>1
  <2>5. TypeOK'
    BY <1>1, <2>1, <2>3, <2>4
  <2>6. QueueInv' /\ ServerInv' /\ ClientInv'
    BY <1>1, <2>1, <2>2 DEF QueueInv, ServerInv, ClientInv
  <2> QED BY <1>2, <2>5, <2>6
<1> QED BY <1>3, <1>4, <1>5 DEF Client

\* Before the server starts nobody waits, works or has an answer.
LEMMA FlowInit == Init => FlowInv
<1> SUFFICES ASSUME Init PROVE FlowInv
  OBVIOUS
<1>1. backlog \in Seq(Clients) /\ Len(backlog) = 0 /\ DOMAIN backlog = {} /\ Queued = {}
  BY DEF Init, Queued
<1>2. /\ response = [c \in Clients |-> response[c]] /\ answer = [c \in Clients |-> answer[c]]
      /\ \A c \in Clients : answer[c] \subseteq response[c]
  BY DEF Init
<1>3. cpc \in [Clients -> {"connect", "write", "shutdown", "read", "done", "broken", "refused", "unused"}]
  BY DEF Init
<1>4. reaping \in BOOLEAN /\ pending \in BOOLEAN
  BY Zenon DEF Init
<1>5. /\ spc = "start" /\ conn = "nobody" /\ Len(backlog) <= BACKLOG + 1
      /\ holds \in [Clients -> SUBSET {"server", "worker"}]
      /\ wpc \in [Clients -> {"none", "read", "evaluate", "exit", "zombie", "reaped"}]
  BY <1>1, CalcAssumption DEF Init, Nobody
<1>6. TypeOK
  BY <1>1, <1>2, <1>3, <1>4, <1>5 DEF TypeOK, Nobody
<1>7. QueueInv /\ ServerInv /\ ClientInv /\ WorkerInv
  BY <1>1 DEF Init, QueueInv, ServerInv, ClientInv, WorkerInv, Connected
<1> QED BY <1>6, <1>7 DEF FlowInv

\* Every step keeps the connections in order.
LEMMA FlowStep == FlowInv /\ [Next]_vars => FlowInv'
<1>1. FlowInv /\ UNCHANGED vars => FlowInv'
  BY DEF FlowInv, TypeOK, QueueInv, ServerInv, ClientInv, WorkerInv, Queued, vars
<1> QED BY <1>1, ServerStep, WorkerStep, ClientStep DEF Next

\* Whatever the clients ask, a connection is in the backlog, with the server or with its
\* own worker, in this order.
LEMMA FlowInductive == Spec => []FlowInv
  BY FlowInit, FlowStep, PTL DEF Spec

\* The variables keep their types, and the backlog of listen() its limit.
THEOREM CalcTypes == Spec => []TypeOK
<1>1. FlowInv => TypeOK
  BY DEF FlowInv
<1> QED BY <1>1, FlowInductive, PTL

-----------------------------------------------------------------------------
(* The answers.                                                            *)

\* A worker answers what it read, and its client reads that answer; the parser
\* computes the meaning of what was read.
LEMMA AnswerStep ==
  ASSUME \A text : Value(text) = Meaning(text), Meaning(<< >>) = {},
         FlowInv, AnswerInv, [Next]_vars
  PROVE  AnswerInv'
<1> USE DEF AnswerInv, AnswersMatch
<1>1. /\ wpc \in [Clients -> {"none", "read", "evaluate", "exit", "zombie", "reaped"}]
      /\ response = [c \in Clients |-> response[c]] /\ answer = [c \in Clients |-> answer[c]]
      /\ cpc \in [Clients -> {"connect", "write", "shutdown", "read", "done", "broken", "refused", "unused"}]
  BY DEF FlowInv, TypeOK
<1>2. request' = request
  BY DEF Next, Server, Listen, Accept, Fork, Close, EnterReap, ReapOne, LeaveReap, clientVars,
         Worker, WorkerRead, Evaluate, WorkerExit,
         Client, Connect, Write, Shutdown, ClientRead, vars
<1>3. \A c \in Clients : Received(c)' = Received(c)
  BY <1>2 DEF Received
<1>4. CASE Listen \/ Accept \/ Close \/ EnterReap \/ LeaveReap \/ UNCHANGED vars
  <2>1. UNCHANGED <<wpc, response, cpc, answer>> /\ (spc = "died" => spc' = "died")
    BY <1>4 DEF Listen, Accept, Close, EnterReap, LeaveReap, clientVars, vars
  <2> QED BY <1>3, <2>1
<1>5. CASE Fork
  <2>1. UNCHANGED <<response, cpc, answer>> /\ spc = "fork" /\ conn \in Clients /\ wpc[conn] = "none"
    BY <1>5 DEF Fork, clientVars, FlowInv, ServerInv
  <2>2. wpc' = wpc \/ wpc' = [wpc EXCEPT ![conn] = "read"]
    BY <1>5 DEF Fork
  <2> QED BY <1>1, <1>3, <2>1, <2>2
<1>6. ASSUME NEW w \in Clients, ReapOne(w) PROVE AnswerInv'
  BY <1>1, <1>3, <1>6 DEF ReapOne, clientVars
<1>7. ASSUME NEW w \in Clients, WorkerRead(w) PROVE AnswerInv'
  <2>1. /\ wpc[w] = "read"
        /\ wpc' = [wpc EXCEPT ![w] = IF HasSent(w) THEN "evaluate" ELSE "exit"]
        /\ UNCHANGED <<spc, response, cpc, answer>>
    BY <1>7 DEF WorkerRead, clientVars
  <2>2. ~HasSent(w) => Meaning(Received(w)) = {}
    <3>1. ~HasSent(w) => request[w] = << >>
      BY <1>7 DEF WorkerRead, HasSent, HasShutDown
    <3>2. Len(<< >>) <= READ_MAX
      BY CalcAssumption
    <3> QED BY <3>1, <3>2 DEF Received
  <2>3. response[w] = {}
    BY <2>1 DEF FlowInv, WorkerInv
  <2> QED BY <1>1, <1>3, <2>1, <2>2, <2>3, ZenonT(40)
<1>8. ASSUME NEW w \in Clients, Evaluate(w) PROVE AnswerInv'
  <2>1. /\ wpc[w] = "evaluate" /\ wpc' = [wpc EXCEPT ![w] = "exit"]
        /\ response' = [response EXCEPT ![w] = Meaning(Received(w))]
        /\ UNCHANGED <<spc, cpc, answer>>
    BY <1>8, ZenonT(30) DEF Evaluate, clientVars
  <2> QED BY <1>1, <1>3, <2>1
<1>9. ASSUME NEW w \in Clients, WorkerExit(w) PROVE AnswerInv'
  BY <1>1, <1>3, <1>9 DEF WorkerExit, clientVars
<1>10. ASSUME NEW d \in Clients, Connect(d) \/ Write(d) \/ Shutdown(d) PROVE AnswerInv'
  <2>1. UNCHANGED <<spc, wpc, response, answer>>
    BY <1>10 DEF Connect, Write, Shutdown
  <2>2. CASE \E v \in {"refused", "write", "shutdown", "read"} : cpc' = [cpc EXCEPT ![d] = v]
    BY <1>1, <1>3, <2>1, <2>2
  <2>3. CASE Gone(d) /\ cpc[d] = "write" /\ cpc' = [cpc EXCEPT ![d] = "broken"]
    <3>1. holds[d] = {} /\ d \notin Queued
      BY <2>3 DEF Gone, Waiting, Queued
    <3>2. wpc[d] = "none"
      BY <2>3, <3>1 DEF FlowInv, WorkerInv, ClientInv
    <3>3. spc = "died"
      BY <2>3, <3>1, <3>2 DEF FlowInv, ClientInv, ServerInv, Connected
    <3>4. answer[d] = {}
      BY <3>2 DEF FlowInv, TypeOK, WorkerInv
    <3> QED BY <1>1, <1>3, <2>1, <2>3, <3>2, <3>3, <3>4
  <2> QED BY <1>10, <2>2, <2>3 DEF Connect, Write, Shutdown
<1>11. ASSUME NEW d \in Clients, ClientRead(d) PROVE AnswerInv'
  <2>1. /\ cpc[d] = "read" /\ cpc' = [cpc EXCEPT ![d] = "done"]
        /\ answer' = [answer EXCEPT ![d] = response[d]]
        /\ response[d] # {} \/ (holds[d] = {} /\ d \notin Queued)
        /\ UNCHANGED <<spc, wpc, response>>
    BY <1>11 DEF ClientRead, Gone, Waiting, Queued
  <2>2. response[d] = Meaning(Received(d)) \/ (response[d] = {} /\ spc = "died" /\ wpc[d] = "none")
    <3>1. wpc[d] \in {"exit", "zombie", "reaped"} => response[d] = Meaning(Received(d))
      OBVIOUS
    <3>2. wpc[d] \notin {"read", "evaluate"}
      BY <2>1 DEF FlowInv, WorkerInv
    <3>3. wpc[d] = "none" => response[d] = {} /\ spc = "died"
      BY <2>1 DEF FlowInv, WorkerInv, ClientInv, ServerInv, Connected
    <3> QED BY <1>1, <3>1, <3>2, <3>3
  <2> QED BY <1>1, <1>3, <2>1, <2>2
<1> QED BY <1>4, <1>5, <1>6, <1>7, <1>8, <1>9, <1>10, <1>11 DEF Next, Server, Worker, Client

\* Every client's read returns what the beginning of its request means, and nothing if it
\* means nothing, whatever the number of clients and workers and whichever forks fail, given
\* that evaluate() computes the meaning of a text and that the empty text has none.
THEOREM AnswersCorrect ==
  ASSUME \A text : Value(text) = Meaning(text), Meaning(<< >>) = {}
  PROVE  Spec => []AnswersMatch
<1>1. Init => AnswerInv
  BY DEF Init, AnswerInv, AnswersMatch
<1>2. FlowInv /\ AnswerInv /\ [Next]_vars => AnswerInv'
  BY AnswerStep
<1>3. AnswerInv => AnswersMatch
  BY DEF AnswerInv
<1> QED BY <1>1, <1>2, <1>3, FlowInductive, PTL DEF Spec

-----------------------------------------------------------------------------
(* The zombies.                                                            *)

\* No dead worker is forgotten by reap(), although SIGCHLD is only one bit: a worker that
\* ends sets it, and the handler that has cleared it returns only when waitpid finds none.
THEOREM ZombiesFound == Spec => []ZombiesAnnounced
<1> DEFINE ZInv == wpc = [c \in Clients |-> wpc[c]] /\ ZombiesAnnounced
<1>1. Init => ZInv
  BY DEF Init, ZombiesAnnounced
<1>2. ZInv /\ [Next]_vars => ZInv'
  <2> SUFFICES ASSUME ZInv, [Next]_vars PROVE ZInv'
    OBVIOUS
  <2> USE DEF ZombiesAnnounced
  <2>1. CASE Listen \/ Accept \/ Close \/ EnterReap \/ LeaveReap
    BY <2>1 DEF Listen, Accept, Close, EnterReap, LeaveReap
  <2>2. CASE Fork
    BY <2>2 DEF Fork
  <2>3. ASSUME NEW c \in Clients, ReapOne(c) PROVE ZInv'
    BY <2>3 DEF ReapOne
  <2>4. ASSUME NEW c \in Clients, Worker(c) PROVE ZInv'
    <3>1. CASE WorkerRead(c) \/ Evaluate(c)
      BY <3>1 DEF WorkerRead, Evaluate
    <3>2. CASE WorkerExit(c)
      <4>1. wpc' = [wpc EXCEPT ![c] = "zombie"] /\ UNCHANGED spc
        BY <3>2 DEF WorkerExit
      <4>2. spc' # "died" => pending'
        BY <3>2, Zenon DEF WorkerExit
      <4> QED BY <4>1, <4>2
    <3> QED BY <2>4, <3>1, <3>2 DEF Worker
  <2>5. ASSUME NEW c \in Clients, Client(c) PROVE ZInv'
    BY <2>5 DEF Client, Connect, Write, Shutdown, ClientRead
  <2>6. CASE UNCHANGED vars
    BY <2>6 DEF vars
  <2> QED BY <2>1, <2>2, <2>3, <2>4, <2>5, <2>6 DEF Next, Server
<1> QED BY <1>1, <1>2, PTL DEF Spec

-----------------------------------------------------------------------------
(* Termination.  ClientsEnd and WorkersReaped need fairness and are model-  *)
(* checked; what they rest on does not.                                    *)

\* Steps that client c still makes, that the server makes for it (accept, fork,
\* close), and that its worker makes, being reaped included.
ClientLeft(c) == CASE cpc[c] = "connect"  -> 4
                   [] cpc[c] = "write"    -> 3
                   [] cpc[c] = "shutdown" -> 2
                   [] cpc[c] = "read"     -> 1
                   [] OTHER               -> 0
ServerLeft(c) == IF cpc[c] = "connect" \/ c \in Queued THEN 3
                 ELSE IF conn # c THEN 0
                 ELSE CASE spc = "fork"  -> 2
                        [] spc = "close" -> 1
                        [] OTHER         -> 0
WorkerLeft(c) == IF cpc[c] \in {"refused", "unused"} THEN 0
                 ELSE CASE wpc[c] \in {"none", "read"} -> 4
                        [] wpc[c] = "evaluate"         -> 3
                        [] wpc[c] = "exit"             -> 2
                        [] wpc[c] = "zombie"           -> 1
                        [] OTHER                       -> 0
WorkLeft(c) == ClientLeft(c) + ServerLeft(c) + WorkerLeft(c)

\* The same for all clients, as a set of (client, step) pairs.
StepsToMake == {s \in Clients \X (1 .. 11) : s[2] <= WorkLeft(s[1])}

\* Every worker still to end may make reap() run once more: it is entered and left.
ToExit == {c \in Clients : /\ wpc[c] \in {"none", "read", "evaluate", "exit"}
                           /\ cpc[c] \notin {"refused", "unused"}}
SignalLeft == (IF pending THEN 2 ELSE 0) + (IF reaping THEN 1 ELSE 0)
ListenLeft == IF spc = "start" THEN 1 ELSE 0

StepsLeft == Cardinality(StepsToMake) + 2 * Cardinality(ToExit) + SignalLeft + ListenLeft

\* The work for one client is between 0 and 11 steps.
WorkOK == \A c \in Clients : WorkLeft(c) \in 0 .. 11

\* It is, in any state.
LEMMA WorkBound == WorkOK
<1> SUFFICES ASSUME NEW c \in Clients PROVE WorkLeft(c) \in 0 .. 11
  BY ZenonT(40) DEF WorkOK
<1>1. ClientLeft(c) \in 0 .. 4
  BY DEF ClientLeft
<1>2. ServerLeft(c) \in 0 .. 3
  BY DEF ServerLeft
<1>3. WorkerLeft(c) \in 0 .. 4
  BY DEF WorkerLeft
<1> QED BY <1>1, <1>2, <1>3 DEF WorkLeft

\* The parts of the work for client c, before and after a step.
Falls(c) == /\ ClientLeft(c)' <= ClientLeft(c) /\ ServerLeft(c)' <= ServerLeft(c)
            /\ WorkerLeft(c)' <= WorkerLeft(c)
FallsStrictly(c) == /\ Falls(c)
                    /\ \/ ClientLeft(c)' < ClientLeft(c) \/ ServerLeft(c)' < ServerLeft(c)
                       \/ WorkerLeft(c)' < WorkerLeft(c)

\* The sum falls with its parts.
LEMMA WorkFalls ==
  \A c \in Clients : /\ Falls(c) => WorkLeft(c)' <= WorkLeft(c)
                     /\ FallsStrictly(c) => WorkLeft(c)' < WorkLeft(c)
<1> SUFFICES ASSUME NEW c \in Clients
             PROVE  /\ Falls(c) => WorkLeft(c)' <= WorkLeft(c)
                    /\ FallsStrictly(c) => WorkLeft(c)' < WorkLeft(c)
  OBVIOUS
<1>1. ClientLeft(c) \in Nat /\ ClientLeft(c)' \in Nat
  BY DEF ClientLeft
<1>2. ServerLeft(c) \in Nat /\ ServerLeft(c)' \in Nat
  BY DEF ServerLeft
<1>3. WorkerLeft(c) \in Nat /\ WorkerLeft(c)' \in Nat
  BY DEF WorkerLeft
<1>4. \A x, y, z, x1, y1, z1 \in Nat : x1 <= x /\ y1 <= y /\ z1 <= z =>
        /\ x1 + y1 + z1 <= x + y + z
        /\ x1 < x \/ y1 < y \/ z1 < z => x1 + y1 + z1 < x + y + z
  OBVIOUS
<1> QED BY <1>1, <1>2, <1>3, <1>4, ZenonT(40) DEF WorkLeft, Falls, FallsStrictly

\* A step for one client lowers the work for it and raises it for nobody.
LEMMA ServerWork ==
  ASSUME FlowInv, Accept \/ Fork \/ Close \/ \E c \in Clients : ReapOne(c)
  PROVE  (\E c \in Clients : FallsStrictly(c)) /\ \A d \in Clients : Falls(d)
<1>1. /\ wpc \in [Clients -> {"none", "read", "evaluate", "exit", "zombie", "reaped"}]
      /\ cpc' = cpc
  BY DEF FlowInv, TypeOK, Accept, Fork, Close, ReapOne, clientVars
<1>2. \A d \in Clients : ClientLeft(d)' = ClientLeft(d) /\ ClientLeft(d) \in Nat
  BY <1>1 DEF ClientLeft
<1> USE <1>1, <1>2 DEF Falls, FallsStrictly
<1>3. CASE Accept
  <2>1. PICK c \in Clients : c = Head(backlog) /\ c \in Queued /\ Queued' = Queued \ {c}
    BY <1>3, AcceptTakes
  <2>2. spc = "accept" /\ spc' = "fork" /\ conn' = c /\ wpc' = wpc
    BY <1>3, <2>1 DEF Accept
  <2>3. \A d \in Clients : WorkerLeft(d)' = WorkerLeft(d) /\ WorkerLeft(d) \in Nat
    BY <2>2 DEF WorkerLeft
  <2>4. cpc[c] # "connect"
    BY <2>1 DEF FlowInv, QueueInv, Connected
  <2>5. ServerLeft(c) = 3 /\ ServerLeft(c)' = 2
    BY <2>1, <2>2, <2>4 DEF ServerLeft
  <2>6. \A d \in Clients : d # c => ServerLeft(d)' = ServerLeft(d) /\ ServerLeft(d) \in Nat
    BY <2>1, <2>2 DEF ServerLeft
  <2> QED BY <2>1, <2>3, <2>5, <2>6
<1>4. CASE Fork
  <2>1. /\ spc = "fork" /\ conn \in Clients /\ conn \notin Queued /\ conn' = conn
        /\ wpc[conn] = "none" /\ cpc[conn] # "connect"
    BY <1>4 DEF Fork, FlowInv, ServerInv, Connected
  <2>2. spc' \in {"close", "died"} /\ (wpc' = wpc \/ wpc' = [wpc EXCEPT ![conn] = "read"])
    BY <1>4 DEF Fork
  <2>3. Queued' \subseteq Queued
    BY <1>4 DEF Fork, Queued
  <2>4. \A d \in Clients : WorkerLeft(d)' = WorkerLeft(d) /\ WorkerLeft(d) \in Nat
    BY <2>1, <2>2 DEF WorkerLeft
  <2>5. ServerLeft(conn) = 2 /\ ServerLeft(conn)' \in {0, 1}
    BY <2>1, <2>2, <2>3 DEF ServerLeft
  <2>6. \A d \in Clients : d # conn => ServerLeft(d)' <= ServerLeft(d)
    BY <2>1, <2>2, <2>3 DEF ServerLeft
  <2> QED BY <2>1, <2>4, <2>5, <2>6
<1>5. CASE Close
  <2>1. /\ spc = "close" /\ conn \in Clients /\ conn \notin Queued /\ conn' = conn
        /\ spc' = "accept" /\ wpc' = wpc /\ cpc[conn] # "connect"
    BY <1>5 DEF Close, FlowInv, ServerInv, QueueInv, ClientInv, Connected
  <2>2. Queued' = Queued
    BY <1>5, SameQueue DEF Close
  <2>3. \A d \in Clients : WorkerLeft(d)' = WorkerLeft(d) /\ WorkerLeft(d) \in Nat
    BY <2>1 DEF WorkerLeft
  <2>4. ServerLeft(conn) = 1 /\ ServerLeft(conn)' = 0
    BY <2>1, <2>2 DEF ServerLeft
  <2>5. \A d \in Clients : d # conn => ServerLeft(d)' = ServerLeft(d) /\ ServerLeft(d) \in Nat
    BY <2>1, <2>2 DEF ServerLeft
  <2> QED BY <2>1, <2>3, <2>4, <2>5
<1>6. ASSUME NEW c \in Clients, ReapOne(c)
      PROVE  (\E d \in Clients : FallsStrictly(d)) /\ \A d \in Clients : Falls(d)
  <2>1. wpc[c] = "zombie" /\ wpc' = [wpc EXCEPT ![c] = "reaped"] /\ UNCHANGED <<spc, conn, backlog>>
    BY <1>6 DEF ReapOne
  <2>2. \A d \in Clients : ServerLeft(d)' = ServerLeft(d) /\ ServerLeft(d) \in Nat
    BY <2>1, SameQueue DEF ServerLeft
  <2>3. cpc[c] \notin {"refused", "unused"}
    BY <2>1 DEF FlowInv, ClientInv, Connected
  <2>4. WorkerLeft(c) = 1 /\ WorkerLeft(c)' = 0
    BY <2>1, <2>3 DEF WorkerLeft
  <2>5. \A d \in Clients : d # c => WorkerLeft(d)' = WorkerLeft(d) /\ WorkerLeft(d) \in Nat
    BY <2>1 DEF WorkerLeft
  <2> QED BY <2>2, <2>4, <2>5
<1> QED BY <1>3, <1>4, <1>5, <1>6

\* The same for the steps of a worker and of a client.
LEMMA ClientWork ==
  ASSUME FlowInv, NEW c \in Clients, Worker(c) \/ Client(c)
  PROVE  FallsStrictly(c) /\ \A d \in Clients : Falls(d)
<1>1. /\ wpc \in [Clients -> {"none", "read", "evaluate", "exit", "zombie", "reaped"}]
      /\ cpc \in [Clients -> {"connect", "write", "shutdown", "read", "done", "broken", "refused", "unused"}]
      /\ spc' = spc /\ conn' = conn
  BY DEF FlowInv, TypeOK, Worker, WorkerRead, Evaluate, WorkerExit,
         Client, Connect, Write, Shutdown, ClientRead
<1>2. \A d \in Clients : ClientLeft(d) \in Nat /\ ServerLeft(d) \in Nat /\ WorkerLeft(d) \in Nat
  BY DEF ClientLeft, ServerLeft, WorkerLeft
<1>3. ASSUME Worker(c) PROVE FallsStrictly(c) /\ \A d \in Clients : Falls(d)
  <2>1. cpc' = cpc /\ Queued' = Queued
    BY <1>3, SameQueue DEF Worker, WorkerRead, Evaluate, WorkerExit, clientVars
  <2>2. \A d \in Clients : ClientLeft(d)' = ClientLeft(d) /\ ServerLeft(d)' = ServerLeft(d)
    BY <1>1, <2>1 DEF ClientLeft, ServerLeft
  <2>3. \/ wpc[c] = "read" /\ wpc' = [wpc EXCEPT ![c] = "evaluate"]
        \/ wpc[c] = "read" /\ wpc' = [wpc EXCEPT ![c] = "exit"]
        \/ wpc[c] = "evaluate" /\ wpc' = [wpc EXCEPT ![c] = "exit"]
        \/ wpc[c] = "exit" /\ wpc' = [wpc EXCEPT ![c] = "zombie"]
    BY <1>3 DEF Worker, WorkerRead, Evaluate, WorkerExit
  <2>4. cpc[c] \notin {"refused", "unused"}
    BY <2>3 DEF FlowInv, ClientInv, Connected
  <2>5. WorkerLeft(c)' < WorkerLeft(c)
    BY <1>1, <2>1, <2>3, <2>4 DEF WorkerLeft
  <2>6. \A d \in Clients : d # c => WorkerLeft(d)' = WorkerLeft(d)
    BY <1>1, <2>1, <2>3 DEF WorkerLeft
  <2>7. \A d \in Clients : Falls(d)
    BY <1>2, <2>2, <2>5, <2>6 DEF Falls, WorkerLeft
  <2> QED BY <2>5, <2>7 DEF FallsStrictly
<1>4. ASSUME Client(c) PROVE FallsStrictly(c) /\ \A d \in Clients : Falls(d)
  <2>1. wpc' = wpc
    BY <1>4 DEF Client, Connect, Write, Shutdown, ClientRead
  <2>2. \/ cpc[c] = "connect" /\ cpc' = [cpc EXCEPT ![c] = "refused"] /\ Queued' = Queued
        \/ cpc[c] = "connect" /\ cpc' = [cpc EXCEPT ![c] = "write"] /\ Queued' = Queued \cup {c}
        \/ cpc[c] = "write" /\ cpc' = [cpc EXCEPT ![c] = "shutdown"] /\ Queued' = Queued
        \/ cpc[c] = "write" /\ cpc' = [cpc EXCEPT ![c] = "broken"] /\ Queued' = Queued
        \/ cpc[c] = "shutdown" /\ cpc' = [cpc EXCEPT ![c] = "read"] /\ Queued' = Queued
        \/ cpc[c] = "read" /\ cpc' = [cpc EXCEPT ![c] = "done"] /\ Queued' = Queued
    <3>1. backlog \in Seq(Clients)
      BY DEF FlowInv, TypeOK
    <3>2. backlog' = Append(backlog, c) => Queued' = Queued \cup {c}
      BY ONLY <3>1, AppendQueue, c \in Clients, SMTT(30) DEF Queued
    <3> QED BY <1>4, <3>2, SameQueue, SMTT(30) DEF Client, Connect, Write, Shutdown, ClientRead
  <2>3. ClientLeft(c)' < ClientLeft(c) /\ \A d \in Clients : d # c => ClientLeft(d)' = ClientLeft(d)
    BY <1>1, <2>2 DEF ClientLeft
  <2>4. \A d \in Clients : ServerLeft(d)' <= ServerLeft(d)
    <3>1. ASSUME NEW d \in Clients, d # c PROVE ServerLeft(d)' = ServerLeft(d)
      BY <1>1, <2>2, <3>1 DEF ServerLeft
    <3>2. ServerLeft(c)' <= ServerLeft(c)
      BY <1>1, <2>2 DEF ServerLeft
    <3> QED BY <1>2, <3>1, <3>2
  <2>5. \A d \in Clients : WorkerLeft(d)' <= WorkerLeft(d)
    BY <1>1, <2>1, <2>2 DEF WorkerLeft
  <2>6. \A d \in Clients : ClientLeft(d)' <= ClientLeft(d)
    BY <1>2, <2>3 DEF ClientLeft
  <2> QED BY <2>3, <2>4, <2>5, <2>6 DEF Falls, FallsStrictly
<1> QED BY <1>3, <1>4

\* The steps of the server that are for nobody.
LEMMA OtherWork ==
  ASSUME FlowInv, Listen \/ EnterReap \/ LeaveReap
  PROVE  StepsToMake' = StepsToMake /\ ToExit' = ToExit
<1>1. UNCHANGED <<conn, backlog, wpc, cpc>> /\ (spc = spc' \/ (spc = "start" /\ spc' = "accept"))
  BY DEF Listen, EnterReap, LeaveReap, clientVars
<1>2. \A c \in Clients : ServerLeft(c)' = ServerLeft(c)
  BY <1>1, SameQueue DEF ServerLeft
<1>3. \A c \in Clients : ClientLeft(c)' = ClientLeft(c) /\ WorkerLeft(c)' = WorkerLeft(c)
  BY <1>1 DEF ClientLeft, WorkerLeft
<1>4. \A c \in Clients : WorkLeft(c)' = WorkLeft(c)
  BY <1>2, <1>3 DEF WorkLeft
<1>5. StepsToMake' = StepsToMake
  BY <1>4 DEF StepsToMake
<1> QED BY <1>1, <1>5 DEF ToExit

\* If the work for some client falls and rises for nobody, fewer steps are to be made.
LEMMA StepsToMakeShrinks ==
  ASSUME IsFiniteSet(Clients), NEW c \in Clients, FallsStrictly(c), \A d \in Clients : Falls(d)
  PROVE  Cardinality(StepsToMake') < Cardinality(StepsToMake)
<1> DEFINE All == Clients \X (1 .. 11)
<1>1. IsFiniteSet(All)
  <2>1. \A k \in Nat : IsFiniteSet(1 .. k)
    BY FS_Interval
  <2>2. IsFiniteSet(1 .. 11)
    BY <2>1, ZenonT(40)
  <2> QED BY <2>2, FS_Product, ZenonT(40)
<1>2. StepsToMake \in SUBSET All /\ IsFiniteSet(StepsToMake)
  BY <1>1, FS_Subset DEF StepsToMake
<1>3. \A d \in Clients : WorkLeft(d) \in 0 .. 11
  BY WorkBound, ZenonT(40) DEF WorkOK
<1>4. \A d \in Clients : WorkLeft(d)' \in 0 .. 11
  <2>1. WorkOK'
    BY WorkBound, PTL
  <2> QED BY <2>1, ZenonT(40) DEF WorkOK
<1>5. WorkLeft(c)' < WorkLeft(c) /\ \A d \in Clients : WorkLeft(d)' <= WorkLeft(d)
  BY WorkFalls
<1>6. StepsToMake' = {s \in All : s[2] <= WorkLeft(s[1])'}
  BY DEF StepsToMake
<1>7. StepsToMake' \in SUBSET StepsToMake
  <2> SUFFICES ASSUME NEW s \in All, s[2] <= WorkLeft(s[1])'
               PROVE  s[2] <= WorkLeft(s[1])
    BY <1>6 DEF StepsToMake
  <2>1. s[1] \in Clients /\ s[2] \in Nat
    OBVIOUS
  <2> QED BY <1>3, <1>4, <1>5, <2>1
<1> DEFINE last == <<c, WorkLeft(c)>>
<1>8. last \in StepsToMake /\ last \notin StepsToMake'
  <2>1. WorkLeft(c) \in 1 .. 11
    BY <1>3, <1>4, <1>5
  <2>2. last \in All /\ last[1] = c /\ last[2] = WorkLeft(c)
    BY <2>1
  <2> QED BY <1>3, <1>4, <1>5, <1>6, <2>1, <2>2 DEF StepsToMake
<1>9. /\ Cardinality(StepsToMake') <= Cardinality(StepsToMake)
      /\ Cardinality(StepsToMake') # Cardinality(StepsToMake)
      /\ Cardinality(StepsToMake') \in Nat /\ Cardinality(StepsToMake) \in Nat
  BY <1>2, <1>7, <1>8, FS_Subset, FS_CardinalityType, ZenonT(40)
<1> QED BY <1>9

\* Workers still to end become fewer: by one when a worker ends.
LEMMA ToExitSteps ==
  ASSUME FlowInv, [Next]_vars, IsFiniteSet(Clients)
  PROVE  /\ Cardinality(ToExit) \in Nat /\ Cardinality(ToExit') \in Nat
         /\ Cardinality(ToExit') <= Cardinality(ToExit)
         /\ \A c \in Clients : WorkerExit(c) => Cardinality(ToExit') = Cardinality(ToExit) - 1
<1>1. /\ wpc \in [Clients -> {"none", "read", "evaluate", "exit", "zombie", "reaped"}]
      /\ cpc \in [Clients -> {"connect", "write", "shutdown", "read", "done", "broken", "refused", "unused"}]
  BY DEF FlowInv, TypeOK
<1>2. \A c \in Clients : wpc[c] \in {"zombie", "reaped"} => wpc'[c] \in {"zombie", "reaped"}
  <2>1. CASE Fork
    BY <1>1, <2>1 DEF Fork, FlowInv, ServerInv
  <2>2. CASE \E d \in Clients : ReapOne(d) \/ Worker(d)
    BY <1>1, <2>2 DEF ReapOne, Worker, WorkerRead, Evaluate, WorkerExit
  <2>3. CASE UNCHANGED wpc
    BY <2>3
  <2> QED BY <2>1, <2>2, <2>3, SMTT(30) DEF Next, Server, Listen, Accept, Close, EnterReap, LeaveReap,
                              Client, Connect, Write, Shutdown, ClientRead, vars
<1>3. \A c \in Clients : cpc[c] \in {"refused", "unused"} => cpc'[c] = cpc[c]
  <2>1. CASE UNCHANGED cpc
    BY <2>1
  <2>2. CASE \E d \in Clients : Client(d)
    BY <1>1, <2>2 DEF Client, Connect, Write, Shutdown, ClientRead
  <2> QED BY <2>1, <2>2, ZenonT(40) DEF Next, Server, Listen, Accept, Fork, Close, EnterReap, ReapOne, LeaveReap,
                            Worker, WorkerRead, Evaluate, WorkerExit, clientVars, vars
<1>4. IsFiniteSet(ToExit) /\ Cardinality(ToExit) \in Nat
  BY FS_Subset, FS_CardinalityType DEF ToExit
<1>5. ToExit' \in SUBSET ToExit
  BY <1>1, <1>2, <1>3 DEF ToExit
<1>6. Cardinality(ToExit') \in Nat /\ Cardinality(ToExit') <= Cardinality(ToExit)
  BY <1>4, <1>5, FS_Subset, FS_CardinalityType, ZenonT(40)
<1>7. ASSUME NEW c \in Clients, WorkerExit(c)
      PROVE  Cardinality(ToExit') = Cardinality(ToExit) - 1
  <2>1. wpc[c] = "exit" /\ wpc' = [wpc EXCEPT ![c] = "zombie"] /\ cpc' = cpc
    BY <1>7 DEF WorkerExit, clientVars
  <2>2. cpc[c] \notin {"refused", "unused"}
    BY <2>1 DEF FlowInv, ClientInv, Connected
  <2>3. ToExit' = ToExit \ {c} /\ c \in ToExit
    BY <1>1, <2>1, <2>2 DEF ToExit
  <2> QED BY <1>4, <2>3, FS_RemoveElement, ZenonT(40)
<1> QED BY <1>4, <1>6, <1>7

\* What is left of the handler's runs changes only when it is entered or left,
\* or when a worker ends.
LEMMA SignalSteps ==
  ASSUME FlowInv, [Next]_vars
  PROVE  /\ SignalLeft \in Nat /\ SignalLeft' \in Nat
         /\ EnterReap \/ LeaveReap => SignalLeft' < SignalLeft
         /\ (\E c \in Clients : WorkerExit(c)) => SignalLeft' <= SignalLeft + 2
         /\ \/ EnterReap \/ LeaveReap \/ \E c \in Clients : WorkerExit(c)
            \/ SignalLeft' = SignalLeft
<1>1. SignalLeft \in {0, 1, 2, 3}
  BY DEF SignalLeft
<1>2. SignalLeft' \in {0, 1, 2, 3}
  BY DEF SignalLeft
<1>3. ASSUME EnterReap PROVE SignalLeft = 2 /\ SignalLeft' = 1
  <2>1. pending /\ ~reaping /\ ~pending' /\ reaping'
    BY <1>3, Zenon DEF EnterReap
  <2> QED BY <2>1 DEF SignalLeft
<1>4. ASSUME LeaveReap PROVE SignalLeft' = SignalLeft - 1
  <2>1. reaping /\ ~reaping' /\ pending' = pending
    BY <1>4, Zenon DEF LeaveReap
  <2> QED BY <2>1 DEF SignalLeft
<1>5. ASSUME NEW c \in Clients, WorkerExit(c) PROVE SignalLeft' <= SignalLeft + 2
  <2>1. reaping' = reaping
    BY <1>5 DEF WorkerExit
  <2> QED BY <2>1 DEF SignalLeft
<1>6. \/ EnterReap \/ LeaveReap \/ \E c \in Clients : WorkerExit(c)
      \/ SignalLeft' = SignalLeft
  <2>1. UNCHANGED <<pending, reaping>> => SignalLeft' = SignalLeft
    BY DEF SignalLeft
  <2> QED BY <2>1, SMTT(30) DEF Next, Server, Listen, Accept, Fork, Close, ReapOne, Worker, WorkerRead,
                      Evaluate, Client, Connect, Write, Shutdown, ClientRead, vars
<1> QED BY <1>1, <1>2, <1>3, <1>4, <1>5, <1>6

\* The server, its workers and finitely many clients together make only so many
\* steps, whatever is asked, however signals merge and whichever forks fail.
THEOREM CalcStepsRunOut ==
  ASSUME IsFiniteSet(Clients)
  PROVE  Spec => [](StepsLeft \in Nat) /\ [][StepsLeft' < StepsLeft]_vars
<1> DEFINE a == Cardinality(StepsToMake)
           e == Cardinality(ToExit)
<1>1. a \in Nat /\ e \in Nat
  <2>1. \A k \in Nat : IsFiniteSet(1 .. k)
    BY FS_Interval
  <2>2. IsFiniteSet(1 .. 11)
    BY <2>1, ZenonT(40)
  <2>3. IsFiniteSet(Clients \X (1 .. 11))
    BY <2>2, FS_Product, ZenonT(40)
  <2> QED BY <2>3, FS_Subset, FS_CardinalityType DEF StepsToMake, ToExit
<1>2. SignalLeft \in Nat /\ ListenLeft \in Nat
  BY DEF SignalLeft, ListenLeft
<1>3. StepsLeft \in Nat
  <2>1. \A x, y, z, u \in Nat : x + 2 * y + z + u \in Nat
    OBVIOUS
  <2> QED BY <1>1, <1>2, <2>1, ZenonT(40) DEF StepsLeft
<1>4. FlowInv /\ [Next]_vars => [StepsLeft' < StepsLeft]_vars
  <2> SUFFICES ASSUME FlowInv, Next PROVE StepsLeft' < StepsLeft
    OBVIOUS
  <2> DEFINE g == SignalLeft
             l == ListenLeft
  <2>1. a' \in Nat /\ e' \in Nat /\ g' \in Nat /\ l' \in Nat
    <3>1. (a \in Nat /\ e \in Nat)'
      BY <1>1, PTL
    <3> QED BY <3>1 DEF SignalLeft, ListenLeft
  <2>2. e' <= e
    BY ToExitSteps
  <2>3. /\ EnterReap \/ LeaveReap => g' < g
        /\ (\E c \in Clients : WorkerExit(c)) => g' <= g + 2 /\ e' = e - 1
        /\ EnterReap \/ LeaveReap \/ (\E c \in Clients : WorkerExit(c)) \/ g' = g
    BY SignalSteps, ToExitSteps
  <2>4. /\ l' <= l
        /\ Listen => l' < l
    <3>1. Server => spc' = spc \/ spc' # "start"
      BY DEF Server, Listen, Accept, Fork, Close, EnterReap, ReapOne, LeaveReap
    <3>2. ASSUME NEW c \in Clients, Worker(c) \/ Client(c) PROVE spc' = spc
      BY <3>2 DEF Worker, WorkerRead, Evaluate, WorkerExit, Client, Connect, Write, Shutdown, ClientRead
    <3>3. spc' = spc \/ spc' # "start"
      BY <3>1, <3>2 DEF Next
    <3>4. Listen => spc = "start" /\ spc' = "accept"
      BY DEF Listen
    <3> QED BY <3>3, <3>4 DEF ListenLeft
  <2>5. Listen \/ EnterReap \/ LeaveReap \/ a' < a
    BY ServerWork, ClientWork, StepsToMakeShrinks DEF Next, Server
  <2>6. Listen \/ EnterReap \/ LeaveReap => a' = a
    BY OtherWork
  <2>7. Listen => g' = g
    BY DEF Listen, SignalLeft
  <2>8. \A x, y, z, u, x1, y1, z1, u1 \in Nat :
          /\ y1 <= y /\ u1 <= u
          /\ \/ x1 = x /\ z1 = z /\ u1 < u
             \/ x1 = x /\ z1 < z
             \/ x1 < x /\ z1 = z
             \/ x1 < x /\ z1 <= z + 2 /\ y1 = y - 1
          => x1 + 2 * y1 + z1 + u1 < x + 2 * y + z + u
    OBVIOUS
  <2>9. a' + 2 * e' + g' + l' < a + 2 * e + g + l
    <3> HIDE DEF a, e, g, l
    <3>1. CASE Listen
      BY <1>1, <1>2, <2>1, <2>2, <2>4, <2>6, <2>7, <2>8, <3>1, ZenonT(40) DEF g, l
    <3>2. CASE EnterReap \/ LeaveReap
      BY <1>1, <1>2, <2>1, <2>2, <2>3, <2>4, <2>6, <2>8, <3>2, ZenonT(40) DEF g, l
    <3>3. CASE ~(Listen \/ EnterReap \/ LeaveReap)
      BY <1>1, <1>2, <2>1, <2>2, <2>3, <2>4, <2>5, <2>8, <3>3, ZenonT(40) DEF g, l
    <3> QED BY <3>1, <3>2, <3>3
  <2> QED BY <2>9, ZenonT(40) DEF StepsLeft
<1> QED BY <1>3, <1>4, FlowInductive, PTL DEF Spec

\* Thirteen steps for each client that asks: connect, write, shutdown and read of its
\* own, accept, fork and close, the three of its worker, and a run of reap() that finds
\* it.  The first step is the server's listen().
LEMMA StepsAtStart ==
  ASSUME IsFiniteSet(Clients), Init
  PROVE  StepsLeft = 13 * Cardinality({c \in Clients : request[c] # NoRequest}) + 1
<1> DEFINE Asking == {c \in Clients : request[c] # NoRequest}
<1>1. \A c \in Clients : WorkLeft(c) = IF c \in Asking THEN 11 ELSE 0
  <2> SUFFICES ASSUME NEW c \in Clients PROVE WorkLeft(c) = IF c \in Asking THEN 11 ELSE 0
    BY ZenonT(40)
  <2>1. /\ cpc[c] = IF c \in Asking THEN "connect" ELSE "unused"
        /\ wpc[c] = "none" /\ Queued = {} /\ spc = "start"
    BY DEF Init, Queued
  <2>2. CASE c \in Asking
    BY <2>1, <2>2 DEF WorkLeft, ClientLeft, ServerLeft, WorkerLeft
  <2>3. CASE c \notin Asking
    BY <2>1, <2>3 DEF WorkLeft, ClientLeft, ServerLeft, WorkerLeft
  <2> QED BY <2>2, <2>3
<1>2. StepsToMake = Asking \X (1 .. 11)
  <2>1. ASSUME NEW s \in Clients \X (1 .. 11) PROVE s[2] <= WorkLeft(s[1]) <=> s[1] \in Asking
    <3>1. s[1] \in Clients /\ s[2] \in 1 .. 11
      OBVIOUS
    <3> HIDE DEF Asking
    <3>2. CASE s[1] \in Asking
      BY <1>1, <3>1, <3>2
    <3>3. CASE s[1] \notin Asking
      BY <1>1, <3>1, <3>3
    <3> QED BY <3>2, <3>3
  <2> QED BY <2>1 DEF StepsToMake
<1>3. IsFiniteSet(Asking) /\ Cardinality(Asking) \in Nat
  BY FS_Subset, FS_CardinalityType
<1>4. Cardinality(StepsToMake) = Cardinality(Asking) * 11
  <2>1. \A k \in Nat : IsFiniteSet(1 .. k) /\ Cardinality(1 .. k) = k
    BY FS_Interval
  <2>2. IsFiniteSet(1 .. 11) /\ Cardinality(1 .. 11) = 11
    BY <2>1, ZenonT(40)
  <2> HIDE DEF Asking
  <2> QED BY <1>2, <1>3, <2>2, FS_Product, ZenonT(40)
<1>5. ToExit = Asking
  BY DEF Init, ToExit
<1>6. SignalLeft = 0 /\ ListenLeft = 1
  BY DEF Init, SignalLeft, ListenLeft
<1> HIDE DEF Asking
<1>7. StepsLeft = 13 * Cardinality(Asking) + 1
  BY <1>3, <1>4, <1>5, <1>6 DEF StepsLeft
<1> QED BY <1>7 DEF Asking

\* The conditions under which the next call of a process returns.
ServerCanStep == \/ spc \in {"start", "fork", "close"}
                 \/ spc = "accept" /\ backlog # << >>
                 \/ pending /\ spc # "died"
                 \/ reaping
WorkerCanStep(c) == \/ wpc[c] = "read" /\ (HasSent(c) \/ HasShutDown(c))
                    \/ wpc[c] \in {"evaluate", "exit"}
ClientCanStep(c) == \/ cpc[c] = "connect" /\ (spc \in {"start", "died"} \/ Len(backlog) <= BACKLOG)
                    \/ cpc[c] \in {"write", "shutdown"}
                    \/ cpc[c] = "read" /\ (response[c] # {} \/ Gone(c))

\* No client is left waiting, not even for room in the backlog: until it has ended it can
\* go on itself, or its own worker or the server can - never does it depend on another
\* client or another client's worker, and never do the processes wait for each other.
THEOREM NoClientWaits ==
  Spec => [](\A c \in Clients : \/ cpc[c] \in {"done", "broken", "refused", "unused"}
                                \/ ClientCanStep(c) \/ WorkerCanStep(c) \/ ServerCanStep)
<1> DEFINE Free == \A c \in Clients : \/ cpc[c] \in {"done", "broken", "refused", "unused"}
                                      \/ ClientCanStep(c) \/ WorkerCanStep(c) \/ ServerCanStep
<1>1. FlowInv => Free
  <2> SUFFICES ASSUME FlowInv, NEW c \in Clients,
                      cpc[c] \notin {"done", "broken", "refused", "unused"},
                      ~ClientCanStep(c), ~ServerCanStep
               PROVE  WorkerCanStep(c)
    BY ZenonT(40)
  <2>1. spc = "died" \/ (spc = "accept" /\ backlog = << >>)
    BY DEF ServerCanStep, FlowInv, TypeOK
  <2>2. backlog = << >> /\ Queued = {} /\ ~Waiting(c)
    BY <2>1 DEF FlowInv, ServerInv, Queued, Waiting
  <2>3. cpc[c] \in {"connect", "write", "shutdown", "read"}
    BY DEF FlowInv, TypeOK
  <2>4. cpc[c] # "connect"
    <3>1. Len(backlog) <= BACKLOG
      BY <2>2, CalcAssumption
    <3> QED BY <3>1 DEF ClientCanStep
  <2>5. cpc[c] = "read" /\ holds[c] # {}
    BY <2>2, <2>3, <2>4 DEF ClientCanStep, Gone
  <2>6. "server" \notin holds[c]
    BY <2>1 DEF FlowInv, ServerInv
  <2>7. "worker" \in holds[c]
    BY <2>5, <2>6, ZenonT(40) DEF FlowInv, TypeOK
  <2>8. wpc[c] \in {"read", "evaluate", "exit"}
    BY <2>7 DEF FlowInv, WorkerInv
  <2> QED BY <2>5, <2>8 DEF WorkerCanStep, HasShutDown
<1> QED BY <1>1, FlowInductive, PTL
=============================================================================
