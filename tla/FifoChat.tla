------------------------------ MODULE FifoChat ------------------------------
(***************************************************************************)
(* Pipes/fifo_select_chat.c: two peers connected by two FIFOs.  Each opens *)
(* its receiving end without blocking, then its sending end (which waits   *)
(* for a reader), and then ROUNDS times writes one message, waits in       *)
(* select() and makes one read().                                          *)
(*                                                                         *)
(* The parent is peer "A" and the child it forks is peer "B".  Messages    *)
(* are counted: what a peer has written and what the other has taken out   *)
(* of the FIFO.  One read() takes whatever is there, up to READ_MAX        *)
(* messages (95 bytes in the program, room for five).  The FIFO itself is  *)
(* external: select() reports it readable when it holds data, or when it   *)
(* has had a writer and has none any more.                                 *)
(***************************************************************************)
EXTENDS Integers, FiniteSetsExt

CONSTANTS ROUNDS,       \* messages a peer writes: 3 in the program
          READ_MAX,     \* messages one read() may return
          ForkCanFail   \* may fork() return -1?

ASSUME FifoAssumption == /\ ROUNDS \in Nat \ {0}
                         /\ READ_MAX \in Nat \ {0, 1}
                         /\ ForkCanFail \in BOOLEAN

Peers == {"A", "B"}
Other(p) == IF p = "A" THEN "B" ELSE "A"

VARIABLES pc,        \* per peer: where it is
          i,         \* per peer: the loop variable
          wrote,     \* per peer: messages it has written
          got        \* per peer: messages it has read

vars == <<pc, i, wrote, got>>

\* The parent is before fork(); the FIFOs exist and are empty.
Init == /\ pc = [p \in Peers |-> IF p = "A" THEN "fork" ELSE "unborn"]
        /\ i = [p \in Peers |-> 0]
        /\ wrote = [p \in Peers |-> 0]
        /\ got = [p \in Peers |-> 0]

\* Which ends are open follows from where the peers are.  peer() closes nothing:
\* A keeps both of its ends while it waits for B.
InLoop == {"write", "select", "read"}
RxOpen(p) == pc[p] \in {"openTx", "wait"} \cup InLoop
TxOpen(p) == pc[p] \in {"wait"} \cup InLoop
Unread(p) == wrote[Other(p)] - got[p]

\* The FIFO p reads from has had a writer, and has none any more.
HungUp(p) == pc[Other(p)] = "done"

Fork == /\ pc["A"] = "fork"
        /\ \/ pc' = [p \in Peers |-> "openRx"]
           \/ ForkCanFail /\ pc' = [pc EXCEPT !["A"] = "died"]
        /\ UNCHANGED <<i, wrote, got>>

\* Mutant of OpenRx: without O_NONBLOCK the open waits for a writer.
OpenRxBlocking(p) == /\ pc[p] = "openRx"
                     /\ TxOpen(Other(p))
                     /\ pc' = [pc EXCEPT ![p] = "openTx"]
                     /\ UNCHANGED <<i, wrote, got>>

\* open(rx_path, O_RDONLY | O_NONBLOCK) returns at once.
OpenRx(p) == /\ pc[p] = "openRx"
             /\ pc' = [pc EXCEPT ![p] = "openTx"]
             /\ UNCHANGED <<i, wrote, got>>

\* open(tx_path, O_WRONLY) waits until the other peer has its reading end open.
OpenTx(p) == /\ pc[p] = "openTx"
             /\ RxOpen(Other(p))
             /\ pc' = [pc EXCEPT ![p] = "write"]
             /\ UNCHANGED <<i, wrote, got>>

\* Mutant of Write: a second message before the peer listens.
WriteTwice(p) == /\ pc[p] = "write"
                 /\ wrote' = [wrote EXCEPT ![p] = @ + 2]
                 /\ pc' = [pc EXCEPT ![p] = "select"]
                 /\ UNCHANGED <<i, got>>

\* write_all of one message.  (NoBrokenPipe says that there is a reader.)
Write(p) == /\ pc[p] = "write"
            /\ wrote' = [wrote EXCEPT ![p] = @ + 1]
            /\ pc' = [pc EXCEPT ![p] = "select"]
            /\ UNCHANGED <<i, got>>

\* Mutant of Select: it returns although nothing has happened (a timeout).
SelectTimesOut(p) == /\ pc[p] = "select"
                     /\ pc' = [pc EXCEPT ![p] = "read"]
                     /\ UNCHANGED <<i, wrote, got>>

Select(p) == /\ pc[p] = "select"
             /\ Unread(p) > 0 \/ HungUp(p)
             /\ pc' = [pc EXCEPT ![p] = "read"]
             /\ UNCHANGED <<i, wrote, got>>

\* Where the peer is after its i-th read(): A goes on to wait_for_pid.
After(p) == IF i[p] + 1 < ROUNDS THEN "write" ELSE IF p = "A" THEN "wait" ELSE "done"

\* One read(): everything that is there, or nothing at the end of the stream.
Read(p) == /\ pc[p] = "read"
           /\ got' = [got EXCEPT ![p] = @ + Min({READ_MAX, Unread(p)})]
           /\ i' = [i EXCEPT ![p] = @ + 1]
           /\ pc' = [pc EXCEPT ![p] = After(p)]
           /\ UNCHANGED wrote

\* wait_for_pid(child), the two unlinks and return.
WaitForPid == /\ pc["A"] = "wait"
              /\ pc["B"] = "done"
              /\ pc' = [pc EXCEPT !["A"] = "done"]
              /\ UNCHANGED <<i, wrote, got>>

Peer(p) == OpenRx(p) \/ OpenTx(p) \/ Write(p) \/ Select(p) \/ Read(p)

Next == Fork \/ (\E p \in Peers : Peer(p)) \/ WaitForPid

Spec == Init /\ [][Next]_vars

\* Both processes are scheduled.
FairSpec == Spec /\ WF_vars(Fork \/ WaitForPid) /\ \A p \in Peers : WF_vars(Peer(p))

-----------------------------------------------------------------------------
(* Properties.                                                             *)

\* The variables have their types; nobody writes more than its messages or
\* reads more than the other wrote.
TypeOK == /\ pc \in [Peers -> {"fork", "unborn", "openRx", "openTx", "wait", "done", "died"}
                               \cup InLoop]
          /\ i \in [Peers -> 0..ROUNDS]
          /\ wrote \in [Peers -> 0..ROUNDS]
          /\ got \in [Peers -> 0..ROUNDS]
          /\ \A p \in Peers : got[p] <= wrote[Other(p)]

\* No write meets a FIFO without a reader: the peer that is ahead cannot leave
\* the loop before the other has written its last message.
NoBrokenPipe == \A p \in Peers : pc[p] = "write" => RxOpen(Other(p))

\* The peers run at most one round apart, so that at most two messages are
\* waiting and one read() of 95 bytes takes them whole.
ReadsWhole == \A p \in Peers : Unread(p) <= 2

\* A peer that has made its last read() has every message of the other,
\* although reads and messages do not correspond one to one.
AllRead == \A p \in Peers : i[p] = ROUNDS => got[p] = ROUNDS

\* B has read everything, has a round left, and waits for an end of file that A,
\* which waits for B, does not give.
WaitingForEachOther == /\ pc["A"] = "wait" /\ pc["B"] = "select"
                       /\ got["B"] = ROUNDS /\ i["B"] < ROUNDS

\* The opens do not block each other and the rounds come to an end.  The only
\* thing left that can go wrong is that B once read two messages at a time.
EndsUnlessCoalesced == <>(pc["A"] \in {"done", "died"} \/ WaitingForEachOther)

\* "Temporary kernel objects are removed after use" (docs/IPC_OVERVIEW.md:33):
\* the program gets to the unlinks of its FIFOs.  It need not: see above.
FifosRemoved == <>(pc["A"] = "done")
=============================================================================
