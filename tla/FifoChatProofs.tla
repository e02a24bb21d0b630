--------------------------- MODULE FifoChatProofs ---------------------------
(***************************************************************************)
(* Proofs about FifoChat for every number of rounds.  The invariant is     *)
(* that a peer has read at least as many messages as it has made reads;    *)
(* with what a peer has written in each round, that keeps the two peers    *)
(* within one round of each other, whatever the reads coalesce.            *)
(***************************************************************************)
EXTENDS FifoChat, TLAPS

\* What peer p has written and read in terms of where it is.
PeerInv(p) ==
  /\ pc[p] \in {"fork", "unborn", "openRx", "openTx", "died"} => i[p] = 0 /\ wrote[p] = 0
  /\ pc[p] = "write" => wrote[p] = i[p] /\ i[p] < ROUNDS
  /\ pc[p] \in {"select", "read"} => wrote[p] = i[p] + 1
  /\ pc[p] \in {"wait", "done"} => i[p] = ROUNDS /\ wrote[p] = ROUNDS
  /\ i[p] <= got[p]
  /\ pc[p] = "read" => Unread(p) > 0 \/ HungUp(p)
  /\ pc[p] \in InLoop => pc[Other(p)] \in {"openTx", "wait", "done"} \cup InLoop

\* The inductive invariant.
ChatInv == /\ TypeOK
           /\ \A p \in Peers : PeerInv(p)
           /\ pc["A"] = "done" => pc["B"] = "done"
           /\ pc["B"] # "wait"
           /\ pc["A"] = "fork" => pc["B"] = "unborn"

\* Other() is the other of two peers.
LEMMA OtherPeer == /\ \A p \in Peers : Other(p) \in Peers /\ Other(p) # p /\ Other(Other(p)) = p
                   /\ Other("A") = "B" /\ Other("B") = "A"
BY DEF Peers, Other

\* The smaller of two numbers.
LEMMA MinOfTwo == ASSUME NEW a \in Nat, NEW b \in Nat, b <= a
                  PROVE  Min({a, b}) = b
<1>1. b \in {a, b} /\ \A y \in {a, b} : b <= y
  OBVIOUS
<1>2. \A x \in {a, b} : (\A y \in {a, b} : x <= y) => x = b
  OBVIOUS
<1> QED
  BY <1>1, <1>2, Zenon DEF Min

\* The types of what a peer counts.
LEMMA Counts == ASSUME TypeOK, NEW p \in Peers
                PROVE  /\ i[p] \in Nat /\ wrote[p] \in Nat /\ got[p] \in Nat
                       /\ i[p] <= ROUNDS /\ wrote[p] <= ROUNDS /\ got[p] <= ROUNDS
<1>1. i[p] \in 0..ROUNDS /\ wrote[p] \in 0..ROUNDS /\ got[p] \in 0..ROUNDS
  BY DEF TypeOK
<1> QED
  BY <1>1, FifoAssumption

\* A peer is at most one message ahead of its reads.
LEMMA WroteInRound == ASSUME TypeOK, NEW p \in Peers, PeerInv(p)
                      PROVE  i[p] <= wrote[p] /\ wrote[p] <= i[p] + 1
<1>1. pc[p] \in {"fork", "unborn", "openRx", "openTx", "wait", "done", "died",
                 "write", "select", "read"}
  BY DEF TypeOK, InLoop
<1>2. \/ i[p] = 0 /\ wrote[p] = 0
      \/ wrote[p] = i[p]
      \/ wrote[p] = i[p] + 1
      \/ i[p] = ROUNDS /\ wrote[p] = ROUNDS
  BY <1>1, Zenon DEF PeerInv
<1> QED
  BY <1>2, Counts, FifoAssumption

\* At most two messages are waiting: p has made at most one read less than the
\* other has made, and each read takes a message.
LEMMA AtMostTwoWaiting == ASSUME ChatInv, NEW p \in Peers
                          PROVE  Unread(p) \in Nat /\ Unread(p) <= 2
<1>1. PICK q \in Peers : q = Other(p) /\ Other(q) = p
  BY OtherPeer
<1>2. /\ i[p] <= got[p] /\ got[q] <= wrote[p] /\ got[p] <= wrote[q] /\ i[q] <= got[q]
      /\ wrote[p] <= i[p] + 1 /\ wrote[q] <= i[q] + 1
  BY <1>1, WroteInRound DEF ChatInv, TypeOK, PeerInv
<1>3. /\ i[p] \in Nat /\ i[q] \in Nat /\ wrote[p] \in Nat /\ wrote[q] \in Nat
      /\ got[p] \in Nat /\ got[q] \in Nat
  BY Counts DEF ChatInv
<1>4. wrote[q] - got[p] \in Nat /\ wrote[q] - got[p] <= 2
  BY <1>2, <1>3
<1> QED
  BY <1>1, <1>4 DEF Unread

\* One read() leaves nothing of what the other has written.
LEMMA ReadTakesAll ==
  ASSUME ChatInv, NEW p \in Peers, Read(p)
  PROVE  /\ pc[p] = "read" /\ pc' = [pc EXCEPT ![p] = After(p)]
         /\ i' = [i EXCEPT ![p] = i[p] + 1]
         /\ got' = [got EXCEPT ![p] = wrote[Other(p)]]
         /\ wrote' = wrote
<1>1. Unread(p) \in Nat /\ Unread(p) <= 2
  BY AtMostTwoWaiting
<1>2. Min({READ_MAX, Unread(p)}) = Unread(p)
  BY <1>1, MinOfTwo, FifoAssumption
<1>3. got[p] + Unread(p) = wrote[Other(p)]
  <2>1. got[p] \in Nat /\ wrote[Other(p)] \in Nat
    BY Counts, OtherPeer DEF ChatInv
  <2> QED
    BY <2>1 DEF Unread
<1> QED
  BY <1>2, <1>3, ZenonT(40) DEF Read, ChatInv, TypeOK

\* Before the fork no FIFO is open and no round has begun.
LEMMA ChatInvInit == Init => ChatInv
BY FifoAssumption DEF Init, ChatInv, PeerInv, TypeOK, Peers, Other, InLoop

\* Every step of either peer preserves the invariant.
LEMMA ChatInvStep == ChatInv /\ [Next]_vars => ChatInv'
<1> SUFFICES ASSUME ChatInv, [Next]_vars PROVE ChatInv'
  OBVIOUS
<1> USE FifoAssumption
<1>1. CASE Fork
  <2>1. pc["A"] = "fork" /\ pc["B"] = "unborn" /\ UNCHANGED <<i, wrote, got>>
    BY <1>1 DEF Fork, ChatInv
  <2>2. TypeOK' /\ \A p \in Peers : pc'[p] \in {"openRx", "died", "unborn"}
    BY <1>1, <2>1 DEF Fork, ChatInv, TypeOK, Peers
  <2>3. \A p \in Peers : i[p] = 0 /\ wrote[p] = 0 /\ i[p] <= got[p]
    BY <2>1 DEF ChatInv, PeerInv, Peers
  <2>4. \A p \in Peers : PeerInv(p)'
    BY <2>1, <2>2, <2>3 DEF PeerInv, InLoop
  <2> QED
    BY <2>2, <2>4 DEF ChatInv, Peers
<1>2. ASSUME NEW p \in Peers, OpenRx(p) PROVE ChatInv'
  BY <1>2, ZenonT(60) DEF OpenRx, ChatInv, PeerInv, TypeOK, Peers, Other, InLoop, Unread, HungUp
<1>3. ASSUME NEW p \in Peers, OpenTx(p) PROVE ChatInv'
  <2>1. PICK q \in Peers : q # p /\ q = Other(p) /\ Other(q) = p /\ Peers = {p, q}
    BY OtherPeer DEF Peers
  <2>2. /\ PeerInv(p) /\ PeerInv(q) /\ TypeOK
        /\ i[p] \in Nat /\ i[q] \in Nat /\ wrote[p] \in Nat /\ wrote[q] \in Nat
        /\ got[p] \in Nat /\ got[q] \in Nat
        /\ i[p] <= ROUNDS /\ wrote[p] <= ROUNDS /\ wrote[q] <= ROUNDS
        /\ got[p] <= wrote[q] /\ got[q] <= wrote[p]
    BY <2>1, Counts DEF ChatInv, TypeOK
  <2>3. TypeOK'
    BY <1>3, <2>1, <2>2 DEF OpenTx, TypeOK, PeerInv, InLoop, Unread, HungUp, RxOpen
  <2>7. /\ pc'[p] = "write" /\ pc'[q] = pc[q] /\ i' = i /\ wrote' = wrote /\ got' = got
        /\ pc[q] \in {"openTx", "wait"} \cup InLoop
    BY <1>3, <2>1, <2>2 DEF OpenTx, RxOpen, TypeOK
  <2>8. i[p] = 0 /\ wrote[p] = 0 /\ i[p] <= got[p] /\ i[p] < ROUNDS
    <3>1. i[p] = 0 /\ wrote[p] = 0 /\ i[p] <= got[p]
      BY <1>3, <2>2, Zenon DEF OpenTx, PeerInv
    <3> QED
      BY <3>1
  <2>4. PeerInv(p)'
    BY <2>1, <2>7, <2>8 DEF PeerInv, InLoop
  <2>5. PeerInv(q)'
    BY <1>3, <2>1, <2>2 DEF OpenTx, TypeOK, PeerInv, InLoop, Unread, HungUp, RxOpen
  <2>6. /\ pc'["A"] = "done" => pc'["B"] = "done"
        /\ pc'["B"] # "wait" /\ (pc'["A"] = "fork" => pc'["B"] = "unborn")
    BY <1>3, <2>1, <2>2 DEF OpenTx, TypeOK, PeerInv, InLoop, Unread, HungUp, RxOpen, ChatInv, Peers
  <2> QED
    BY <2>1, <2>3, <2>4, <2>5, <2>6 DEF ChatInv
<1>4. ASSUME NEW p \in Peers, Write(p) PROVE ChatInv'
  <2>1. PICK q \in Peers : q # p /\ q = Other(p) /\ Other(q) = p /\ Peers = {p, q}
    BY OtherPeer DEF Peers
  <2>2. /\ PeerInv(p) /\ PeerInv(q) /\ TypeOK
        /\ i[p] \in Nat /\ i[q] \in Nat /\ wrote[p] \in Nat /\ wrote[q] \in Nat
        /\ got[p] \in Nat /\ got[q] \in Nat
        /\ i[p] <= ROUNDS /\ wrote[p] <= ROUNDS /\ wrote[q] <= ROUNDS
        /\ got[p] <= wrote[q] /\ got[q] <= wrote[p]
    BY <2>1, Counts DEF ChatInv, TypeOK
  <2>7. /\ pc[p] = "write" /\ wrote[p] = i[p] /\ i[p] + 1 <= ROUNDS
        /\ wrote' = [wrote EXCEPT ![p] = i[p] + 1]
        /\ pc' = [pc EXCEPT ![p] = "select"]
        /\ i' = i /\ got' = got
    <3>1. pc[p] = "write" /\ wrote[p] = i[p] /\ i[p] < ROUNDS
      BY <1>4, <2>2 DEF Write, PeerInv
    <3> QED
      BY <1>4, <2>2, <3>1 DEF Write
  <2>8. /\ pc'[p] = "select" /\ pc'[q] = pc[q]
        /\ wrote'[p] = i[p] + 1 /\ wrote'[q] = wrote[q]
    BY <2>1, <2>2, <2>7 DEF TypeOK
  <2>9. wrote'[p] - got[q] > 0 /\ i[p] + 1 \in 0..ROUNDS
    BY <2>2, <2>7, <2>8
  <2>3. TypeOK'
    <3>1. /\ wrote' \in [Peers -> 0..ROUNDS]
          /\ pc' \in [Peers -> {"fork", "unborn", "openRx", "openTx", "wait", "done", "died"}
                               \cup InLoop]
      BY <2>2, <2>7, <2>9 DEF TypeOK, InLoop
    <3>2. \A r \in Peers : got'[r] <= wrote'[Other(r)]
      BY <2>1, <2>2, <2>7, <2>8
    <3> QED
      BY <2>2, <2>7, <3>1, <3>2 DEF TypeOK
  <2>4. PeerInv(p)'
    BY <2>1, <2>2, <2>7, <2>8 DEF PeerInv, InLoop
  <2>5. PeerInv(q)'
    <3>1. Unread(q)' > 0 \/ HungUp(q)'
      BY <2>1, <2>7, <2>9 DEF Unread
    <3>2. pc[q] \in InLoop => pc'[Other(q)] \in {"openTx", "wait", "done"} \cup InLoop
      BY <2>1, <2>8 DEF InLoop
    <3> QED
      BY <2>1, <2>2, <2>7, <2>8, <3>1, <3>2 DEF PeerInv
  <2>6. /\ pc'["A"] = "done" => pc'["B"] = "done"
        /\ pc'["B"] # "wait" /\ (pc'["A"] = "fork" => pc'["B"] = "unborn")
    BY <2>1, <2>7, <2>8 DEF ChatInv, Peers
  <2> QED
    BY <2>1, <2>3, <2>4, <2>5, <2>6 DEF ChatInv
<1>5. ASSUME NEW p \in Peers, Select(p) PROVE ChatInv'
  BY <1>5, ZenonT(60) DEF Select, ChatInv, PeerInv, TypeOK, Peers, Other, InLoop, Unread, HungUp
<1>6. ASSUME NEW p \in Peers, Read(p) PROVE ChatInv'
  <2>1. PICK q \in Peers : q # p /\ q = Other(p) /\ Other(q) = p /\ Peers = {p, q}
    BY OtherPeer DEF Peers
  <2>2. /\ PeerInv(p) /\ PeerInv(q) /\ TypeOK
        /\ i[p] \in Nat /\ i[q] \in Nat /\ wrote[p] \in Nat /\ wrote[q] \in Nat
        /\ got[p] \in Nat /\ got[q] \in Nat
        /\ i[p] <= ROUNDS /\ wrote[p] <= ROUNDS /\ wrote[q] <= ROUNDS
        /\ got[p] <= wrote[q] /\ got[q] <= wrote[p]
    BY <2>1, Counts DEF ChatInv, TypeOK
  <2>7. Unread(p) = wrote[q] - got[p] /\ Unread(p) \in Nat /\ Unread(p) <= 2
    BY <2>1, AtMostTwoWaiting DEF Unread
  <2>10. /\ pc[p] = "read" /\ pc' = [pc EXCEPT ![p] = After(p)]
         /\ i' = [i EXCEPT ![p] = i[p] + 1]
         /\ got' = [got EXCEPT ![p] = wrote[q]]
         /\ wrote' = wrote
    BY <1>6, <2>1, ReadTakesAll
  <2>11. /\ pc'[p] = After(p) /\ pc'[q] = pc[q] /\ i'[p] = i[p] + 1 /\ i'[q] = i[q]
         /\ got'[p] = wrote[q] /\ got'[q] = got[q]
    BY <2>1, <2>2, <2>10 DEF TypeOK
  <2>12. wrote[p] = i[p] + 1 /\ i[p] + 1 <= ROUNDS
    BY <2>2, <2>10 DEF PeerInv
  <2>13. \/ After(p) = "write" /\ i[p] + 1 < ROUNDS
         \/ After(p) = "wait" /\ p = "A" /\ i[p] + 1 = ROUNDS
         \/ After(p) = "done" /\ p = "B" /\ i[p] + 1 = ROUNDS
    BY <2>2, <2>12 DEF After, Peers
  <2>14. i[p] + 1 <= wrote[q]
    <3>1. i[p] <= got[p] /\ (Unread(p) > 0 \/ pc[q] = "done")
      BY <2>1, <2>2, <2>10 DEF PeerInv, HungUp
    <3>2. pc[q] = "done" => wrote[q] = ROUNDS
      BY <2>2, Zenon DEF PeerInv
    <3> QED
      BY <2>2, <2>7, <2>12, <3>1, <3>2
  <2>3. TypeOK'
    <3>1. pc' \in [Peers -> {"fork", "unborn", "openRx", "openTx", "wait", "done", "died"}
                            \cup InLoop]
      BY <2>2, <2>10, <2>13 DEF TypeOK, InLoop
    <3>2. i' \in [Peers -> 0..ROUNDS] /\ wrote' \in [Peers -> 0..ROUNDS]
          /\ got' \in [Peers -> 0..ROUNDS]
      BY <2>2, <2>10, <2>12 DEF TypeOK
    <3>3. \A r \in Peers : got'[r] <= wrote'[Other(r)]
      BY <2>1, <2>2, <2>10, <2>11
    <3> QED
      BY <3>1, <3>2, <3>3 DEF TypeOK
  <2>4. PeerInv(p)'
    BY <2>1, <2>2, <2>10, <2>11, <2>12, <2>13, <2>14 DEF PeerInv, InLoop
  <2>5. PeerInv(q)'
    BY <2>1, <2>2, <2>10, <2>11, <2>12, <2>13, <2>14 DEF PeerInv, InLoop, Unread, HungUp
  <2>6. /\ pc'["A"] = "done" => pc'["B"] = "done"
        /\ pc'["B"] # "wait" /\ (pc'["A"] = "fork" => pc'["B"] = "unborn")
    BY <2>1, <2>10, <2>11, <2>13 DEF ChatInv, Peers
  <2> QED
    BY <2>1, <2>3, <2>4, <2>5, <2>6 DEF ChatInv
<1>7. CASE WaitForPid
  BY <1>7 DEF WaitForPid, ChatInv, PeerInv, TypeOK, Peers, Other, InLoop, Unread, HungUp
<1>8. CASE UNCHANGED vars
  BY <1>8, ZenonT(60) DEF vars, ChatInv, PeerInv, TypeOK, Peers, Other, InLoop, Unread, HungUp
<1> QED
  BY <1>1, <1>2, <1>3, <1>4, <1>5, <1>6, <1>7, <1>8 DEF Next, Peer

\* The invariant holds in every reachable state.
THEOREM ChatInvariance == Spec => []ChatInv
BY ChatInvInit, ChatInvStep, PTL DEF Spec

\* No peer ever writes to a FIFO nobody reads: whatever the reads coalesce, a
\* peer does not leave while the other has messages to write.
THEOREM ChatNoBrokenPipe == Spec => []NoBrokenPipe
<1>1. ChatInv => NoBrokenPipe
  <2> SUFFICES ASSUME ChatInv, NEW p \in Peers, pc[p] = "write" PROVE RxOpen(Other(p))
    BY DEF NoBrokenPipe
  <2>1. PICK q \in Peers : q = Other(p) /\ Other(q) = p /\ Peers = {p, q}
    BY OtherPeer DEF Peers
  <2>2. pc[q] \in {"openTx", "wait", "done"} \cup InLoop
    BY <2>1 DEF ChatInv, PeerInv, InLoop
  <2>3. wrote[p] < ROUNDS /\ got[q] <= wrote[p]
    BY <2>1 DEF ChatInv, PeerInv, TypeOK
  <2>4. i[q] <= got[q]
    BY DEF ChatInv, PeerInv
  <2>5. pc[q] = "done" => i[q] = ROUNDS
    BY Zenon DEF ChatInv, PeerInv
  <2>6. TypeOK
    BY DEF ChatInv
  <2>7. pc[q] # "done"
    BY <2>3, <2>4, <2>5, <2>6, Counts, FifoAssumption
  <2> QED
    BY <2>1, <2>2, <2>7 DEF RxOpen
<1> QED
  BY <1>1, ChatInvariance, PTL

\* At most two messages wait in a FIFO: one read() takes them whole.
THEOREM ChatReadsWhole == Spec => []ReadsWhole
<1>1. ChatInv => ReadsWhole
  BY AtMostTwoWaiting DEF ReadsWhole
<1> QED
  BY <1>1, ChatInvariance, PTL

\* Whoever has made its last read() has received every message.
THEOREM ChatAllRead == Spec => []AllRead
<1>1. ChatInv => AllRead
  <2> SUFFICES ASSUME ChatInv, NEW p \in Peers, i[p] = ROUNDS PROVE got[p] = ROUNDS
    BY DEF AllRead
  <2>1. i[p] <= got[p]
    BY DEF ChatInv, PeerInv
  <2>2. TypeOK
    BY DEF ChatInv
  <2> QED
    BY <2>1, <2>2, Counts, FifoAssumption
<1> QED
  BY <1>1, ChatInvariance, PTL

-----------------------------------------------------------------------------
(* Termination.  EndsUnlessCoalesced needs fairness and is model-checked;   *)
(* what it rests on does not.                                               *)

\* Opens (and the fork) still before peer p, and the steps of the current round
\* behind it.
OpensLeft(p) == CASE pc[p] = "fork" -> 3
                  [] pc[p] \in {"unborn", "openRx"} -> 2
                  [] pc[p] = "openTx" -> 1
                  [] OTHER -> 0
RoundDone(p) == CASE pc[p] = "select" -> 1
                  [] pc[p] = "read" -> 2
                  [] OTHER -> 0

\* Steps peer p still makes: three for each round.
PeerLeft(p) == 3 * (ROUNDS - i[p]) - RoundDone(p) + OpensLeft(p)

\* The last step of the program: wait_for_pid with the unlinks.
WaitLeft == IF pc["A"] \in {"done", "died"} THEN 0 ELSE 1

StepsLeft == PeerLeft("A") + PeerLeft("B") + WaitLeft

\* Before the fork there are at most 6 * ROUNDS + 6 steps to make, 24 in the program.
LEMMA StepsAtFork == Init => StepsLeft = 6 * ROUNDS + 6
  BY FifoAssumption DEF Init, StepsLeft, PeerLeft, OpensLeft, RoundDone, WaitLeft, Peers

\* A peer in a round has a round to count.
LEMMA RoundsLeft ==
  ASSUME ChatInv, NEW p \in Peers
  PROVE  /\ i[p] \in 0 .. ROUNDS /\ ROUNDS \in Nat /\ PeerLeft(p) \in Nat
         /\ pc[p] \in {"select", "read"} => i[p] < ROUNDS
<1>1. TypeOK /\ PeerInv(p)
  BY DEF ChatInv
<1>2. /\ i[p] \in Nat /\ wrote[p] \in Nat /\ i[p] <= ROUNDS /\ wrote[p] <= ROUNDS
  BY <1>1, Counts
<1>3. pc[p] \in {"select", "read"} => wrote[p] = i[p] + 1
  BY <1>1 DEF PeerInv
<1>4. /\ OpensLeft(p) \in 0 .. 3 /\ RoundDone(p) \in 0 .. 2
      /\ RoundDone(p) > 0 => pc[p] \in {"select", "read"}
  BY DEF OpensLeft, RoundDone
<1>5. pc[p] \in {"select", "read"} => i[p] < ROUNDS
  BY <1>2, <1>3, FifoAssumption
<1> QED
  BY <1>2, <1>4, <1>5, FifoAssumption DEF PeerLeft

\* Every step of either peer lowers the bound: no loop of fifo_select_chat.c runs on,
\* whatever a read() returns.
THEOREM ChatStepsRunOut == Spec => [](StepsLeft \in Nat) /\ [][StepsLeft' < StepsLeft]_vars
<1>1. ChatInv => StepsLeft \in Nat
  BY RoundsLeft DEF StepsLeft, WaitLeft, Peers
<1>2. ChatInv /\ [Next]_vars => [StepsLeft' < StepsLeft]_vars
  <2> SUFFICES ASSUME ChatInv, Next PROVE StepsLeft' < StepsLeft
    OBVIOUS
  <2>1. /\ ROUNDS \in Nat
        /\ i["A"] \in 0 .. ROUNDS /\ i["B"] \in 0 .. ROUNDS
        /\ pc \in [Peers -> {"fork", "unborn", "openRx", "openTx", "wait", "done", "died"}
                            \cup InLoop]
        /\ i \in [Peers -> 0 .. ROUNDS]
    BY FifoAssumption DEF ChatInv, TypeOK, Peers
  <2>2. PeerLeft("A") \in Nat /\ PeerLeft("B") \in Nat /\ WaitLeft \in Nat
    BY RoundsLeft DEF WaitLeft, Peers
  <2>3. ASSUME NEW p \in Peers, PeerLeft(p)' \in Int, PeerLeft(p)' < PeerLeft(p),
               pc' = [pc EXCEPT ![p] = pc'[p]], i' = [i EXCEPT ![p] = i'[p]],
               pc[p] \notin {"done", "died"}, pc'[p] \in {"done", "died"} => p = "B"
        PROVE  StepsLeft' < StepsLeft
    <3>1. PICK q \in Peers : q # p /\ Peers = {p, q}
      BY OtherPeer DEF Peers
    <3>2. PeerLeft(q)' = PeerLeft(q)
      BY <2>1, <2>3, <3>1 DEF PeerLeft, OpensLeft, RoundDone
    <3>3. WaitLeft' \in {0, 1} /\ WaitLeft' <= WaitLeft
      BY <2>1, <2>3 DEF WaitLeft, Peers
    <3> HIDE DEF PeerLeft, WaitLeft
    <3> QED
      BY <2>2, <2>3, <3>1, <3>2, <3>3 DEF StepsLeft, Peers
  <2>4. CASE Fork
    <3>1. pc["A"] = "fork" /\ pc["B"] = "unborn" /\ i' = i
      BY <2>4 DEF Fork, ChatInv
    <3>2. \/ pc'["A"] = "openRx" /\ pc'["B"] = "openRx"
          \/ pc'["A"] = "died" /\ pc'["B"] = "unborn"
      BY <2>1, <2>4, <3>1 DEF Fork, Peers
    <3> QED
      BY <2>1, <3>1, <3>2 DEF StepsLeft, PeerLeft, OpensLeft, RoundDone, WaitLeft
  <2>5. ASSUME NEW p \in Peers, OpenRx(p) \/ OpenTx(p) \/ Write(p) \/ Select(p)
        PROVE  StepsLeft' < StepsLeft
    <3>1. PeerLeft(p)' \in Int /\ PeerLeft(p)' < PeerLeft(p)
      BY <2>1, <2>5 DEF OpenRx, OpenTx, Write, Select, PeerLeft, OpensLeft, RoundDone
    <3> QED
      BY <2>1, <2>3, <2>5, <3>1 DEF OpenRx, OpenTx, Write, Select
  <2>6. ASSUME NEW p \in Peers, Read(p) PROVE StepsLeft' < StepsLeft
    <3>1. PeerLeft(p)' \in Int /\ PeerLeft(p)' < PeerLeft(p)
      BY <2>1, <2>6 DEF Read, After, PeerLeft, OpensLeft, RoundDone
    <3> QED
      BY <2>1, <2>3, <2>6, <3>1, ZenonT(40) DEF Read, After, Peers
  <2>7. CASE WaitForPid
    BY <2>1, <2>7 DEF WaitForPid, StepsLeft, PeerLeft, OpensLeft, RoundDone, WaitLeft, Peers
  <2> QED
    BY <2>4, <2>5, <2>6, <2>7, Zenon DEF Next, Peer
<1> QED
  BY <1>1, <1>2, ChatInvariance, PTL DEF Spec

\* The peers never both read ahead: together they have received at most one message
\* more than they have made reads.  And each is only where its role takes it.
AheadInv == /\ got["A"] + got["B"] <= i["A"] + i["B"] + 1
            /\ pc["A"] # "unborn" /\ pc["B"] \notin {"fork", "died"}
            /\ pc["B"] = "unborn" => pc["A"] \in {"fork", "died"}

\* Every step preserves it: when p reads, the other has received no more than p has
\* written, and has written at most one message more than it has made reads.
LEMMA AheadInvStep == ChatInv /\ AheadInv /\ [Next]_vars => AheadInv'
<1> SUFFICES ASSUME ChatInv, AheadInv, [Next]_vars PROVE AheadInv'
  OBVIOUS
<1>1. pc \in [Peers -> {"fork", "unborn", "openRx", "openTx", "wait", "done", "died"}
                       \cup InLoop]
  BY DEF ChatInv, TypeOK
<1>2. CASE Fork \/ WaitForPid \/ \E p \in Peers : OpenRx(p) \/ OpenTx(p) \/ Write(p) \/ Select(p)
  BY <1>1, <1>2 DEF Fork, WaitForPid, OpenRx, OpenTx, Write, Select, AheadInv, Peers
<1>3. ASSUME NEW p \in Peers, Read(p) PROVE AheadInv'
  <2>1. PICK q \in Peers : q # p /\ q = Other(p) /\ Other(q) = p /\ Peers = {p, q}
    BY OtherPeer DEF Peers
  <2>2. /\ i[p] \in Nat /\ i[q] \in Nat /\ wrote[p] \in Nat /\ wrote[q] \in Nat
        /\ got[p] \in Nat /\ got[q] \in Nat
    BY Counts DEF ChatInv
  <2>3. wrote[p] <= i[p] + 1 /\ wrote[q] <= i[q] + 1 /\ got[q] <= wrote[p]
    BY <2>1, WroteInRound DEF ChatInv, TypeOK
  <2>4. got'[p] = wrote[q] /\ got'[q] = got[q] /\ i'[p] = i[p] + 1 /\ i'[q] = i[q]
    BY <1>3, <2>1, ReadTakesAll DEF ChatInv, TypeOK
  <2>5. got'[p] + got'[q] <= i'[p] + i'[q] + 1
    BY <2>2, <2>3, <2>4
  <2>6. got'["A"] + got'["B"] <= i'["A"] + i'["B"] + 1
    BY <2>1, <2>2, <2>4, <2>5 DEF Peers
  <2>7. pc'[q] = pc[q] /\ pc'[p] \in {"write", "wait", "done"} /\ pc[p] = "read"
    BY <1>1, <1>3, <2>1 DEF Read, After
  <2> QED
    BY <2>1, <2>6, <2>7 DEF AheadInv, Peers
<1>4. CASE UNCHANGED vars
  BY <1>4 DEF vars, AheadInv
<1> QED
  BY <1>2, <1>3, <1>4 DEF Next, Peer

\* The conditions under which a process's next call returns: the guards of Fork,
\* WaitForPid and Peer.
PeerCanStep(p) == \/ pc[p] \in {"openRx", "write", "read"}
                  \/ pc[p] = "openTx" /\ RxOpen(Other(p))
                  \/ pc[p] = "select" /\ (Unread(p) > 0 \/ HungUp(p))
CanStep == \/ pc["A"] = "fork"
           \/ pc["A"] = "wait" /\ pc["B"] = "done"
           \/ \E p \in Peers : PeerCanStep(p)

\* The opens never block each other for good, and two peers in select() never both
\* find nothing to read: the program stops only where A has ended, or where B, one
\* read short because two messages once came together, and A wait for each other.
THEOREM ChatStopsOnlyAtEnd ==
  Spec => [](\/ CanStep
             \/ pc["A"] \in {"done", "died"}
             \/ WaitingForEachOther /\ i["B"] = ROUNDS - 1)
<1> DEFINE Ended == \/ pc["A"] \in {"done", "died"}
                    \/ WaitingForEachOther /\ i["B"] = ROUNDS - 1
<1>1. Init => AheadInv
  BY DEF Init, AheadInv, Peers
<1>2. Spec => [](ChatInv /\ AheadInv)
  BY <1>1, ChatInvInit, ChatInvStep, AheadInvStep, PTL DEF Spec
<1>3. ChatInv /\ AheadInv => CanStep \/ Ended
  <2> SUFFICES ASSUME ChatInv, AheadInv, ~CanStep PROVE Ended
    OBVIOUS
  <2>1. /\ pc["A"] \in {"openTx", "select", "wait", "done", "died"}
        /\ pc["A"] \notin {"done", "died"} => pc["B"] \in {"openTx", "select", "done"}
    BY DEF ChatInv, AheadInv, TypeOK, CanStep, PeerCanStep, Peers, InLoop
  <2>2. /\ PeerInv("A") /\ PeerInv("B") /\ TypeOK
        /\ got["A"] <= wrote["B"] /\ got["B"] <= wrote["A"]
        /\ got["A"] + got["B"] <= i["A"] + i["B"] + 1
        /\ ~PeerCanStep("A") /\ ~PeerCanStep("B")
    BY OtherPeer DEF ChatInv, TypeOK, AheadInv, CanStep, Peers
  <2>3. \A p \in Peers : /\ i[p] \in Nat /\ wrote[p] \in Nat /\ got[p] \in Nat
                         /\ i[p] <= ROUNDS /\ got[p] <= ROUNDS /\ ROUNDS \in Nat \ {0}
    BY Counts, FifoAssumption DEF ChatInv
  <2>4. /\ \A p \in Peers : pc[p] = "openTx" => wrote[p] = 0
        /\ \A p \in Peers : pc[p] = "select" => wrote[p] = i[p] + 1
        /\ \A p \in Peers : pc[p] \in {"wait", "done"} => i[p] = ROUNDS /\ wrote[p] = ROUNDS
        /\ \A p \in Peers : i[p] <= got[p]
    BY DEF ChatInv, PeerInv
  <2>5. ~RxOpen("B") => pc["A"] # "openTx" \/ pc["B"] # "done"
    BY <2>2, <2>3, <2>4 DEF Peers
  <2>6. CASE pc["A"] = "openTx"
    BY <2>1, <2>2, <2>5, <2>6, OtherPeer DEF PeerCanStep, RxOpen, InLoop
  <2>7. CASE pc["A"] = "select"
    <3>1. pc["B"] = "select"
      BY <2>1, <2>2, <2>7, OtherPeer DEF PeerCanStep, RxOpen, InLoop, HungUp
    <3>2. got["A"] = wrote["B"] /\ got["B"] = wrote["A"]
      BY <2>2, <2>3, <2>7, <3>1, OtherPeer DEF PeerCanStep, Unread, Peers
    <3> QED
      BY <2>2, <2>3, <2>4, <2>7, <3>1, <3>2 DEF Peers
  <2>8. CASE pc["A"] = "wait"
    <3>1. pc["B"] = "select"
      BY <2>1, <2>2, <2>8, OtherPeer DEF CanStep, PeerCanStep, RxOpen
    <3>2. got["B"] = wrote["A"] /\ wrote["A"] = ROUNDS /\ i["A"] = ROUNDS /\ got["A"] = ROUNDS
      BY <2>2, <2>3, <2>4, <2>8, <3>1, OtherPeer DEF PeerCanStep, Unread, Peers
    <3>3. wrote["B"] = i["B"] + 1 /\ wrote["B"] <= ROUNDS
      BY <2>4, <3>1, Counts DEF ChatInv, Peers
    <3>4. i["B"] = ROUNDS - 1 /\ i["B"] < ROUNDS
      BY <2>2, <2>3, <3>2, <3>3 DEF Peers
    <3> QED
      BY <2>8, <3>1, <3>2, <3>4 DEF WaitingForEachOther
  <2> QED
    BY <2>1, <2>6, <2>7, <2>8
<1> QED
  BY <1>2, <1>3, PTL
=============================================================================
