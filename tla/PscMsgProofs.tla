---------------------------- MODULE PscMsgProofs ----------------------------
(***************************************************************************)
(* Proofs about PscMsg for every buffer, header and chunk length, every    *)
(* set of body lengths and any number of threads that send.                *)
(*                                                                         *)
(* Framed speaks of the call of client_msg only.  SyncOK says for each     *)
(* step of psc_recvmsg how many words separate the position in the stream  *)
(* from the end of the message, and what rxbuf holds: the words received   *)
(* of this message, then words of earlier messages of the same client.     *)
(* TxOK does the same for the sending side.                                *)
(***************************************************************************)
EXTENDS PscMsg, TLAPS

USE PscMsgAssumption

Message == [at : Nat, len : Lens, kind : Kinds]

\* The messages of the peer follow each other in the stream.
QueueOK ==
    /\ msgs \in Seq(Message)
    /\ LastEnd \in Nat
    /\ \A i \in 1 .. Len(msgs) :
          msgs[i].at = IF i = 1 THEN 0 ELSE EndOf(msgs[i - 1])
    /\ \A i \in 1 .. Len(msgs) : EndOf(msgs[i]) <= LastEnd
    /\ \A i, j \in 1 .. Len(msgs) : i < j => EndOf(msgs[i]) <= msgs[j].at

\* Where the message begins that is to be dispatched next.
Served == IF done = 0 THEN 0 ELSE EndOf(msgs[done])

\* The header received is that of the message to be dispatched next.
Current == done < Len(msgs) /\ hdr = msgs[done + 1]

\* rxbuf holds the first n words of the body; the others are older.
Holds(n) ==
    \A k \in 1 .. BufLen :
        /\ k <= n => rxbuf[k] = Own(hdr, k)
        /\ k > n => rxbuf[k] \in 0 .. hdr.at

OnlyOld == \A k \in 1 .. BufLen : rxbuf[k] \in 0 .. Served

HelloSync == rd = 0 /\ done = 0 /\ OnlyOld

HeadSync == rd + left = Served + HeadLen /\ OnlyOld

BodySync ==
    /\ Current /\ left <= Rlen(hdr)
    /\ rd + left = hdr.at + HeadLen + Rlen(hdr)
    /\ Holds(Rlen(hdr) - left)

ChunkSync ==
    /\ Current /\ left <= Chunk /\ skip > Chunk
    /\ rd + left + (skip - Chunk) = EndOf(hdr)
    /\ Holds(Rlen(hdr))

\* After an error in its loop psc_recvskip cannot come to its end: it would
\* have received more than its buffer holds.
RestSync ==
    IF skip > Chunk
    THEN failed /\ left <= skip /\ skip - left <= Chunk
    ELSE /\ Current /\ left <= skip
         /\ rd + left = EndOf(hdr)
         /\ Holds(Rlen(hdr))

DispatchSync == Current /\ rd = EndOf(hdr) /\ Holds(Rlen(hdr))

SyncOK ==
    /\ done <= Len(msgs)
    /\ pc = "hello" => HelloSync
    /\ pc = "head" => HeadSync
    /\ pc = "body" => BodySync
    /\ pc = "chunk" => ChunkSync
    /\ pc = "rest" => RestSync
    /\ pc = "dispatch" => DispatchSync

\* The thread with the mutex is the one that sends, on an open socket.
TxOK ==
    /\ sendguard = Handler => pc = "hello"
    /\ \A t \in Threads :
          IF sendguard = t THEN sock = "open" /\ outleft[t] > 0
                           ELSE outleft[t] = 0
    /\ sock = "open" =>
          unfinished = IF sendguard = None THEN None
                       ELSE IF outleft[sendguard] = OutTotal THEN None
                       ELSE sendguard

\* TypeOK in two parts, of the receiving and of the sending side.
RxTypes ==
    /\ pc \in Receiving \cup {"idle", "hello", "dispatch", "leave", "undefined"}
    /\ left \in Nat /\ rd \in Nat /\ skip \in Nat /\ done \in Nat
    /\ arrived \in Nat /\ rd <= arrived /\ arrived <= LastEnd
    /\ hdr \in [at : Nat, len : Lens \cup {0}, kind : Kinds \ {"bad"}]
    /\ rxbuf \in [1 .. BufLen -> Nat \cup {Foreign}]
    /\ failed \in BOOLEAN

TxTypes ==
    /\ sock \in {"none", "open", "closed"}
    /\ sendguard \in Threads \cup {None}
    /\ outleft \in [Threads -> 0 .. OutTotal]
    /\ unfinished \in Threads \cup {None}

IInv == RxTypes /\ TxTypes /\ QueueOK /\ SyncOK /\ TxOK

-----------------------------------------------------------------------------
(* The stream                                                              *)

LEMMA RlenRange ==
  ASSUME NEW m, m.len \in Nat
  PROVE  Rlen(m) \in 0 .. BufLen /\ Rlen(m) <= m.len
BY DEF Rlen

LEMMA MsgTypes ==
  ASSUME QueueOK, NEW i \in 1 .. Len(msgs)
  PROVE  /\ msgs[i] \in Message /\ msgs[i].at \in Nat /\ msgs[i].len \in Nat
         /\ EndOf(msgs[i]) \in Nat /\ msgs[i].at < EndOf(msgs[i])
<1>1. msgs[i] \in Message
  BY DEF QueueOK
<1>2. msgs[i].at \in Nat /\ msgs[i].len \in Lens
  BY <1>1 DEF Message
<1>3. msgs[i].len \in Nat
  BY <1>2
<1>. QED
  BY <1>1, <1>2, <1>3 DEF EndOf

LEMMA QueueAppend ==
  ASSUME QueueOK, NEW len \in Lens, NEW kind \in Kinds,
         msgs' = Append(msgs, [at |-> LastEnd, len |-> len, kind |-> kind])
  PROVE  /\ QueueOK' /\ LastEnd <= LastEnd'
         /\ Len(msgs') = Len(msgs) + 1
         /\ \A i \in 1 .. Len(msgs) : msgs'[i] = msgs[i]
<1>. DEFINE m == [at |-> LastEnd, len |-> len, kind |-> kind]
<1>1. m \in Message /\ m.at = LastEnd /\ m.len = len
  BY DEF QueueOK, Message
<1>2. msgs \in Seq(Message) /\ Len(msgs) \in Nat
  BY DEF QueueOK
<1>3. /\ msgs' \in Seq(Message) /\ Len(msgs') = Len(msgs) + 1
      /\ \A i \in 1 .. Len(msgs) : msgs'[i] = msgs[i]
      /\ msgs'[Len(msgs) + 1] = m
  <2>1. msgs' = Append(msgs, m)
    OBVIOUS
  <2>. HIDE DEF m
  <2>. QED
    BY <1>1, <1>2, <2>1
<1>4. EndOf(m) = LastEnd + HeadLen + len /\ len \in Nat
  BY <1>1 DEF EndOf
<1>. HIDE DEF m
<1>5. LastEnd' = EndOf(m)
  <2>1. msgs' # <<>>
    BY <1>2, <1>3
  <2>. QED
    BY <1>2, <1>3, <2>1 DEF LastEnd, EndOf
<1>6. LastEnd' \in Nat /\ LastEnd <= LastEnd' /\ LastEnd \in Nat
  BY <1>4, <1>5 DEF QueueOK
<1>7. ASSUME NEW i \in 1 .. Len(msgs')
      PROVE  /\ msgs'[i].at = IF i = 1 THEN 0 ELSE EndOf(msgs'[i - 1])
             /\ EndOf(msgs'[i]) <= LastEnd'
  <2>1. CASE i \in 1 .. Len(msgs)
    <3>1. msgs'[i] = msgs[i] /\ (i # 1 => msgs'[i - 1] = msgs[i - 1])
      BY <1>2, <1>3, <2>1
    <3>2. EndOf(msgs[i]) \in Nat /\ EndOf(msgs[i]) <= LastEnd
      BY <2>1, MsgTypes DEF QueueOK
    <3>. QED
      BY <1>6, <2>1, <3>1, <3>2 DEF QueueOK
  <2>2. CASE i = Len(msgs) + 1
    <3>1. msgs'[i] = m
      BY <1>3, <2>2
    <3>2. i # 1 => msgs # <<>> /\ msgs'[i - 1] = msgs[Len(msgs)]
      BY <1>2, <1>3, <2>2
    <3>3. i = 1 => msgs = <<>>
      BY <1>2, <2>2
    <3>4. LastEnd = IF i = 1 THEN 0 ELSE EndOf(msgs'[i - 1])
      BY <3>2, <3>3 DEF LastEnd
    <3>. QED
      BY <1>1, <1>5, <1>6, <3>1, <3>4
  <2>. QED
    BY <1>2, <1>3, <1>7, <2>1, <2>2
<1>8. ASSUME NEW i \in 1 .. Len(msgs'), NEW j \in 1 .. Len(msgs'), i < j
      PROVE  EndOf(msgs'[i]) <= msgs'[j].at
  <2>1. i \in 1 .. Len(msgs) /\ msgs'[i] = msgs[i]
    BY <1>2, <1>3, <1>8
  <2>2. CASE j \in 1 .. Len(msgs)
    BY <1>3, <1>8, <2>1, <2>2 DEF QueueOK
  <2>3. CASE j = Len(msgs) + 1
    BY <1>1, <1>3, <2>1, <2>3 DEF QueueOK
  <2>. QED
    BY <1>2, <1>3, <2>2, <2>3
<1>. QED
  BY <1>3, <1>6, <1>7, <1>8 DEF QueueOK, EndOf

LEMMA QueueInductive ==
  ASSUME IInv, [Next]_vars PROVE QueueOK'
<1>. QueueOK
  BY DEF IInv
<1>1. ASSUME NEW len \in Lens, NEW kind \in Kinds, PeerSends(len, kind)
      PROVE  QueueOK'
  BY <1>1, QueueAppend DEF PeerSends
<1>2. CASE msgs' = <<>>
  BY <1>2 DEF QueueOK, LastEnd
<1>3. CASE UNCHANGED msgs
  BY <1>3 DEF QueueOK, LastEnd, EndOf
<1>4. CASE \E t \in Threads : psc_send(t) \/ Send(t)
  BY <1>3, <1>4 DEF psc_send, Send, psc_sendall, SendError
<1>5. CASE Receive \/ RecvFails \/ Arrive \/ Leave \/ Connect
  BY <1>2, <1>3, <1>5 DEF Receive, psc_recvall, psc_recvhead, BodyReceived,
     ChunkSkipped, RestSkipped, client_msg, RecvFails, Arrive, Leave, Connect
<1>6. CASE UNCHANGED vars
  BY <1>3, <1>6 DEF vars
<1>. QED
  BY <1>1, <1>4, <1>5, <1>6 DEF Next

-----------------------------------------------------------------------------
(* The sending side                                                        *)

\* Receiving never touches the mutex or the words to be sent.
LEMMA ReceiveFrame ==
  ASSUME Receive \/ RecvFails PROVE UNCHANGED <<msgs, arrived, sock, tx>>
BY DEF Receive, psc_recvall, psc_recvhead, BodyReceived, ChunkSkipped,
   RestSkipped, client_msg, RecvFails

LEMMA TxFrame ==
  ASSUME TxTypes, TxOK, UNCHANGED <<sock, tx>>, pc = "hello" => pc' = "hello"
  PROVE  TxTypes' /\ TxOK'
BY DEF TxTypes, TxOK, tx

LEMMA SendTx ==
  ASSUME IInv, NEW t \in Threads, psc_send(t) PROVE TxTypes' /\ TxOK'
<1>. USE DEF IInv
<1>1. OutTotal \in Nat \ {0} /\ t # None /\ Handler # None
  BY DEF OutTotal, Threads
<1>2. CASE sock = "open"
  <2>1. /\ sendguard' = t /\ outleft' = [outleft EXCEPT ![t] = OutTotal]
        /\ UNCHANGED <<pc, left, sock, unfinished>>
    BY <1>2 DEF psc_send
  <2>2. sendguard = None /\ (t = Handler => pc = "hello")
    BY DEF psc_send
  <2>3. TxTypes'
    BY <1>1, <2>1 DEF TxTypes
  <2>4. unfinished' = None /\ outleft'[t] = OutTotal
    BY <1>2, <2>1, <2>2 DEF TxOK, TxTypes
  <2>5. \A u \in Threads : IF sendguard' = u
                           THEN sock' = "open" /\ outleft'[u] > 0
                           ELSE outleft'[u] = 0
    <3>1. outleft'[t] > 0 /\ sock' = "open"
      BY <1>1, <1>2, <2>1, <2>4
    <3>2. \A u \in Threads : u # t => outleft'[u] = 0
      <4>1. \A u \in Threads : sendguard # u
        BY <2>2 DEF Threads
      <4>2. \A u \in Threads : outleft[u] = 0
        BY <4>1 DEF TxOK
      <4>. QED
        BY <2>1, <4>2 DEF TxTypes
    <3>. QED
      BY <2>1, <3>1, <3>2
  <2>. QED
    BY <1>1, <2>1, <2>2, <2>3, <2>4, <2>5 DEF TxOK
<1>3. CASE sock # "open"
  <2>1. sendguard = None /\ UNCHANGED <<sendguard, outleft, sock, unfinished>>
    BY <1>3 DEF psc_send
  <2>. QED
    BY <1>1, <1>3, <2>1 DEF TxOK, TxTypes
<1>. QED
  BY <1>2, <1>3

LEMMA SendallTx ==
  ASSUME IInv, NEW t \in Threads, NEW n \in 1 .. OutTotal, psc_sendall(t, n)
  PROVE  TxTypes' /\ TxOK'
<1>. USE DEF IInv
<1>1. /\ OutTotal \in Nat \ {0} /\ t # None /\ Handler # None
      /\ None \notin Threads
  BY DEF OutTotal, Threads
<1>2. /\ sendguard = t /\ n <= outleft[t] /\ outleft[t] \in 0 .. OutTotal
      /\ outleft' = [outleft EXCEPT ![t] = @ - n] /\ sock' = sock
  BY DEF psc_sendall, TxTypes
<1>3. /\ outleft'[t] = outleft[t] - n /\ outleft'[t] \in 0 .. OutTotal
      /\ outleft'[t] # OutTotal
      /\ \A u \in Threads : u # t => outleft'[u] = 0
  BY <1>1, <1>2 DEF TxOK, TxTypes
<1>4. outleft' \in [Threads -> 0 .. OutTotal]
  BY <1>1, <1>2, <1>3 DEF TxTypes
<1>5. CASE n = outleft[t]
  <2>1. sendguard' = None /\ unfinished' = None /\ outleft'[t] = 0
    BY <1>2, <1>3, <1>5 DEF psc_sendall
  <2>. QED
    BY <1>1, <1>2, <1>3, <1>4, <2>1 DEF TxOK, TxTypes
<1>6. CASE n # outleft[t]
  <2>1. unfinished' = t /\ sendguard' = t /\ pc' = pc /\ outleft'[t] > 0
    BY <1>2, <1>3, <1>6 DEF psc_sendall
  <2>. QED
    BY <1>1, <1>2, <1>3, <1>4, <2>1 DEF TxOK, TxTypes
<1>. QED
  BY <1>5, <1>6

LEMMA SendErrorTx ==
  ASSUME IInv, NEW t \in Threads, SendError(t) PROVE TxTypes' /\ TxOK'
<1>. USE DEF IInv
<1>1. OutTotal \in Nat \ {0} /\ Handler # None /\ None \notin Threads
  BY DEF OutTotal, Threads
<1>2. /\ sock' = "closed" /\ sendguard' = None /\ unfinished' = unfinished
      /\ outleft' = [outleft EXCEPT ![t] = 0] /\ sendguard = t
  BY DEF SendError
<1>3. \A u \in Threads : outleft'[u] = 0
  BY <1>2 DEF TxOK, TxTypes
<1>4. outleft' \in [Threads -> 0 .. OutTotal]
  BY <1>1, <1>2 DEF TxTypes
<1>. QED
  BY <1>1, <1>2, <1>3, <1>4 DEF TxOK, TxTypes

LEMMA TxInductive ==
  ASSUME IInv, [Next]_vars PROVE TxTypes' /\ TxOK'
<1>. USE DEF IInv
<1>1. CASE Receive \/ RecvFails
  <2>1. pc # "hello" /\ UNCHANGED <<sock, tx>>
    BY <1>1 DEF Receive, psc_recvall, psc_recvhead, BodyReceived, ChunkSkipped,
       RestSkipped, client_msg, RecvFails, Receiving
  <2>. QED
    BY <2>1, TxFrame
<1>2. ASSUME NEW t \in Threads, psc_send(t) \/ Send(t) PROVE TxTypes' /\ TxOK'
  BY <1>2, SendTx, SendallTx, SendErrorTx DEF Send
<1>3. CASE Connect
  BY <1>3 DEF Connect, TxOK, TxTypes, Threads
<1>4. CASE Leave
  BY <1>4 DEF Leave, TxOK, TxTypes, Threads, tx
<1>5. CASE Arrive \/ \E len \in Lens, kind \in Kinds : PeerSends(len, kind)
  BY <1>5, TxFrame DEF Arrive, PeerSends, rx
<1>6. CASE UNCHANGED vars
  BY <1>6, TxFrame DEF vars, rx
<1>. QED
  BY <1>1, <1>2, <1>3, <1>4, <1>5, <1>6 DEF Next

-----------------------------------------------------------------------------
(* The receiving side                                                      *)

LEMMA ServedNat ==
  ASSUME IInv PROVE Served \in Nat
<1>1. done \in Nat /\ done <= Len(msgs) /\ Len(msgs) \in Nat
  BY DEF IInv, RxTypes, SyncOK, QueueOK
<1>2. CASE done = 0
  BY <1>2 DEF Served
<1>3. CASE done # 0
  BY <1>1, <1>3, MsgTypes DEF IInv, Served
<1>. QED
  BY <1>2, <1>3

\* The message that is dispatched next begins where the last one ended.
LEMMA NextBegins ==
  ASSUME IInv, done < Len(msgs)
  PROVE  /\ msgs[done + 1].at = Served /\ msgs[done + 1] \in Message
         /\ done + 1 \in 1 .. Len(msgs)
<1>1. done \in Nat /\ Len(msgs) \in Nat
  BY DEF IInv, RxTypes, QueueOK
<1>2. done + 1 \in 1 .. Len(msgs)
  BY <1>1
<1>3. PICK i \in 1 .. Len(msgs) : i = done + 1
  BY <1>2
<1>4. msgs[i].at = IF i = 1 THEN 0 ELSE EndOf(msgs[i - 1])
  BY DEF IInv, QueueOK
<1>5. i - 1 = done /\ (i = 1 <=> done = 0)
  BY <1>1, <1>3
<1>6. msgs[i].at = Served
  BY <1>4, <1>5 DEF Served
<1>7. msgs[i] \in Message
  BY MsgTypes DEF IInv
<1>. QED
  BY <1>2, <1>3, <1>6, <1>7

LEMMA HdrTypes ==
  ASSUME IInv
  PROVE  /\ hdr.at \in Nat /\ hdr.len \in Nat
         /\ Rlen(hdr) \in 0 .. BufLen /\ Rlen(hdr) <= hdr.len
         /\ EndOf(hdr) = hdr.at + HeadLen + hdr.len
<1>1. hdr.at \in Nat /\ hdr.len \in Lens \cup {0}
  BY DEF IInv, RxTypes
<1>2. hdr.len \in Nat
  <2>1. Lens \cup {0} \subseteq Nat
    OBVIOUS
  <2>. QED
    BY <1>1, <2>1, Zenon
<1>. QED
  BY <1>1, <1>2, RlenRange DEF EndOf

\* What the position in the stream means does not depend on what follows.
LEMMA PeerSendsRx ==
  ASSUME IInv, NEW len \in Lens, NEW kind \in Kinds, PeerSends(len, kind)
  PROVE  RxTypes' /\ SyncOK'
<1>. USE DEF IInv
<1>1. /\ LastEnd <= LastEnd' /\ Len(msgs') = Len(msgs) + 1
      /\ \A i \in 1 .. Len(msgs) : msgs'[i] = msgs[i]
      /\ LastEnd \in Nat /\ LastEnd' \in Nat
  BY QueueAppend DEF PeerSends, QueueOK
<1>2. UNCHANGED <<arrived, pc, left, rd, hdr, skip, rxbuf, acted, done, failed>>
  BY DEF PeerSends, rx
<1>3. RxTypes'
  BY <1>1, <1>2 DEF RxTypes
<1>4. done \in Nat /\ done <= Len(msgs) /\ Len(msgs) \in Nat
  BY DEF RxTypes, SyncOK, QueueOK
<1>5. Served' = Served
  <2>1. CASE done = 0
    BY <1>2, <2>1 DEF Served
  <2>2. CASE done # 0
    <3>1. msgs'[done] = msgs[done]
      BY <1>1, <1>4, <2>2
    <3>. QED
      BY <1>2, <2>2, <3>1 DEF Served, EndOf
  <2>. QED
    BY <2>1, <2>2
<1>6. Current => Current'
  BY <1>1, <1>2, <1>4 DEF Current
<1>7. \A n : Holds(n) => Holds(n)'
  BY <1>2 DEF Holds, Own
<1>8. OnlyOld => OnlyOld'
  BY <1>2, <1>5 DEF OnlyOld
<1>9. Rlen(hdr)' = Rlen(hdr) /\ EndOf(hdr)' = EndOf(hdr)
  BY <1>2 DEF Rlen, EndOf
<1>10. pc = "hello" => HelloSync'
  BY <1>2, <1>8 DEF SyncOK, HelloSync
<1>11. pc = "head" => HeadSync'
  BY <1>2, <1>5, <1>8 DEF SyncOK, HeadSync
<1>12. Holds(Rlen(hdr)) => Holds(Rlen(hdr))'
  BY <1>2, <1>9 DEF Holds, Own
<1>13. pc = "body" => BodySync'
  <2>1. Holds(Rlen(hdr) - left) => Holds(Rlen(hdr) - left)'
    BY <1>2, <1>9 DEF Holds, Own
  <2>. QED
    BY <1>2, <1>6, <1>9, <2>1 DEF SyncOK, BodySync
<1>14. pc = "chunk" => ChunkSync'
  BY <1>2, <1>6, <1>9, <1>12 DEF SyncOK, ChunkSync
<1>15. pc = "rest" => RestSync'
  BY <1>2, <1>6, <1>9, <1>12 DEF SyncOK, RestSync
<1>16. pc = "dispatch" => DispatchSync'
  BY <1>2, <1>6, <1>9, <1>12 DEF SyncOK, DispatchSync
<1>. QED
  BY <1>1, <1>2, <1>3, <1>4, <1>10, <1>11, <1>13, <1>14, <1>15, <1>16 DEF SyncOK

\* Steps that leave the receiving side alone.
LEMMA RxFrame ==
  ASSUME IInv, UNCHANGED <<msgs, rx>>, arrived' \in Nat,
         rd <= arrived', arrived' <= LastEnd
  PROVE  RxTypes' /\ SyncOK'
<1>1. RxTypes'
  BY DEF IInv, RxTypes, rx, LastEnd, EndOf
<1>2. SyncOK'
  BY DEF IInv, SyncOK, HelloSync, HeadSync, BodySync, ChunkSync, RestSync,
     DispatchSync, Current, Holds, OnlyOld, Served, EndOf, Own, Rlen, rx
<1>. QED
  BY <1>1, <1>2

LEMMA ConnectRx ==
  ASSUME IInv, Connect PROVE RxTypes' /\ SyncOK'
<1>1. /\ pc' = "hello" /\ msgs' = <<>> /\ arrived' = 0 /\ rd' = 0 /\ done' = 0
      /\ failed' = FALSE /\ UNCHANGED <<left, hdr, skip>>
      /\ rxbuf' = [k \in 1 .. BufLen |-> Zero]
  BY DEF Connect, Memset
<1>2. LastEnd' = 0 /\ Served' = 0 /\ Len(msgs') = 0
  BY <1>1 DEF LastEnd, Served
<1>3. rxbuf' \in [1 .. BufLen -> Nat \cup {Foreign}]
  BY <1>1 DEF Zero
<1>4. RxTypes'
  <2>1. /\ arrived' \in Nat /\ rd' \in Nat /\ done' \in Nat
        /\ rd' <= arrived' /\ arrived' <= LastEnd'
    BY <1>1, <1>2
  <2>2. failed' \in BOOLEAN
    BY <1>1
  <2>. QED
    BY <1>1, <1>3, <2>1, <2>2 DEF IInv, RxTypes
<1>5. OnlyOld'
  BY <1>1, <1>2 DEF OnlyOld, Zero
<1>. QED
  BY <1>1, <1>2, <1>4, <1>5 DEF SyncOK, HelloSync

LEMMA LeaveRx ==
  ASSUME IInv, Leave PROVE RxTypes' /\ SyncOK'
<1>1. /\ pc' = "idle" /\ left' = 0 /\ hdr' = NoMsg /\ skip' = 0
      /\ UNCHANGED <<msgs, arrived, rd, done, failed>>
      /\ rxbuf' = [k \in 1 .. BufLen |-> Zero]
  BY DEF Leave, Memset
<1>2. hdr' \in [at : Nat, len : Lens \cup {0}, kind : Kinds \ {"bad"}]
  BY <1>1 DEF NoMsg, Kinds
<1>3. rxbuf' \in [1 .. BufLen -> Nat \cup {Foreign}]
  BY <1>1 DEF Zero
<1>4. RxTypes'
  BY <1>1, <1>2, <1>3 DEF IInv, RxTypes, LastEnd, EndOf
<1>. QED
  BY <1>1, <1>4 DEF IInv, SyncOK

\* A recv that fails ends the thread, or leaves psc_recvskip where it cannot
\* come to its end.
LEMMA RecvFailsRx ==
  ASSUME IInv, RecvFails PROVE RxTypes' /\ SyncOK'
<1>1. /\ failed' = TRUE
      /\ UNCHANGED <<msgs, arrived, rd, hdr, skip, rxbuf, done>>
  BY DEF RecvFails
<1>2. CASE pc = "chunk"
  <2>1. pc' = "rest" /\ left' = skip
    BY <1>2 DEF RecvFails, Expect
  <2>2. skip > Chunk /\ skip \in Nat
    BY <1>2 DEF IInv, SyncOK, ChunkSync, RxTypes
  <2>3. RxTypes'
    BY <1>1, <2>1 DEF IInv, RxTypes, Receiving, LastEnd, EndOf
  <2>4. RestSync'
    BY <1>1, <2>1, <2>2 DEF RestSync
  <2>. QED
    BY <1>1, <2>1, <2>3, <2>4 DEF IInv, SyncOK
<1>3. CASE pc # "chunk"
  <2>1. pc' = "leave" /\ left' = 0
    BY <1>3 DEF RecvFails, Expect
  <2>2. RxTypes'
    BY <1>1, <2>1 DEF IInv, RxTypes, LastEnd, EndOf
  <2>. QED
    BY <1>1, <2>1, <2>2 DEF IInv, SyncOK
<1>. QED
  BY <1>2, <1>3

\* The words after the last message dispatched are the header of the next one.
LEMMA RecvheadRx ==
  ASSUME IInv, psc_recvhead PROVE RxTypes' /\ SyncOK'
<1>1. /\ pc = "head" /\ left = 0
      /\ UNCHANGED <<msgs, arrived, rd, skip, rxbuf, done, failed>>
  BY DEF psc_recvhead
<1>2. /\ rd = Served + HeadLen /\ OnlyOld /\ rd \in Nat /\ Served \in Nat
      /\ done \in Nat /\ done <= Len(msgs) /\ Len(msgs) \in Nat
  BY <1>1, ServedNat DEF IInv, SyncOK, HeadSync, RxTypes, QueueOK
<1>3. Served < LastEnd /\ LastEnd \in Nat
  BY <1>2 DEF IInv, RxTypes, QueueOK
<1>4. done < Len(msgs)
  <2>1. CASE done = Len(msgs)
    <3>1. Served = LastEnd
      BY <1>2, <2>1 DEF Served, LastEnd, IInv, QueueOK
    <3>. QED
      BY <1>3, <3>1
  <2>. QED
    BY <1>2, <2>1
<1>5. /\ msgs[done + 1].at = Served /\ msgs[done + 1] \in Message
      /\ done + 1 \in 1 .. Len(msgs)
  BY <1>4, NextBegins
<1>6. ASSUME NEW i \in 1 .. Len(msgs), msgs[i].at = Served PROVE i = done + 1
  <2>1. \A a, b \in 1 .. Len(msgs) : a < b => msgs[a].at < msgs[b].at
    <3>1. ASSUME NEW a \in 1 .. Len(msgs), NEW b \in 1 .. Len(msgs), a < b
          PROVE  msgs[a].at < msgs[b].at
      <4>1. EndOf(msgs[a]) <= msgs[b].at
        BY <3>1 DEF IInv, QueueOK
      <4>2. /\ msgs[a].at \in Nat /\ EndOf(msgs[a]) \in Nat
            /\ msgs[a].at < EndOf(msgs[a]) /\ msgs[b].at \in Nat
        BY MsgTypes DEF IInv
      <4>. QED
        BY <4>1, <4>2
    <3>. QED
      BY <3>1
  <2>2. ~(i < done + 1) /\ ~(done + 1 < i)
    BY <1>2, <1>5, <1>6, <2>1
  <2>. QED
    BY <1>2, <2>2
<1>7. Headers(rd - HeadLen) = {msgs[done + 1]}
  <2>1. rd - HeadLen = Served
    BY <1>2
  <2>2. {n \in 1 .. Len(msgs) : msgs[n].at = Served} = {done + 1}
    BY <1>5, <1>6
  <2>. QED
    BY <2>1, <2>2 DEF Headers
<1>. DEFINE m == msgs[done + 1]
<1>8. IF m.kind = "bad" THEN Expect("leave", 0) /\ UNCHANGED hdr
                        ELSE Expect("body", Rlen(m)) /\ hdr' = m
  BY <1>7 DEF psc_recvhead
<1>9. m.at = Served /\ m.len \in Nat /\ Rlen(m) \in 0 .. BufLen
  BY <1>5, RlenRange, MsgTypes DEF IInv
<1>10. CASE m.kind = "bad"
  <2>1. pc' = "leave" /\ left' = 0 /\ hdr' = hdr
    BY <1>8, <1>10 DEF Expect
  <2>2. RxTypes'
    BY <1>1, <2>1 DEF IInv, RxTypes, LastEnd, EndOf
  <2>. QED
    BY <1>1, <2>1, <2>2 DEF IInv, SyncOK
<1>11. CASE m.kind # "bad"
  <2>1. pc' = "body" /\ left' = Rlen(m) /\ hdr' = m
    BY <1>8, <1>11 DEF Expect
  <2>2. m \in [at : Nat, len : Lens \cup {0}, kind : Kinds \ {"bad"}]
    BY <1>5, <1>11 DEF Message
  <2>3. RxTypes'
    BY <1>1, <1>9, <2>1, <2>2 DEF IInv, RxTypes, Receiving, LastEnd, EndOf
  <2>4. Current'
    BY <1>1, <1>4, <2>1 DEF Current
  <2>5. Rlen(hdr)' = Rlen(m) /\ hdr'.at = Served
    BY <1>9, <2>1 DEF Rlen
  <2>6. Rlen(hdr)' - left' = 0
    BY <1>9, <2>1, <2>5
  <2>7. Holds(Rlen(hdr) - left)'
    <3>1. \A k \in 1 .. BufLen : rxbuf'[k] \in 0 .. hdr'.at /\ ~(k <= 0)
      BY <1>1, <1>2, <2>5 DEF OnlyOld
    <3>. QED
      BY <2>6, <3>1 DEF Holds
  <2>8. BodySync'
    BY <1>1, <1>2, <1>9, <2>1, <2>4, <2>5, <2>7 DEF BodySync
  <2>. QED
    BY <1>1, <2>1, <2>3, <2>8 DEF IInv, SyncOK
<1>. QED
  BY <1>10, <1>11

\* Words come in: each goes to its place in rxbuf, or is dropped.
LEMMA RecvallRx ==
  ASSUME IInv, psc_recvall PROVE RxTypes' /\ SyncOK'
<1>. DEFINE m == Min2(left, arrived - rd)
            from == Rlen(hdr) - left
<1>1. /\ pc \in Receiving /\ left > 0 /\ rd < arrived
      /\ rd' = rd + m /\ left' = left - m
      /\ UNCHANGED <<msgs, arrived, hdr, skip, done, failed>>
  BY DEF psc_recvall
<1>2. /\ rd \in Nat /\ arrived \in Nat /\ left \in Nat /\ skip \in Nat
      /\ arrived <= LastEnd
  BY DEF IInv, RxTypes
<1>3. m \in 1 .. left /\ rd + m <= arrived
  BY <1>1, <1>2 DEF Min2
<1>. HIDE DEF m
<1>4. /\ rd' \in Nat /\ left' \in Nat /\ rd' <= arrived' /\ arrived' \in Nat
      /\ rd' + left' = rd + left /\ left' <= left
  BY <1>1, <1>2, <1>3
<1>5. /\ hdr.at \in Nat /\ hdr.len \in Nat
      /\ Rlen(hdr) \in 0 .. BufLen /\ Rlen(hdr) <= hdr.len
      /\ EndOf(hdr) = hdr.at + HeadLen + hdr.len
  BY HdrTypes
<1>6. /\ Rlen(hdr)' = Rlen(hdr) /\ EndOf(hdr)' = EndOf(hdr)
      /\ Served' = Served /\ LastEnd' = LastEnd /\ (Current => Current')
  BY <1>1 DEF Rlen, EndOf, Served, LastEnd, Current
<1>7. /\ rxbuf' = IF pc # "body" THEN rxbuf ELSE
              [k \in 1 .. BufLen |->
                  IF k \in from + 1 .. from + m THEN rd + k - from ELSE rxbuf[k]]
      /\ pc' = IF pc = "rest" /\ skip - left + m > Chunk THEN "undefined" ELSE pc
  BY DEF psc_recvall, m
<1>8. rxbuf' \in [1 .. BufLen -> Nat \cup {Foreign}]
  <2>1. CASE pc # "body"
    BY <1>7, <2>1 DEF IInv, RxTypes
  <2>2. CASE pc = "body"
    <3>1. \A k \in 1 .. BufLen : k \in from + 1 .. from + m => rd + k - from \in Nat
      BY <1>2, <1>3, <1>5
    <3>2. \A k \in 1 .. BufLen : rxbuf[k] \in Nat \cup {Foreign}
      BY DEF IInv, RxTypes
    <3>. QED
      BY <1>7, <2>2, <3>1, <3>2
  <2>. QED
    BY <2>1, <2>2
<1>9. RxTypes'
  BY <1>1, <1>2, <1>4, <1>6, <1>7, <1>8 DEF IInv, RxTypes
<1>10. CASE pc = "head"
  <2>1. pc' = "head" /\ rxbuf' = rxbuf
    BY <1>7, <1>10
  <2>2. HeadSync'
    BY <1>4, <1>6, <1>10, <2>1 DEF IInv, SyncOK, HeadSync, OnlyOld
  <2>. QED
    BY <1>1, <1>9, <2>1, <2>2 DEF IInv, SyncOK
<1>11. CASE pc = "body"
  <2>1. pc' = "body"
    BY <1>7, <1>11
  <2>2. BodySync
    BY <1>11 DEF IInv, SyncOK
  <2>3. \A k \in 1 .. BufLen :
           /\ k <= Rlen(hdr) - left' => rxbuf'[k] = Own(hdr, k)
           /\ k > Rlen(hdr) - left' => rxbuf'[k] \in 0 .. hdr.at
    <3>. TAKE k \in 1 .. BufLen
    <3>1. /\ k <= from => rxbuf[k] = Own(hdr, k)
          /\ k > from => rxbuf[k] \in 0 .. hdr.at
      BY <2>2 DEF BodySync, Holds
    <3>2. rxbuf'[k] = IF k \in from + 1 .. from + m THEN rd + k - from
                      ELSE rxbuf[k]
      BY <1>7, <1>11
    <3>3. rd + k - from = Own(hdr, k)
      BY <1>2, <1>5, <2>2 DEF BodySync, Own
    <3>4. from \in Int /\ Rlen(hdr) - left' = from + m
      BY <1>1, <1>2, <1>3, <1>5
    <3>. HIDE DEF from
    <3>. QED
      BY <1>3, <3>1, <3>2, <3>3, <3>4
  <2>4. Holds(Rlen(hdr) - left)'
    BY <1>1, <1>6, <2>3 DEF Holds, Own
  <2>5. BodySync'
    BY <1>1, <1>2, <1>4, <1>5, <1>6, <2>2, <2>4 DEF BodySync
  <2>. QED
    BY <1>1, <1>9, <2>1, <2>5 DEF IInv, SyncOK
<1>12. Holds(Rlen(hdr)) /\ pc # "body" => Holds(Rlen(hdr))'
  BY <1>1, <1>6, <1>7 DEF Holds, Own
<1>13. CASE pc = "chunk"
  <2>1. pc' = "chunk"
    BY <1>7, <1>13
  <2>2. ChunkSync
    BY <1>13 DEF IInv, SyncOK
  <2>3. rd' + left' + (skip' - Chunk) = EndOf(hdr)'
    BY <1>1, <1>2, <1>4, <1>6, <2>2 DEF ChunkSync
  <2>4. ChunkSync'
    BY <1>1, <1>2, <1>4, <1>6, <1>12, <1>13, <2>2, <2>3 DEF ChunkSync
  <2>. QED
    BY <1>1, <1>9, <2>1, <2>4 DEF IInv, SyncOK
<1>14. CASE pc = "rest" /\ pc' = "rest"
  <2>1. RestSync /\ skip - left + m <= Chunk
    BY <1>2, <1>3, <1>7, <1>14 DEF IInv, SyncOK
  <2>2. skip' - left' <= Chunk
    BY <1>1, <1>2, <1>3, <2>1
  <2>3. RestSync'
    BY <1>1, <1>2, <1>4, <1>6, <1>12, <1>14, <2>1, <2>2 DEF RestSync
  <2>. QED
    BY <1>1, <1>9, <1>14, <2>3 DEF IInv, SyncOK
<1>15. CASE pc' = "undefined"
  BY <1>1, <1>9, <1>15 DEF IInv, SyncOK
<1>. QED
  BY <1>1, <1>7, <1>10, <1>11, <1>13, <1>14, <1>15 DEF Receiving

\* The loop of psc_recvskip.
LEMMA SkipRx ==
  ASSUME IInv, NEW n \in Nat, Skip(n), Current, rd + n = EndOf(hdr),
         Holds(Rlen(hdr)), UNCHANGED <<msgs, arrived, rd, hdr, rxbuf, done, failed>>
  PROVE  RxTypes' /\ SyncOK'
<1>1. skip' = n /\ pc' = (IF n > Chunk THEN "chunk" ELSE "rest")
      /\ left' = (IF n > Chunk THEN Chunk ELSE n)
  BY DEF Skip, Expect
<1>2. rd \in Nat /\ RxTypes'
  BY <1>1 DEF IInv, RxTypes, Receiving, LastEnd, EndOf
<1>3. /\ Current' /\ Holds(Rlen(hdr))' /\ EndOf(hdr)' = EndOf(hdr)
  BY DEF Current, Holds, Own, Rlen, EndOf
<1>4. CASE n > Chunk
  BY <1>1, <1>2, <1>3, <1>4 DEF IInv, SyncOK, ChunkSync
<1>5. CASE ~(n > Chunk)
  BY <1>1, <1>2, <1>3, <1>5 DEF IInv, SyncOK, RestSync
<1>. QED
  BY <1>4, <1>5

LEMMA DispatchRx ==
  ASSUME IInv, Expect("dispatch", 0), Current, rd = EndOf(hdr), Holds(Rlen(hdr)),
         UNCHANGED <<msgs, arrived, rd, hdr, skip, rxbuf, done, failed>>
  PROVE  RxTypes' /\ SyncOK'
<1>1. pc' = "dispatch" /\ left' = 0
  BY DEF Expect
<1>2. RxTypes'
  BY <1>1 DEF IInv, RxTypes, LastEnd, EndOf
<1>3. DispatchSync'
  BY DEF DispatchSync, Current, Holds, Own, Rlen, EndOf
<1>. QED
  BY <1>1, <1>2, <1>3 DEF IInv, SyncOK

LEMMA BodyReceivedRx ==
  ASSUME IInv, BodyReceived PROVE RxTypes' /\ SyncOK'
<1>1. /\ pc = "body" /\ left = 0
      /\ UNCHANGED <<msgs, arrived, rd, hdr, rxbuf, done, failed>>
  BY DEF BodyReceived
<1>2. Current /\ rd + 0 = hdr.at + HeadLen + Rlen(hdr) /\ Holds(Rlen(hdr) - 0)
  BY <1>1 DEF IInv, SyncOK, BodySync
<1>3. /\ hdr.at \in Nat /\ hdr.len \in Nat /\ rd \in Nat
      /\ Rlen(hdr) \in 0 .. BufLen /\ Rlen(hdr) <= hdr.len
      /\ EndOf(hdr) = hdr.at + HeadLen + hdr.len
  BY HdrTypes DEF IInv, RxTypes
<1>4. Rlen(hdr) - 0 = Rlen(hdr)
  BY <1>3
<1>5. Holds(Rlen(hdr))
  BY <1>2, <1>4
<1>6. CASE Rlen(hdr) < hdr.len
  <2>1. hdr.len - Rlen(hdr) \in Nat /\ rd + (hdr.len - Rlen(hdr)) = EndOf(hdr)
    BY <1>2, <1>3
  <2>2. Skip(hdr.len - Rlen(hdr))
    BY <1>6 DEF BodyReceived
  <2>. QED
    BY <1>1, <1>2, <1>5, <2>1, <2>2, SkipRx
<1>7. CASE ~(Rlen(hdr) < hdr.len)
  <2>1. rd = EndOf(hdr)
    BY <1>2, <1>3, <1>7
  <2>2. Expect("dispatch", 0) /\ UNCHANGED skip
    BY <1>7 DEF BodyReceived
  <2>. QED
    BY <1>1, <1>2, <1>5, <2>1, <2>2, DispatchRx
<1>. QED
  BY <1>6, <1>7

LEMMA ChunkSkippedRx ==
  ASSUME IInv, ChunkSkipped PROVE RxTypes' /\ SyncOK'
<1>1. /\ pc = "chunk" /\ left = 0 /\ Skip(skip - Chunk)
      /\ UNCHANGED <<msgs, arrived, rd, hdr, rxbuf, done, failed>>
  BY DEF ChunkSkipped
<1>2. ChunkSync /\ rd \in Nat /\ skip \in Nat
  BY <1>1 DEF IInv, SyncOK, RxTypes
<1>3. skip - Chunk \in Nat /\ rd + (skip - Chunk) = EndOf(hdr)
  BY <1>1, <1>2 DEF ChunkSync
<1>. QED
  BY <1>1, <1>2, <1>3, SkipRx DEF ChunkSync

LEMMA RestSkippedRx ==
  ASSUME IInv, RestSkipped PROVE RxTypes' /\ SyncOK'
<1>1. /\ pc = "rest" /\ left = 0 /\ Expect("dispatch", 0)
      /\ UNCHANGED <<msgs, arrived, rd, hdr, skip, rxbuf, done, failed>>
  BY DEF RestSkipped
<1>2. RestSync /\ rd \in Nat /\ skip \in Nat
  BY <1>1 DEF IInv, SyncOK, RxTypes
<1>3. Current /\ rd + 0 = EndOf(hdr) /\ Holds(Rlen(hdr))
  BY <1>1, <1>2 DEF RestSync
<1>4. rd = EndOf(hdr)
  BY <1>2, <1>3
<1>. QED
  BY <1>1, <1>3, <1>4, DispatchRx

LEMMA ClientMsgRx ==
  ASSUME IInv, client_msg PROVE RxTypes' /\ SyncOK'
<1>1. /\ pc = "dispatch" /\ pc' = "head" /\ left' = HeadLen /\ done' = done + 1
      /\ hdr' = NoMsg /\ skip' = 0
      /\ UNCHANGED <<msgs, arrived, rd, rxbuf, failed>>
  BY DEF client_msg, Expect
<1>2. DispatchSync /\ rd \in Nat /\ done \in Nat /\ Len(msgs) \in Nat
  BY <1>1 DEF IInv, SyncOK, RxTypes, QueueOK
<1>3. /\ hdr.at \in Nat /\ hdr.len \in Nat
      /\ Rlen(hdr) \in 0 .. BufLen /\ Rlen(hdr) <= hdr.len
      /\ EndOf(hdr) = hdr.at + HeadLen + hdr.len
  BY HdrTypes
<1>4. hdr' \in [at : Nat, len : Lens \cup {0}, kind : Kinds \ {"bad"}]
  BY <1>1 DEF NoMsg, Kinds
<1>5. RxTypes'
  BY <1>1, <1>2, <1>4 DEF IInv, RxTypes, Receiving, LastEnd, EndOf
<1>6. Served' = EndOf(hdr) /\ done' <= Len(msgs)
  <2>1. done' # 0
    BY <1>1, <1>2
  <2>. QED
    BY <1>1, <1>2, <2>1 DEF Served, DispatchSync, Current, EndOf
<1>7. OnlyOld'
  <2>1. ASSUME NEW k \in 1 .. BufLen PROVE rxbuf[k] \in 0 .. EndOf(hdr)
    <3>1. /\ k <= Rlen(hdr) => rxbuf[k] = Own(hdr, k)
          /\ k > Rlen(hdr) => rxbuf[k] \in 0 .. hdr.at
      BY <1>2 DEF DispatchSync, Holds
    <3>. QED
      BY <1>3, <3>1 DEF Own
  <2>. QED
    BY <1>1, <1>6, <2>1 DEF OnlyOld
<1>8. HeadSync'
  BY <1>1, <1>2, <1>6, <1>7 DEF HeadSync, DispatchSync
<1>. QED
  BY <1>1, <1>5, <1>6, <1>8 DEF SyncOK

\* client_event is over: the thread receives its first header.
LEMMA HelloRx ==
  ASSUME IInv, pc = "hello", Expect("head", HeadLen),
         UNCHANGED <<msgs, arrived, rd, hdr, skip, rxbuf, done, failed>>
  PROVE  RxTypes' /\ SyncOK'
<1>1. pc' = "head" /\ left' = HeadLen
  BY DEF Expect
<1>2. RxTypes'
  BY <1>1 DEF IInv, RxTypes, Receiving, LastEnd, EndOf
<1>3. rd = 0 /\ done = 0 /\ OnlyOld /\ Served = 0
  BY DEF IInv, SyncOK, HelloSync, Served
<1>4. HeadSync'
  BY <1>1, <1>3 DEF HeadSync, OnlyOld, Served
<1>. QED
  BY <1>1, <1>2, <1>4 DEF IInv, SyncOK

LEMMA SendRx ==
  ASSUME IInv, NEW t \in Threads, psc_send(t) \/ Send(t) PROVE RxTypes' /\ SyncOK'
<1>1. UNCHANGED <<msgs, arrived, rd, hdr, skip, rxbuf, acted, done, failed>>
  BY DEF psc_send, Send, psc_sendall, SendError
<1>2. \/ UNCHANGED <<pc, left>>
      \/ pc = "hello" /\ Expect("head", HeadLen)
  <2>1. sendguard = Handler => pc = "hello"
    BY DEF IInv, TxOK
  <2>. QED
    BY <2>1 DEF psc_send, Send, psc_sendall, SendError, Then
<1>3. CASE UNCHANGED <<pc, left>>
  <2>1. UNCHANGED <<msgs, rx>> /\ arrived' = arrived
    BY <1>1, <1>3 DEF rx
  <2>2. arrived' \in Nat /\ rd <= arrived' /\ arrived' <= LastEnd
    BY <2>1 DEF IInv, RxTypes
  <2>. QED
    BY <2>1, <2>2, RxFrame
<1>4. CASE pc = "hello" /\ Expect("head", HeadLen)
  BY <1>1, <1>4, HelloRx
<1>. QED
  BY <1>2, <1>3, <1>4

LEMMA RxInductive ==
  ASSUME IInv, [Next]_vars PROVE RxTypes' /\ SyncOK'
<1>1. CASE Receive \/ RecvFails
  BY <1>1, RecvallRx, RecvheadRx, BodyReceivedRx, ChunkSkippedRx, RestSkippedRx,
     ClientMsgRx, RecvFailsRx DEF Receive
<1>2. CASE Arrive
  <2>1. UNCHANGED <<msgs, rx>> /\ arrived' = arrived + 1 /\ arrived < LastEnd
    BY <1>2 DEF Arrive
  <2>2. arrived' \in Nat /\ rd <= arrived' /\ arrived' <= LastEnd
    BY <2>1 DEF IInv, RxTypes, QueueOK
  <2>. QED
    BY <2>1, <2>2, RxFrame
<1>3. CASE UNCHANGED vars
  <2>1. UNCHANGED <<msgs, rx>> /\ arrived' = arrived
    BY <1>3 DEF vars
  <2>2. arrived' \in Nat /\ rd <= arrived' /\ arrived' <= LastEnd
    BY <2>1 DEF IInv, RxTypes
  <2>. QED
    BY <2>1, <2>2, RxFrame
<1>. QED
  BY <1>1, <1>2, <1>3, PeerSendsRx, ConnectRx, LeaveRx, SendRx DEF Next

-----------------------------------------------------------------------------
LEMMA InvInitial == Init => IInv
<1>. SUFFICES ASSUME Init PROVE IInv
  OBVIOUS
<1>1. LastEnd = 0 /\ msgs = <<>>
  BY DEF Init, LastEnd
<1>2. QueueOK
  BY <1>1 DEF QueueOK
<1>3. rxbuf \in [1 .. BufLen -> Nat \cup {Foreign}]
  BY DEF Init, Zero
<1>4. hdr \in [at : Nat, len : Lens \cup {0}, kind : Kinds \ {"bad"}]
  BY DEF Init, NoMsg, Kinds
<1>5. failed \in BOOLEAN
  BY DEF Init
<1>6. RxTypes
  BY <1>1, <1>3, <1>4, <1>5 DEF Init, RxTypes
<1>7. SyncOK
  BY <1>1 DEF Init, SyncOK
<1>8. TxTypes
  BY DEF Init, TxTypes, OutTotal
<1>9. TxOK
  BY DEF Init, TxOK, Threads
<1>. QED
  BY <1>2, <1>6, <1>7, <1>8, <1>9 DEF IInv

\* The position in the stream, rxbuf and the words being sent are what IInv says
\* at every step of psc_recvmsg and psc_sendmsg.
THEOREM Invariance == Spec => []IInv
<1>1. IInv /\ [Next]_vars => IInv'
  BY RxInductive, TxInductive, QueueInductive DEF IInv
<1>. QED
  BY <1>1, InvInitial, PTL DEF Spec

\* For every buffer and chunk length no receive asks for more than its buffer
\* holds, except in psc_recvskip after a failed recv, and counts stay natural.
THEOREM TypeCorrect == Spec => []TypeOK
<1>1. ASSUME IInv PROVE TypeOK
  <2>1. pc = "body" => left <= BufLen
    BY <1>1, HdrTypes DEF IInv, RxTypes, SyncOK, BodySync
  <2>2. pc = "rest" /\ ~failed => left <= Chunk
    BY <1>1 DEF IInv, RxTypes, SyncOK, RestSync
  <2>. QED
    BY <1>1, <2>1, <2>2 DEF IInv, RxTypes, TxTypes, TypeOK
<1>. QED
  BY <1>1, Invariance, PTL

\* However the stream is cut into pieces and whatever the lengths of bodies,
\* buffer and chunk are, client_msg is called for each message once, in order,
\* with the beginning of its body in rxbuf.
THEOREM MessagesFramed == Spec => []Framed
<1>1. ASSUME IInv PROVE Framed
  <2>. SUFFICES ASSUME pc = "dispatch"
                PROVE  /\ done < Len(msgs) /\ hdr = msgs[done + 1]
                       /\ rd = EndOf(hdr)
                       /\ \A k \in 1 .. Rlen(hdr) : rxbuf[k] = Own(hdr, k)
    BY DEF Framed
  <2>1. DispatchSync
    BY <1>1 DEF IInv, SyncOK
  <2>2. \A k \in 1 .. Rlen(hdr) : k \in 1 .. BufLen /\ k <= Rlen(hdr)
    BY <1>1, HdrTypes
  <2>. QED
    BY <2>1, <2>2 DEF DispatchSync, Current, Holds
<1>. QED
  BY <1>1, Invariance, PTL

\* A message is dispatched by client_msg only.
LEMMA OnlyClientMsgCounts ==
  ASSUME IInv, [Next]_vars, done' > done PROVE client_msg
<1>1. done \in Nat
  BY DEF IInv, RxTypes
<1>2. CASE \E t \in Threads : psc_send(t) \/ Send(t)
  BY <1>1, <1>2 DEF psc_send, Send, psc_sendall, SendError
<1>3. CASE Arrive \/ Leave \/ \E len \in Lens, kind \in Kinds : PeerSends(len, kind)
  <2>1. done' = done
    BY <1>3 DEF Arrive, Leave, PeerSends, rx
  <2>. QED
    BY <1>1, <2>1
<1>4. CASE Connect
  BY <1>1, <1>4 DEF Connect
<1>5. CASE Receive \/ RecvFails
  BY <1>1, <1>5 DEF Receive, psc_recvall, psc_recvhead, BodyReceived,
     ChunkSkipped, RestSkipped, RecvFails
<1>6. CASE UNCHANGED vars
  BY <1>1, <1>6 DEF vars, rx
<1>. QED
  BY <1>2, <1>3, <1>4, <1>5, <1>6 DEF Next

\* A setting that glob_settings or chan_settings acts on consists of words of
\* its own message, completed from the same connection only, and a ramp table is
\* never written from a body that psc_recvmsg cut off, for every buffer length.
THEOREM ActsOnOwn == Spec => ActsOnOwnWords
<1>1. ASSUME IInv, [Next]_vars, done' > done
      PROVE  LET m == msgs[done']
             IN  /\ m.kind = "settings" => \A k \in 1 .. FieldLen :
                       IF k <= m.len THEN acted'[k] = Own(m, k)
                                     ELSE acted'[k] \in 0 .. m.at
                 /\ m.kind = "table" =>
                       \/ acted' = <<>>
                       \/ acted' = [k \in 1 .. m.len |-> Own(m, k)]
  <2>1. client_msg
    BY <1>1, OnlyClientMsgCounts
  <2>2. done' = done + 1 /\ acted' = Words(hdr) /\ DispatchSync
    BY <1>1, <2>1 DEF client_msg, IInv, SyncOK
  <2>3. hdr = msgs[done'] /\ Holds(Rlen(hdr))
    BY <2>2 DEF DispatchSync, Current
  <2>4. /\ hdr.at \in Nat /\ hdr.len \in Nat
        /\ Rlen(hdr) \in 0 .. BufLen /\ Rlen(hdr) <= hdr.len
    BY <1>1, HdrTypes
  <2>5. rxbuf \in Seq(Nat \cup {Foreign}) /\ Len(rxbuf) = BufLen
    BY <1>1 DEF IInv, RxTypes
  <2>6. CASE hdr.kind = "settings"
    <3>1. acted' = SubSeq(rxbuf, 1, FieldLen)
      BY <2>2, <2>6 DEF Words
    <3>2. \A k \in 1 .. FieldLen : acted'[k] = rxbuf[k]
      BY <2>5, <3>1 DEF FieldLen
    <3>3. ASSUME NEW k \in 1 .. FieldLen
          PROVE  /\ k <= hdr.len => rxbuf[k] = Own(hdr, k)
                 /\ k > hdr.len => rxbuf[k] \in 0 .. hdr.at
      <4>1. k \in 1 .. BufLen
        BY DEF FieldLen
      <4>2. k <= hdr.len => k <= Rlen(hdr)
        BY <2>4, <4>1 DEF Rlen
      <4>3. k > hdr.len => k > Rlen(hdr)
        BY <2>4, <4>1
      <4>. QED
        BY <2>3, <4>1, <4>2, <4>3 DEF Holds
    <3>4. hdr.kind # "table"
      BY <2>6
    <3>. QED
      BY <2>3, <2>4, <3>2, <3>3, <3>4 DEF FieldLen
  <2>7. CASE hdr.kind = "table" /\ Rlen(hdr) <= MaxPts
    <3>1. acted' = SubSeq(rxbuf, 1, Rlen(hdr))
      BY <2>2, <2>7 DEF Words
    <3>2. Rlen(hdr) = hdr.len
      BY <2>4, <2>7 DEF Rlen
    <3>3. acted' = [k \in 1 .. hdr.len |-> rxbuf[k]]
      BY <2>4, <2>5, <3>1, <3>2
    <3>4. \A k \in 1 .. hdr.len : rxbuf[k] = Own(hdr, k)
      BY <2>3, <2>4, <3>2 DEF Holds
    <3>5. acted' = [k \in 1 .. hdr.len |-> Own(hdr, k)]
      BY <3>3, <3>4
    <3>. QED
      BY <2>3, <2>7, <3>5
  <2>8. CASE hdr.kind # "settings" /\ ~(hdr.kind = "table" /\ Rlen(hdr) <= MaxPts)
    <3>1. acted' = <<>>
      BY <2>2, <2>8 DEF Words
    <3>. QED
      BY <2>3, <2>8, <3>1
  <2>. QED
    BY <2>6, <2>7, <2>8
<1>. QED
  BY <1>1, Invariance, PTL DEF Spec, ActsOnOwnWords

\* Whatever threads call psc_send, in whatever pieces their messages leave and
\* wherever a send fails, no message begins inside another one on an open
\* connection.
THEOREM MessagesWhole == Spec => WholeMessages
<1>1. ASSUME IInv, [Next]_vars, NEW t \in Threads,
             outleft'[t] < outleft[t], sock' = "open", unfinished' # unfinished
      PROVE  unfinished = (IF outleft[t] = OutTotal THEN None ELSE t)
  <2>1. PICK u \in Threads : \E n \in 1 .. OutTotal : psc_sendall(u, n)
    <3>1. outleft[t] \in 0 .. OutTotal
      BY <1>1 DEF IInv, TxTypes
    <3>2. outleft' # outleft \/ outleft'[t] = outleft[t]
      OBVIOUS
    <3>3. outleft' # outleft
      BY <1>1, <3>1 DEF OutTotal
    <3>4. ASSUME NEW u \in Threads
          PROVE  ~psc_send(u) /\ ~SendError(u)
      BY <1>1 DEF psc_send, SendError
    <3>5. ~(Receive \/ RecvFails)
      BY <3>3, ReceiveFrame DEF tx
    <3>6. /\ ~Arrive /\ ~Connect /\ ~Leave
          /\ \A len \in Lens, kind \in Kinds : ~PeerSends(len, kind)
          /\ ~UNCHANGED vars
      BY <3>3 DEF Arrive, Connect, Leave, PeerSends, vars, tx
    <3>. QED
      BY <1>1, <3>4, <3>5, <3>6 DEF Next, Send
  <2>2. sendguard = u /\ sock = "open"
    BY <1>1, <2>1 DEF psc_sendall
  <2>3. u = t
    <3>1. CASE u # t
      <4>1. outleft'[t] = outleft[t] /\ outleft[t] \in 0 .. OutTotal
        BY <1>1, <2>1, <3>1 DEF psc_sendall, IInv, TxTypes
      <4>. QED
        BY <1>1, <4>1 DEF OutTotal
    <3>. QED
      BY <3>1
  <2>4. sendguard # None
    BY <2>2 DEF Threads
  <2>. QED
    BY <1>1, <2>2, <2>3, <2>4 DEF IInv, TxOK
<1>2. ASSUME IInv, [Next]_vars
      PROVE  [\A t \in Threads :
                outleft'[t] < outleft[t] /\ sock' = "open"
                      /\ unfinished' # unfinished =>
                   unfinished = (IF outleft[t] = OutTotal THEN None ELSE t)]_vars
  BY <1>1, <1>2
<1>. QED
  BY <1>2, Invariance, PTL DEF Spec, WholeMessages

=============================================================================
