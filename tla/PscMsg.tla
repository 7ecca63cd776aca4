------------------------------- MODULE PscMsg -------------------------------
(***************************************************************************)
(* The messages of one client: pscmsg.c below handle_client (listener.c)   *)
(* and client_msg (main.c) above it.  A stream of words arrives in pieces; *)
(* psc_recvmsg takes a header, as much of the body as rxbuf holds, and     *)
(* drops the rest in pieces of the size of a small buffer.  Replies and    *)
(* pushed messages of several threads go out in pieces too.                *)
(*                                                                         *)
(* The words of a connection are numbered from 1 and stand for themselves; *)
(* a message is known by the word before its header.  lwIP is external:    *)
(* recv takes what has arrived up to the length asked for, and fails when  *)
(* nothing does for SO_RCVTIMEO, when the peer is gone, or when the socket *)
(* was closed.  PscServer models slots and descriptors; here there is one  *)
(* slot and the connections that use it one after the other.               *)
(***************************************************************************)
EXTENDS Integers, Sequences

CONSTANTS
    HeadLen,   \* words of psc_header
    BufLen,    \* words of rxbuf
    Chunk,     \* words of the buffer of psc_recvskip
    MaxPts,    \* points of the longest ramp table
    Lens,      \* body lengths that the peer uses
    MaxMsgs,   \* bound: messages of a connection
    OutLen,    \* words of the body of a message to the peer
    Daemons,   \* threads that call psc_send
    Handler, None

ASSUME PscMsgAssumption ==
    /\ HeadLen \in Nat \ {0} /\ Chunk \in Nat \ {0} /\ OutLen \in Nat
    /\ MaxPts \in Nat /\ BufLen = MaxPts + 2
    /\ Lens \subseteq Nat /\ MaxMsgs \in Nat
    /\ Handler \notin Daemons /\ None \notin Daemons \cup {Handler}

FieldLen == 2    \* words that glob_settings and chan_settings look at
Kinds    == {"settings", "table", "other", "bad"}
Threads  == Daemons \cup {Handler}
OutTotal == HeadLen + OutLen

Zero    == 0     \* a word cleared by memset
Foreign == -1    \* a word that an earlier client sent

VARIABLES
    msgs, arrived,     \* messages the peer began, words that arrived
    pc, left, rd,      \* handler: step, words left to receive, words received
    hdr, skip, rxbuf,  \* header, words left to skip, buffer of the slot
    acted,             \* words that the last message was acted on with
    sock,              \* of the slot: "none", "open" or "closed" (-1)
    sendguard, outleft,   \* mutex; words that a thread has left to send
    done, failed,      \* history: messages dispatched; a recv failed
    unfinished         \* history: thread whose message the peer has a part of

rx   == <<pc, left, rd, hdr, skip, rxbuf, acted, done, failed>>
tx   == <<sendguard, outleft, unfinished>>
vars == <<msgs, arrived, rx, sock, tx>>

EndOf(m)  == m.at + HeadLen + m.len
Own(m, k) == m.at + HeadLen + k
LastEnd   == IF msgs = <<>> THEN 0 ELSE EndOf(msgs[Len(msgs)])
Min2(a, b) == IF a < b THEN a ELSE b

\* Variant: the buffer's size is not looked at.
Rlen_Any(m) == m.len

\* The part of a body that fits rxbuf.
Rlen(m) == IF m.len > BufLen THEN BufLen ELSE m.len

NoMsg == [at |-> 0, len |-> 0, kind |-> "other"]

-----------------------------------------------------------------------------
(* The peer                                                                *)

PeerSends(len, kind) ==
    /\ sock # "none" /\ Len(msgs) < MaxMsgs
    /\ msgs' = Append(msgs, [at |-> LastEnd, len |-> len, kind |-> kind])
    /\ UNCHANGED <<arrived, rx, sock, tx>>

Arrive ==
    /\ sock # "none" /\ arrived < LastEnd
    /\ arrived' = arrived + 1
    /\ UNCHANGED <<msgs, rx, sock, tx>>

-----------------------------------------------------------------------------
(* The slot                                                                *)

\* Variant: only the socket is reset.
Memset_SockOnly(buf) == buf

Memset(buf) == [k \in 1 .. BufLen |-> Zero]

Aged(buf) == [k \in 1 .. BufLen |-> IF buf[k] = Zero THEN Zero ELSE Foreign]

Init ==
    /\ msgs = <<>> /\ arrived = 0
    /\ pc = "idle" /\ left = 0 /\ rd = 0 /\ hdr = NoMsg /\ skip = 0
    /\ rxbuf = [k \in 1 .. BufLen |-> Zero] /\ acted = <<>>
    /\ sock = "none"
    /\ sendguard = None /\ outleft = [t \in Threads |-> 0]
    /\ done = 0 /\ failed = FALSE /\ unfinished = None

\* psc_run gives the slot to a new client and starts its thread.
Connect ==
    /\ pc = "idle" /\ sendguard = None
    /\ pc' = "hello" /\ sock' = "open"
    /\ rxbuf' = Memset(Aged(rxbuf))
    /\ msgs' = <<>> /\ arrived' = 0 /\ rd' = 0
    /\ done' = 0 /\ failed' = FALSE /\ unfinished' = None /\ acted' = <<>>
    /\ UNCHANGED <<left, hdr, skip, sendguard, outleft>>

\* psc_client_free and close.
Leave ==
    /\ pc = "leave" /\ sendguard = None
    /\ pc' = "idle" /\ sock' = "none"
    /\ rxbuf' = Memset(rxbuf)
    /\ left' = 0 /\ hdr' = NoMsg /\ skip' = 0
    /\ UNCHANGED <<msgs, arrived, rd, acted, done, failed, tx>>

-----------------------------------------------------------------------------
(* psc_recvmsg                                                             *)

Receiving == {"head", "body", "chunk", "rest"}

Expect(step, n) == pc' = step /\ left' = n

\* A recv that returns words.  More than the buffer of psc_recvskip holds
\* overwrite the stack of the thread: what it does then is not defined.
psc_recvall ==
    /\ pc \in Receiving /\ left > 0
    /\ sock = "open" /\ rd < arrived
    /\ LET m    == Min2(left, arrived - rd)
           from == Rlen(hdr) - left
       IN  /\ rd' = rd + m /\ left' = left - m
           /\ rxbuf' = IF pc # "body" THEN rxbuf ELSE
                 [k \in 1 .. BufLen |->
                     IF k \in from + 1 .. from + m THEN rd + k - from
                                                   ELSE rxbuf[k]]
           /\ pc' = IF pc = "rest" /\ skip - left + m > Chunk THEN "undefined"
                                                              ELSE pc
    /\ UNCHANGED <<msgs, arrived, hdr, skip, acted, done, failed, sock, tx>>

\* A recv that fails.  psc_recvskip leaves its loop and goes on with the rest.
RecvFails ==
    /\ pc \in Receiving /\ left > 0
    /\ sock = "closed" \/ rd = arrived
    /\ failed' = TRUE
    /\ IF pc = "chunk" THEN Expect("rest", skip) ELSE Expect("leave", 0)
    /\ UNCHANGED <<msgs, arrived, rd, hdr, skip, rxbuf, acted, done, sock, tx>>

\* What the words after at may be taken for: a header where the peer sent one,
\* anything elsewhere.
Headers(at) ==
    LET here == {n \in 1 .. Len(msgs) : msgs[n].at = at}
    IN  IF here # {} THEN {msgs[n] : n \in here}
        ELSE [at : {at}, len : Lens, kind : Kinds]

psc_recvhead ==
    /\ pc = "head" /\ left = 0
    /\ \E m \in Headers(rd - HeadLen) :
          IF m.kind = "bad" THEN Expect("leave", 0) /\ UNCHANGED hdr
                            ELSE Expect("body", Rlen(m)) /\ hdr' = m
    /\ UNCHANGED <<msgs, arrived, rd, skip, rxbuf, acted, done, failed, sock, tx>>

\* The loop of psc_recvskip, with n words to go.
Skip(n) ==
    /\ skip' = n
    /\ IF n > Chunk THEN Expect("chunk", Chunk) ELSE Expect("rest", n)

\* Variant: the whole body is skipped, not what is left of it.
BodyReceived_SkipAll ==
    /\ pc = "body" /\ left = 0
    /\ IF Rlen(hdr) < hdr.len THEN Skip(hdr.len)
                              ELSE Expect("dispatch", 0) /\ UNCHANGED skip
    /\ UNCHANGED <<msgs, arrived, rd, hdr, rxbuf, acted, done, failed, sock, tx>>

BodyReceived ==
    /\ pc = "body" /\ left = 0
    /\ IF Rlen(hdr) < hdr.len THEN Skip(hdr.len - Rlen(hdr))
                              ELSE Expect("dispatch", 0) /\ UNCHANGED skip
    /\ UNCHANGED <<msgs, arrived, rd, hdr, rxbuf, acted, done, failed, sock, tx>>

\* Variant: the loop does not count.
ChunkSkipped_Same ==
    /\ pc = "chunk" /\ left = 0
    /\ Skip(skip)
    /\ UNCHANGED <<msgs, arrived, rd, hdr, rxbuf, acted, done, failed, sock, tx>>

ChunkSkipped ==
    /\ pc = "chunk" /\ left = 0
    /\ Skip(skip - Chunk)
    /\ UNCHANGED <<msgs, arrived, rd, hdr, rxbuf, acted, done, failed, sock, tx>>

RestSkipped ==
    /\ pc = "rest" /\ left = 0
    /\ Expect("dispatch", 0)
    /\ UNCHANGED <<msgs, arrived, rd, hdr, skip, rxbuf, acted, done, failed, sock, tx>>

-----------------------------------------------------------------------------
(* client_msg                                                              *)

\* glob_settings and chan_settings do not look at the length; write_ramptable
\* refuses a table that is too long.
Words(m) ==
    CASE m.kind = "settings" -> SubSeq(rxbuf, 1, FieldLen)
      [] m.kind = "table" /\ Rlen(m) <= MaxPts -> SubSeq(rxbuf, 1, Rlen(m))
      [] OTHER -> <<>>

client_msg ==
    /\ pc = "dispatch"
    /\ acted' = Words(hdr)
    /\ done' = done + 1
    /\ Expect("head", HeadLen)
    /\ hdr' = NoMsg /\ skip' = 0
    /\ UNCHANGED <<msgs, arrived, rd, rxbuf, failed, sock, tx>>

-----------------------------------------------------------------------------
(* psc_send and psc_send_one                                               *)

\* After client_event the handler receives.
Then(t) == IF t = Handler THEN Expect("head", HeadLen) ELSE UNCHANGED <<pc, left>>

\* The mutex is taken and psc_sendmsg called.
psc_send(t) ==
    /\ sendguard = None /\ sock # "none"
    /\ t = Handler => pc = "hello"
    /\ outleft[t] = 0
    /\ IF sock = "open"
       THEN /\ sendguard' = t
            /\ outleft' = [outleft EXCEPT ![t] = OutTotal]
            /\ UNCHANGED <<pc, left>>
       ELSE /\ Then(t)
            /\ UNCHANGED <<sendguard, outleft>>
    /\ UNCHANGED <<msgs, arrived, rd, hdr, skip, rxbuf, acted, done, failed, sock,
                   unfinished>>

\* Words of the header, then of the body, go out; the last one ends the call.
psc_sendall(t, n) ==
    /\ sendguard = t
    /\ n <= outleft[t] /\ (outleft[t] > OutLen => n <= outleft[t] - OutLen)
    /\ outleft' = [outleft EXCEPT ![t] = @ - n]
    /\ IF n = outleft[t]
       THEN /\ sendguard' = None /\ unfinished' = None
            /\ Then(t)
       ELSE /\ unfinished' = t
            /\ UNCHANGED <<sendguard, pc, left>>
    /\ UNCHANGED <<msgs, arrived, rd, hdr, skip, rxbuf, acted, done, failed, sock>>

\* Variant: the socket stays in use.
SendError_StaysOpen(t) ==
    /\ sendguard = t
    /\ sendguard' = None /\ outleft' = [outleft EXCEPT ![t] = 0]
    /\ Then(t)
    /\ UNCHANGED <<msgs, arrived, rd, hdr, skip, rxbuf, acted, done, failed, sock,
                   unfinished>>

\* A send fails: the socket is closed and C->sock is -1.
SendError(t) ==
    /\ sendguard = t
    /\ sock' = "closed"
    /\ sendguard' = None /\ outleft' = [outleft EXCEPT ![t] = 0]
    /\ Then(t)
    /\ UNCHANGED <<msgs, arrived, rd, hdr, skip, rxbuf, acted, done, failed,
                   unfinished>>

-----------------------------------------------------------------------------
Receive == \/ psc_recvall \/ psc_recvhead \/ BodyReceived \/ ChunkSkipped
           \/ RestSkipped \/ client_msg

Send(t) == (\E n \in 1 .. OutTotal : psc_sendall(t, n)) \/ SendError(t)

Next ==
    \/ \E len \in Lens, kind \in Kinds : PeerSends(len, kind)
    \/ Arrive \/ Connect \/ Leave \/ Receive \/ RecvFails
    \/ \E t \in Threads : psc_send(t) \/ Send(t)

\* A thread that can go on does; the mutex goes round; a send ends.
Fairness ==
    /\ WF_vars(Receive) /\ WF_vars(RecvFails /\ sock = "closed")
    /\ SF_vars(psc_send(Handler))
    /\ \A t \in Threads : WF_vars(Send(t))

Spec == Init /\ [][Next]_vars /\ Fairness

-----------------------------------------------------------------------------
(* Properties                                                              *)

\* Counters stay in range; what is received into a buffer fits it, except
\* where psc_recvskip goes on after an error.
TypeOK ==
    /\ pc \in Receiving \cup {"idle", "hello", "dispatch", "leave", "undefined"}
    /\ left \in Nat /\ (pc = "body" => left <= BufLen)
    /\ (pc = "rest" /\ ~failed => left <= Chunk)
    /\ rd \in Nat /\ rd <= arrived /\ arrived <= LastEnd
    /\ hdr \in [at : Nat, len : Lens \cup {0}, kind : Kinds \ {"bad"}]
    /\ skip \in Nat
    /\ rxbuf \in [1 .. BufLen -> Nat \cup {Foreign}]
    /\ sock \in {"none", "open", "closed"}
    /\ sendguard \in Threads \cup {None}
    /\ outleft \in [Threads -> 0 .. OutTotal]
    /\ done \in Nat /\ failed \in BOOLEAN
    /\ unfinished \in Threads \cup {None}

\* Whatever pieces the stream arrives in, and however long the messages are,
\* client_msg is called for the messages the peer sent, each once and in order,
\* with the beginning of its body; the rest of it has been dropped.
Framed ==
    pc = "dispatch" =>
        /\ done < Len(msgs) /\ hdr = msgs[done + 1]
        /\ rd = EndOf(hdr)
        /\ \A k \in 1 .. Rlen(hdr) : rxbuf[k] = Own(hdr, k)

\* A setting is made of words of its own message; one that is too short is
\* completed with words that the same client sent before, or zeros, never with
\* those of the slot's previous client.  A ramp table is written whole: one
\* that psc_recvmsg cut off is longer than write_ramptable accepts.
ActsOnOwnWords ==
    [][done' > done =>
          LET m == msgs[done']
          IN  /\ m.kind = "settings" => \A k \in 1 .. FieldLen :
                    IF k <= m.len THEN acted'[k] = Own(m, k)
                                  ELSE acted'[k] \in 0 .. m.at
              /\ m.kind = "table" =>
                    \/ acted' = <<>>
                    \/ acted' = [k \in 1 .. m.len |-> Own(m, k)]]_vars

\* What the peer receives is whole messages, one after the other, although
\* several threads send in pieces and sends fail half-way.
WholeMessages ==
    [][\A t \in Threads :
          outleft'[t] < outleft[t] /\ sock' = "open" /\ unfinished' # unfinished =>
             unfinished = (IF outleft[t] = OutTotal THEN None ELSE t)]_vars

\* A message that has arrived is dispatched, unless its client's thread ends.
MessagesServed ==
    \A n \in 1 .. MaxMsgs :
        (n <= Len(msgs) /\ arrived >= EndOf(msgs[n])) ~>
            (done >= n \/ pc \in {"leave", "idle", "undefined"})

\* "time with no bytes received before assuming peer is gone" (listener.c:149):
\* once a recv has failed nothing more is taken from the connection.
FailedReceiveIsLast == [][failed /\ failed' => rd' = rd]_vars

=============================================================================
