-------------------------- MODULE PscServerProofs --------------------------
(***************************************************************************)
(* Proofs about PscServer for any number of slots, descriptors, daemons    *)
(* and connections.                                                        *)
(*                                                                         *)
(* SlotOwnership is not inductive: whether psc_client_alloc can hand out a *)
(* slot twice depends on which thread may be where (KindOK), on the        *)
(* acceptor's connection having no thread yet (AcceptedOK), and on the     *)
(* slots of running threads being real (AtOK).  IInv adds these.           *)
(***************************************************************************)
EXTENDS PscServer, TLAPS

USE ServerAssumption

Owning == {"alloc", "assign", "spawn"}

\* Which labels each kind of thread can be at.
KindOK ==
    /\ pc[Acceptor] \in {"start", "accept", "sleep"} \cup Owning
    /\ \A d \in Daemons : pc[d] \in {"off", "idle", "scan", "close", "mark"}
    /\ \A c \in Conns : pc[c] \in {"off", "enter", "hello", "send", "close",
                                   "mark", "recv", "blocked", "callback",
                                   "leave", "freed", "done"}
    /\ pc[Acceptor] = "start" =>
          \A t \in Daemons \cup Conns : pc[t] = "off"

\* Exactly the thread inside psc_send or psc_send_one holds the mutex.
GuardOK ==
    \A t \in Threads :
        pc[t] \in {"scan", "send", "close", "mark"} <=> sendguard = t

\* The acceptor's connection exists and has no handler yet.
AcceptedOK ==
    /\ pc[Acceptor] \in Owning =>
          /\ accepted \in Conns
          /\ pc[accepted] = "off"
          /\ conn[accepted] \notin {"idle", "backlog"}
    /\ \A c \in Conns : pc[c] # "off" => conn[c] \notin {"idle", "backlog"}

\* Threads that use a slot use one that exists.
AtOK ==
    /\ Assigning => at[Acceptor] \in Slots
    /\ \A c \in Serving : at[c] \in Slots
    /\ \A d \in Daemons : pc[d] \in {"close", "mark"} => at[d] \in Slots

IInv == TypeOK /\ KindOK /\ GuardOK /\ AcceptedOK /\ AtOK /\ SlotOwnership

-----------------------------------------------------------------------------
\* close() keeps the types of the descriptor table and the connections.
LEMMA CloseType ==
  ASSUME TypeOK, NEW f, Close(f)
  PROVE  /\ fdtab' \in [Fds -> Conns \cup {Listener, None}]
         /\ conn' \in [Conns -> {"idle", "backlog", "open", "broken", "closed"}]
BY DEF TypeOK, Close

\* Every action keeps the types.
LEMMA TypeInductive ==
  ASSUME IInv, [Next]_vars
  PROVE  TypeOK'
<1>. USE DEF IInv, Goto, Threads, TypeOK, Labels
<1>1. CASE Startup
  BY <1>1 DEF Startup, KindOK
<1>2. CASE AcceptError
  BY <1>2 DEF AcceptError
<1>3. CASE Sleep
  BY <1>3 DEF Sleep
<1>4. CASE psc_client_alloc
  BY <1>4 DEF psc_client_alloc, IsLowest, Slots, Fds
<1>5. CASE DropClient
  BY <1>5, CloseType DEF DropClient
<1>6. CASE AssignSock
  BY <1>6 DEF AssignSock
<1>7. CASE SpawnHandler
  BY <1>7 DEF SpawnHandler, AcceptedOK, Owning
<1>8. ASSUME NEW c \in Conns, Accept(c) PROVE TypeOK'
  BY <1>8 DEF Accept, FreeFds, IsLowest
<1>9. ASSUME NEW c \in Conns, HandlerEnter(c) PROVE TypeOK'
  BY <1>9 DEF HandlerEnter, AtOK, Serving
<1>10. ASSUME NEW c \in Conns, psc_send_one(c) PROVE TypeOK'
  BY <1>10 DEF psc_send_one
<1>11. ASSUME NEW c \in Conns, SendOne(c) PROVE TypeOK'
  BY <1>11 DEF SendOne
<1>12. ASSUME NEW c \in Conns, RecvCall(c) PROVE TypeOK'
  BY <1>12 DEF RecvCall
<1>13. ASSUME NEW c \in Conns, RecvMsg(c) PROVE TypeOK'
  BY <1>13 DEF RecvMsg
<1>14. ASSUME NEW c \in Conns, RecvError(c) PROVE TypeOK'
  BY <1>14 DEF RecvError
<1>15. ASSUME NEW c \in Conns, Callback(c) PROVE TypeOK'
  BY <1>15 DEF Callback
<1>16. ASSUME NEW c \in Conns, psc_client_free(c) PROVE TypeOK'
  BY <1>16 DEF psc_client_free, Fds, AtOK, Serving
<1>17. ASSUME NEW c \in Conns, HandlerClose(c) PROVE TypeOK'
  BY <1>17, CloseType DEF HandlerClose
<1>18. ASSUME NEW c \in Conns, Connect(c) PROVE TypeOK'
  BY <1>18 DEF Connect
<1>19. ASSUME NEW c \in Conns, PeerGone(c) PROVE TypeOK'
  BY <1>19 DEF PeerGone
<1>20. ASSUME NEW d \in Daemons, psc_send(d) PROVE TypeOK'
  BY <1>20 DEF psc_send, Slots
<1>21. ASSUME NEW d \in Daemons, SendNext(d) PROVE TypeOK'
  BY <1>21 DEF SendNext, Slots
<1>22. ASSUME NEW d \in Daemons, SendFails(d) PROVE TypeOK'
  BY <1>22 DEF SendFails
<1>23. ASSUME NEW d \in Daemons, SendDone(d) PROVE TypeOK'
  BY <1>23 DEF SendDone
<1>24. ASSUME NEW t \in Daemons \cup Conns, ErrorClose(t) PROVE TypeOK'
  BY <1>24, CloseType DEF ErrorClose
<1>25. ASSUME NEW t \in Daemons \cup Conns, ErrorMark(t) PROVE TypeOK'
  <2>1. at[t] \in Slots
    BY <1>25 DEF ErrorMark, AtOK, Serving
  <2>2. sock' \in [Slots -> Fds \cup {-1}]
    BY <1>25 DEF ErrorMark
  <2>3. at' \in [Threads -> 0 .. PSC_MAX_CLIENTS]
    <3>1. at[t] + 1 \in 0 .. PSC_MAX_CLIENTS
      BY <2>1 DEF Slots
    <3>. QED
      BY <1>25, <3>1 DEF ErrorMark
  <2>4. /\ pc' \in [Threads -> Labels]
        /\ sendguard' \in Threads \cup {None}
    BY <1>25 DEF ErrorMark
  <2>. QED
    BY <1>25, <2>2, <2>3, <2>4 DEF ErrorMark
<1>26. CASE UNCHANGED vars
  BY <1>26 DEF vars
<1>27. QED
  BY <1>1, <1>2, <1>3, <1>4, <1>5, <1>6, <1>7, <1>8, <1>9, <1>10, <1>11, <1>12, <1>13, <1>14, <1>15, <1>16, <1>17, <1>18, <1>19, <1>20, <1>21, <1>22, <1>23, <1>24, <1>25, <1>26
  DEF Next, RunStep, HandlerStep, PeerStep, DaemonStep, ErrorStep

\* Every thread keeps to the labels of its kind.
LEMMA KindInductive ==
  ASSUME IInv, [Next]_vars
  PROVE  KindOK'
<1>. USE DEF IInv, Goto, Slots, Fds, Threads, TypeOK, KindOK, AcceptedOK, Owning
<1>1. CASE Startup
  BY <1>1 DEF Startup
<1>2. CASE AcceptError
  BY <1>2 DEF AcceptError
<1>3. CASE Sleep
  BY <1>3 DEF Sleep
<1>4. CASE psc_client_alloc
  BY <1>4 DEF psc_client_alloc, IsLowest
<1>5. CASE DropClient
  BY <1>5 DEF DropClient
<1>6. CASE AssignSock
  BY <1>6 DEF AssignSock
<1>7. CASE SpawnHandler
  BY <1>7 DEF SpawnHandler
<1>8. ASSUME NEW c \in Conns, Accept(c) PROVE KindOK'
  BY <1>8 DEF Accept
<1>9. ASSUME NEW c \in Conns, HandlerEnter(c) PROVE KindOK'
  BY <1>9 DEF HandlerEnter
<1>10. ASSUME NEW c \in Conns, psc_send_one(c) PROVE KindOK'
  <2>1. PICK l \in {"recv", "send"} : pc' = [pc EXCEPT ![c] = l]
    BY <1>10 DEF psc_send_one
  <2>2. c \notin Daemons /\ c # Acceptor /\ pc[Acceptor] # "start"
    BY <1>10, ServerAssumption DEF psc_send_one
  <2>. QED
    BY <2>1, <2>2
<1>11. ASSUME NEW c \in Conns, SendOne(c) PROVE KindOK'
  BY <1>11 DEF SendOne
<1>12. ASSUME NEW c \in Conns, RecvCall(c) PROVE KindOK'
  BY <1>12 DEF RecvCall
<1>13. ASSUME NEW c \in Conns, RecvMsg(c) PROVE KindOK'
  BY <1>13 DEF RecvMsg
<1>14. ASSUME NEW c \in Conns, RecvError(c) PROVE KindOK'
  BY <1>14 DEF RecvError
<1>15. ASSUME NEW c \in Conns, Callback(c) PROVE KindOK'
  BY <1>15 DEF Callback
<1>16. ASSUME NEW c \in Conns, psc_client_free(c) PROVE KindOK'
  BY <1>16 DEF psc_client_free
<1>17. ASSUME NEW c \in Conns, HandlerClose(c) PROVE KindOK'
  BY <1>17 DEF HandlerClose
<1>18. ASSUME NEW c \in Conns, Connect(c) PROVE KindOK'
  BY <1>18 DEF Connect
<1>19. ASSUME NEW c \in Conns, PeerGone(c) PROVE KindOK'
  BY <1>19 DEF PeerGone
<1>20. ASSUME NEW d \in Daemons, psc_send(d) PROVE KindOK'
  BY <1>20 DEF psc_send
<1>21. ASSUME NEW d \in Daemons, SendNext(d) PROVE KindOK'
  BY <1>21 DEF SendNext
<1>22. ASSUME NEW d \in Daemons, SendFails(d) PROVE KindOK'
  BY <1>22 DEF SendFails
<1>23. ASSUME NEW d \in Daemons, SendDone(d) PROVE KindOK'
  BY <1>23 DEF SendDone
<1>24. ASSUME NEW t \in Daemons \cup Conns, ErrorClose(t) PROVE KindOK'
  BY <1>24 DEF ErrorClose
<1>25. ASSUME NEW t \in Daemons \cup Conns, ErrorMark(t) PROVE KindOK'
  BY <1>25 DEF ErrorMark
<1>26. CASE UNCHANGED vars
  BY <1>26 DEF vars
<1>27. QED
  BY <1>1, <1>2, <1>3, <1>4, <1>5, <1>6, <1>7, <1>8, <1>9, <1>10, <1>11, <1>12, <1>13, <1>14, <1>15, <1>16, <1>17, <1>18, <1>19, <1>20, <1>21, <1>22, <1>23, <1>24, <1>25, <1>26
  DEF Next, RunStep, HandlerStep, PeerStep, DaemonStep, ErrorStep

\* The mutex is held exactly inside the two send routines.
LEMMA GuardInductive ==
  ASSUME IInv, [Next]_vars
  PROVE  GuardOK'
<1>. USE DEF IInv, Goto, Slots, Fds, Threads, TypeOK, KindOK, AcceptedOK, GuardOK, Owning
<1>1. CASE Startup
  BY <1>1 DEF Startup
<1>2. CASE AcceptError
  BY <1>2 DEF AcceptError
<1>3. CASE Sleep
  BY <1>3 DEF Sleep
<1>4. CASE psc_client_alloc
  BY <1>4 DEF psc_client_alloc, IsLowest
<1>5. CASE DropClient
  BY <1>5 DEF DropClient
<1>6. CASE AssignSock
  BY <1>6 DEF AssignSock
<1>7. CASE SpawnHandler
  BY <1>7 DEF SpawnHandler
<1>8. ASSUME NEW c \in Conns, Accept(c) PROVE GuardOK'
  BY <1>8 DEF Accept
<1>9. ASSUME NEW c \in Conns, HandlerEnter(c) PROVE GuardOK'
  BY <1>9 DEF HandlerEnter
<1>10. ASSUME NEW c \in Conns, psc_send_one(c) PROVE GuardOK'
  BY <1>10 DEF psc_send_one
<1>11. ASSUME NEW c \in Conns, SendOne(c) PROVE GuardOK'
  BY <1>11 DEF SendOne
<1>12. ASSUME NEW c \in Conns, RecvCall(c) PROVE GuardOK'
  BY <1>12 DEF RecvCall
<1>13. ASSUME NEW c \in Conns, RecvMsg(c) PROVE GuardOK'
  BY <1>13 DEF RecvMsg
<1>14. ASSUME NEW c \in Conns, RecvError(c) PROVE GuardOK'
  BY <1>14 DEF RecvError
<1>15. ASSUME NEW c \in Conns, Callback(c) PROVE GuardOK'
  BY <1>15 DEF Callback
<1>16. ASSUME NEW c \in Conns, psc_client_free(c) PROVE GuardOK'
  BY <1>16 DEF psc_client_free
<1>17. ASSUME NEW c \in Conns, HandlerClose(c) PROVE GuardOK'
  BY <1>17 DEF HandlerClose
<1>18. ASSUME NEW c \in Conns, Connect(c) PROVE GuardOK'
  BY <1>18 DEF Connect
<1>19. ASSUME NEW c \in Conns, PeerGone(c) PROVE GuardOK'
  BY <1>19 DEF PeerGone
<1>20. ASSUME NEW d \in Daemons, psc_send(d) PROVE GuardOK'
  BY <1>20 DEF psc_send
<1>21. ASSUME NEW d \in Daemons, SendNext(d) PROVE GuardOK'
  BY <1>21 DEF SendNext
<1>22. ASSUME NEW d \in Daemons, SendFails(d) PROVE GuardOK'
  BY <1>22 DEF SendFails
<1>23. ASSUME NEW d \in Daemons, SendDone(d) PROVE GuardOK'
  BY <1>23 DEF SendDone
<1>24. ASSUME NEW t \in Daemons \cup Conns, ErrorClose(t) PROVE GuardOK'
  BY <1>24 DEF ErrorClose
<1>25. ASSUME NEW t \in Daemons \cup Conns, ErrorMark(t) PROVE GuardOK'
  BY <1>25 DEF ErrorMark
<1>26. CASE UNCHANGED vars
  BY <1>26 DEF vars
<1>27. QED
  BY <1>1, <1>2, <1>3, <1>4, <1>5, <1>6, <1>7, <1>8, <1>9, <1>10, <1>11, <1>12, <1>13, <1>14, <1>15, <1>16, <1>17, <1>18, <1>19, <1>20, <1>21, <1>22, <1>23, <1>24, <1>25, <1>26
  DEF Next, RunStep, HandlerStep, PeerStep, DaemonStep, ErrorStep

\* No step gives the acceptor a connection that already has a handler.
LEMMA AcceptedInductive ==
  ASSUME IInv, [Next]_vars
  PROVE  AcceptedOK'
<1>. USE DEF IInv, Goto, Slots, Fds, Threads, TypeOK, KindOK, AcceptedOK, Owning
<1>1. CASE Startup
  BY <1>1 DEF Startup
<1>2. CASE AcceptError
  BY <1>2 DEF AcceptError
<1>3. CASE Sleep
  BY <1>3 DEF Sleep
<1>4. CASE psc_client_alloc
  BY <1>4 DEF psc_client_alloc, IsLowest
<1>5. CASE DropClient
  BY <1>5 DEF DropClient, Close
<1>6. CASE AssignSock
  BY <1>6 DEF AssignSock
<1>7. CASE SpawnHandler
  BY <1>7 DEF SpawnHandler
<1>8. ASSUME NEW c \in Conns, Accept(c) PROVE AcceptedOK'
  BY <1>8 DEF Accept
<1>9. ASSUME NEW c \in Conns, HandlerEnter(c) PROVE AcceptedOK'
  BY <1>9 DEF HandlerEnter
<1>10. ASSUME NEW c \in Conns, psc_send_one(c) PROVE AcceptedOK'
  BY <1>10 DEF psc_send_one
<1>11. ASSUME NEW c \in Conns, SendOne(c) PROVE AcceptedOK'
  BY <1>11 DEF SendOne
<1>12. ASSUME NEW c \in Conns, RecvCall(c) PROVE AcceptedOK'
  BY <1>12 DEF RecvCall
<1>13. ASSUME NEW c \in Conns, RecvMsg(c) PROVE AcceptedOK'
  BY <1>13 DEF RecvMsg
<1>14. ASSUME NEW c \in Conns, RecvError(c) PROVE AcceptedOK'
  BY <1>14 DEF RecvError
<1>15. ASSUME NEW c \in Conns, Callback(c) PROVE AcceptedOK'
  BY <1>15 DEF Callback
<1>16. ASSUME NEW c \in Conns, psc_client_free(c) PROVE AcceptedOK'
  BY <1>16 DEF psc_client_free
<1>17. ASSUME NEW c \in Conns, HandlerClose(c) PROVE AcceptedOK'
  BY <1>17 DEF HandlerClose, Close
<1>18. ASSUME NEW c \in Conns, Connect(c) PROVE AcceptedOK'
  BY <1>18 DEF Connect
<1>19. ASSUME NEW c \in Conns, PeerGone(c) PROVE AcceptedOK'
  BY <1>19 DEF PeerGone
<1>20. ASSUME NEW d \in Daemons, psc_send(d) PROVE AcceptedOK'
  BY <1>20 DEF psc_send
<1>21. ASSUME NEW d \in Daemons, SendNext(d) PROVE AcceptedOK'
  BY <1>21 DEF SendNext
<1>22. ASSUME NEW d \in Daemons, SendFails(d) PROVE AcceptedOK'
  BY <1>22 DEF SendFails
<1>23. ASSUME NEW d \in Daemons, SendDone(d) PROVE AcceptedOK'
  BY <1>23 DEF SendDone
<1>24. ASSUME NEW t \in Daemons \cup Conns, ErrorClose(t) PROVE AcceptedOK'
  BY <1>24 DEF ErrorClose, Close
<1>25. ASSUME NEW t \in Daemons \cup Conns, ErrorMark(t) PROVE AcceptedOK'
  BY <1>25 DEF ErrorMark
<1>26. CASE UNCHANGED vars
  BY <1>26 DEF vars
<1>27. QED
  BY <1>1, <1>2, <1>3, <1>4, <1>5, <1>6, <1>7, <1>8, <1>9, <1>10, <1>11, <1>12, <1>13, <1>14, <1>15, <1>16, <1>17, <1>18, <1>19, <1>20, <1>21, <1>22, <1>23, <1>24, <1>25, <1>26
  DEF Next, RunStep, HandlerStep, PeerStep, DaemonStep, ErrorStep

\* Slots in use exist.
LEMMA AtInductive ==
  ASSUME IInv, [Next]_vars
  PROVE  AtOK'
<1>. USE DEF IInv, Goto, Slots, Fds, Threads, TypeOK, KindOK, AcceptedOK, AtOK, Owning, Serving, Assigning
<1>1. CASE Startup
  BY <1>1 DEF Startup
<1>2. CASE AcceptError
  BY <1>2 DEF AcceptError
<1>3. CASE Sleep
  BY <1>3 DEF Sleep
<1>4. CASE psc_client_alloc
  BY <1>4 DEF psc_client_alloc, IsLowest
<1>5. CASE DropClient
  BY <1>5 DEF DropClient
<1>6. CASE AssignSock
  BY <1>6 DEF AssignSock
<1>7. CASE SpawnHandler
  BY <1>7 DEF SpawnHandler
<1>8. ASSUME NEW c \in Conns, Accept(c) PROVE AtOK'
  BY <1>8 DEF Accept
<1>9. ASSUME NEW c \in Conns, HandlerEnter(c) PROVE AtOK'
  BY <1>9 DEF HandlerEnter
<1>10. ASSUME NEW c \in Conns, psc_send_one(c) PROVE AtOK'
  BY <1>10 DEF psc_send_one
<1>11. ASSUME NEW c \in Conns, SendOne(c) PROVE AtOK'
  BY <1>11 DEF SendOne
<1>12. ASSUME NEW c \in Conns, RecvCall(c) PROVE AtOK'
  BY <1>12 DEF RecvCall
<1>13. ASSUME NEW c \in Conns, RecvMsg(c) PROVE AtOK'
  BY <1>13 DEF RecvMsg
<1>14. ASSUME NEW c \in Conns, RecvError(c) PROVE AtOK'
  BY <1>14 DEF RecvError
<1>15. ASSUME NEW c \in Conns, Callback(c) PROVE AtOK'
  BY <1>15 DEF Callback
<1>16. ASSUME NEW c \in Conns, psc_client_free(c) PROVE AtOK'
  BY <1>16 DEF psc_client_free
<1>17. ASSUME NEW c \in Conns, HandlerClose(c) PROVE AtOK'
  BY <1>17 DEF HandlerClose
<1>18. ASSUME NEW c \in Conns, Connect(c) PROVE AtOK'
  BY <1>18 DEF Connect
<1>19. ASSUME NEW c \in Conns, PeerGone(c) PROVE AtOK'
  BY <1>19 DEF PeerGone
<1>20. ASSUME NEW d \in Daemons, psc_send(d) PROVE AtOK'
  BY <1>20 DEF psc_send
<1>21. ASSUME NEW d \in Daemons, SendNext(d) PROVE AtOK'
  BY <1>21 DEF SendNext
<1>22. ASSUME NEW d \in Daemons, SendFails(d) PROVE AtOK'
  BY <1>22 DEF SendFails
<1>23. ASSUME NEW d \in Daemons, SendDone(d) PROVE AtOK'
  BY <1>23 DEF SendDone
<1>24. ASSUME NEW t \in Daemons \cup Conns, ErrorClose(t) PROVE AtOK'
  BY <1>24 DEF ErrorClose
<1>25. ASSUME NEW t \in Daemons \cup Conns, ErrorMark(t) PROVE AtOK'
  BY <1>25 DEF ErrorMark
<1>26. CASE UNCHANGED vars
  BY <1>26 DEF vars
<1>27. QED
  BY <1>1, <1>2, <1>3, <1>4, <1>5, <1>6, <1>7, <1>8, <1>9, <1>10, <1>11, <1>12, <1>13, <1>14, <1>15, <1>16, <1>17, <1>18, <1>19, <1>20, <1>21, <1>22, <1>23, <1>24, <1>25, <1>26
  DEF Next, RunStep, HandlerStep, PeerStep, DaemonStep, ErrorStep

\* A step that leaves clients_used and every thread's hold alone keeps
\* SlotOwnership.
LEMMA OwnershipFrame ==
  ASSUME SlotOwnership, clients_used' = clients_used,
         \A t \in Threads, s \in Slots : Holds(t, s)' <=> Holds(t, s)
  PROVE  SlotOwnership'
BY DEF SlotOwnership, Threads, Slots

\* A slot's bit and its one owner change together: at psc_client_alloc the
\* acceptor becomes the owner of a slot that had none, at sys_thread_new the
\* hold passes to the handler, at psc_client_free it ends with the bit.
LEMMA OwnershipInductive ==
  ASSUME IInv, [Next]_vars
  PROVE  SlotOwnership'
<1>. USE DEF IInv, Threads, Slots, Serving, Assigning
<1>1. CASE psc_client_alloc
  <2>1. PICK s \in Slots : /\ s \notin clients_used
                          /\ clients_used' = clients_used \cup {s}
                          /\ at' = [at EXCEPT ![Acceptor] = s]
    BY <1>1 DEF psc_client_alloc, IsLowest
  <2>2. \A t \in Threads : ~Holds(t, s)
    BY <2>1 DEF SlotOwnership
  <2>3. \A t \in Threads, r \in Slots :
           Holds(t, r)' <=> Holds(t, r) \/ (t = Acceptor /\ r = s)
    BY <1>1, <2>1 DEF psc_client_alloc, Holds, Goto, TypeOK
  <2>. QED
    BY <2>1, <2>2, <2>3 DEF SlotOwnership
<1>2. CASE SpawnHandler
  <2>1. PICK a \in Conns : a = accepted /\ a \notin Serving /\ a # Acceptor
    BY <1>2 DEF SpawnHandler, AcceptedOK, Owning
  <2>2. PICK s \in Slots : s = at[Acceptor]
    BY <1>2 DEF SpawnHandler, AtOK
  <2>3. \A r \in Slots : /\ Holds(Acceptor, r) <=> r = s
                         /\ ~Holds(a, r)
    BY <1>2, <2>1, <2>2 DEF SpawnHandler, Holds
  <2>4. \A t \in Threads, r \in Slots :
           Holds(t, r)' <=> \/ t \notin {Acceptor, a} /\ Holds(t, r)
                            \/ t = a /\ r = s
    <3>1. pc' = [pc EXCEPT ![Acceptor] = "accept", ![a] = "enter"]
      BY <1>2, <2>1 DEF SpawnHandler
    <3>2. at' = [at EXCEPT ![a] = s]
      BY <1>2, <2>1, <2>2 DEF SpawnHandler
    <3>3. /\ pc'[Acceptor] = "accept" /\ pc'[a] = "enter"
          /\ at'[a] = s
          /\ \A t \in Threads \ {Acceptor, a} :
                pc'[t] = pc[t] /\ at'[t] = at[t]
      BY <3>1, <3>2, <2>1 DEF TypeOK
    <3>. QED
      BY <3>3, <2>1 DEF Holds
  <2>5. clients_used' = clients_used
    BY <1>2 DEF SpawnHandler
  <2>6. \A r \in Slots : r \in clients_used' <=> \E t \in Threads : Holds(t, r)'
    <3>1. \A r \in Slots \ {s} : \A t \in Threads : Holds(t, r)' <=> Holds(t, r)
      BY <2>3, <2>4
    <3>2. s \in clients_used /\ Holds(a, s)'
      BY <2>1, <2>3, <2>4 DEF SlotOwnership
    <3>. QED
      BY <2>1, <2>5, <3>1, <3>2 DEF SlotOwnership
  <2>7. \A r \in Slots : \A t, u \in Threads :
           Holds(t, r)' /\ Holds(u, r)' => t = u
    BY <2>1, <2>3, <2>4 DEF SlotOwnership
  <2>. QED
    BY <2>6, <2>7 DEF SlotOwnership
<1>3. ASSUME NEW c \in Conns, psc_client_free(c) PROVE SlotOwnership'
  <2>1. PICK s \in Slots : s = at[c]
    BY <1>3 DEF psc_client_free, AtOK
  <2>2. \A r \in Slots : Holds(c, r) <=> r = s
    BY <1>3, <2>1 DEF psc_client_free, Holds
  <2>3. \A t \in Threads, r \in Slots :
           Holds(t, r)' <=> Holds(t, r) /\ t # c
    BY <1>3 DEF psc_client_free, Holds, Goto, TypeOK
  <2>4. clients_used' = clients_used \ {s}
    BY <1>3, <2>1 DEF psc_client_free
  <2>. QED
    BY <2>2, <2>3, <2>4 DEF SlotOwnership
<1>4. CASE RunStep /\ ~psc_client_alloc /\ ~SpawnHandler
  <2>. SUFFICES /\ clients_used' = clients_used
                /\ \A t \in Threads, s \in Slots : Holds(t, s)' <=> Holds(t, s)
    BY OwnershipFrame
  <2>. USE DEF Holds, Goto, TypeOK, KindOK, Owning
  <2>1. CASE Startup
    BY <2>1 DEF Startup
  <2>2. CASE AcceptError \/ Sleep \/ DropClient \/ AssignSock
    BY <2>2 DEF AcceptError, Sleep, DropClient, AssignSock
  <2>3. ASSUME NEW c \in Conns, Accept(c)
        PROVE  /\ clients_used' = clients_used
               /\ \A t \in Threads, s \in Slots : Holds(t, s)' <=> Holds(t, s)
    BY <2>3 DEF Accept
  <2>. QED
    BY <1>4, <2>1, <2>2, <2>3 DEF RunStep
<1>5. ASSUME NEW c \in Conns, HandlerStep(c) \/ PeerStep(c), ~psc_client_free(c)
      PROVE  SlotOwnership'
  <2>. SUFFICES /\ clients_used' = clients_used
                /\ \A t \in Threads, s \in Slots : Holds(t, s)' <=> Holds(t, s)
    BY OwnershipFrame
  <2>1. clients_used' = clients_used /\ at' = at
    BY <1>5 DEF HandlerStep, PeerStep, HandlerEnter, psc_send_one, SendOne,
       RecvCall, RecvMsg, RecvError, Callback, HandlerClose, Connect, PeerGone
  <2>2. /\ \A t \in Threads : t # c => pc'[t] = pc[t]
        /\ c \in Serving' <=> c \in Serving
    BY <1>5 DEF HandlerStep, PeerStep, HandlerEnter, psc_send_one, SendOne,
       RecvCall, RecvMsg, RecvError, Callback, HandlerClose, Connect, PeerGone,
       Goto, TypeOK
  <2>. QED
    BY <2>1, <2>2 DEF Holds
<1>6. ASSUME NEW d \in Daemons, DaemonStep(d) PROVE SlotOwnership'
  <2>. SUFFICES /\ clients_used' = clients_used
                /\ \A t \in Threads, s \in Slots : Holds(t, s)' <=> Holds(t, s)
    BY OwnershipFrame
  <2>. QED
    BY <1>6 DEF DaemonStep, psc_send, SendNext, SendFails, SendDone, Holds,
       Goto, TypeOK
<1>7. ASSUME NEW t \in Daemons \cup Conns, ErrorStep(t) PROVE SlotOwnership'
  <2>. SUFFICES /\ clients_used' = clients_used
                /\ \A u \in Threads, s \in Slots : Holds(u, s)' <=> Holds(u, s)
    BY OwnershipFrame
  <2>. QED
    BY <1>7 DEF ErrorStep, ErrorClose, ErrorMark, Holds, Goto, TypeOK, KindOK
<1>8. CASE UNCHANGED vars
  BY <1>8 DEF vars, SlotOwnership, Holds
<1>. QED
  BY <1>1, <1>2, <1>3, <1>4, <1>5, <1>6, <1>7, <1>8 DEF Next

\* The initial state satisfies the invariant.
LEMMA InitIInv == Init => IInv
<1>. SUFFICES ASSUME Init PROVE IInv
  OBVIOUS
<1>. USE DEF Init, Threads
<1>1. TypeOK
  <2>1. 0 \in Fds /\ 0 \in 0 .. PSC_MAX_CLIENTS
    BY DEF Fds
  <2>2. pc \in [Threads -> Labels]
    BY DEF Labels
  <2>. QED
    BY <2>1, <2>2 DEF TypeOK
<1>2. KindOK /\ GuardOK
  BY DEF KindOK, GuardOK
<1>3. Serving = {} /\ ~Assigning
  BY DEF Serving, Assigning
<1>4. AcceptedOK
  BY DEF AcceptedOK, Owning
<1>5. AtOK /\ SlotOwnership
  BY <1>3 DEF AtOK, SlotOwnership, Holds
<1>. QED
  BY <1>1, <1>2, <1>4, <1>5 DEF IInv

\* The invariant holds in every behaviour of the server.
THEOREM Invariance == Spec => []IInv
<1>1. IInv /\ [Next]_vars => IInv'
  BY TypeInductive, KindInductive, GuardInductive, AcceptedInductive,
     AtInductive, OwnershipInductive DEF IInv
<1>2. QED
  BY InitIInv, <1>1, PTL DEF Spec

\* Type correctness of the server.
THEOREM TypeCorrect == Spec => []TypeOK
BY Invariance, PTL DEF IInv

\* A slot is in use exactly while one thread holds it, for every interleaving
\* of psc_client_alloc, sys_thread_new and psc_client_free.
THEOREM SlotsOwned == Spec => []SlotOwnership
BY Invariance, PTL DEF IInv

\* No step of any thread allocates or frees a slot while another thread is in
\* the middle of a fan-out.
THEOREM FanoutStable == Spec => FanoutSeesOneSet
<1>1. [Next]_vars => [sendguard # None => UNCHANGED clients_used]_vars
  <2>. SUFFICES ASSUME Next, sendguard # None
                PROVE  UNCHANGED clients_used
    BY DEF vars
  <2>1. RunStep => UNCHANGED clients_used
    BY DEF RunStep, Startup, AcceptError, Sleep, psc_client_alloc, DropClient,
       AssignSock, SpawnHandler, Accept
  <2>2. \A c \in Conns : HandlerStep(c) \/ PeerStep(c) => UNCHANGED clients_used
    BY DEF HandlerStep, PeerStep, HandlerEnter, psc_send_one, SendOne, RecvCall,
       RecvMsg, RecvError, Callback, psc_client_free, HandlerClose, Connect,
       PeerGone
  <2>3. \A d \in Daemons : DaemonStep(d) => UNCHANGED clients_used
    BY DEF DaemonStep, psc_send, SendNext, SendFails, SendDone
  <2>4. \A t \in Daemons \cup Conns : ErrorStep(t) => UNCHANGED clients_used
    BY DEF ErrorStep, ErrorClose, ErrorMark
  <2>. QED
    BY <2>1, <2>2, <2>3, <2>4 DEF Next
<1>. QED
  BY <1>1, PTL DEF Spec, FanoutSeesOneSet

-----------------------------------------------------------------------------
(* The descriptors                                                         *)

\* Different handlers use different slots, and none uses the acceptor's.
LEMMA SlotsApart ==
  ASSUME IInv
  PROVE  /\ \A c, e \in Serving : at[c] = at[e] => c = e
         /\ Assigning => \A c \in Serving : at[c] # at[Acceptor]
         /\ \A c \in Serving : at[c] \in clients_used
<1>. USE DEF IInv, SlotOwnership, Holds, AtOK, Threads
<1>1. \A c \in Serving : c \in Threads /\ at[c] \in Slots /\ Holds(c, at[c])
  BY DEF Serving
<1>2. Assigning => at[Acceptor] \in Slots /\ Holds(Acceptor, at[Acceptor])
  OBVIOUS
<1>3. \A c \in Serving : c # Acceptor
  BY DEF Serving
<1>4. \A s \in Slots, t, u \in Threads : Holds(t, s) /\ Holds(u, s) => t = u
  BY DEF SlotOwnership
<1>5. \A c \in Serving : at[c] \in clients_used
  BY <1>1 DEF SlotOwnership
<1>6. \A c, e \in Serving : at[c] = at[e] => c = e
  BY <1>1, <1>4
<1>7. Assigning => \A c \in Serving : at[c] # at[Acceptor]
  BY <1>1, <1>2, <1>3, <1>4
<1>. QED
  BY <1>5, <1>6, <1>7

\* C->sock is stored and loaded without the mutex, and no thread writes the
\* field of a slot that another thread serves, except to store -1.
LEMMA SockInductive ==
  ASSUME IInv, SockFollowsHandler, [Next]_vars
  PROVE  SockFollowsHandler'
<1>. USE DEF Serving
<1>. SUFFICES ASSUME NEW c \in Conns, c \in Serving', pc'[c] # "enter"
              PROVE  sock'[at'[c]] \in {hsock'[c], -1}
  BY DEF SockFollowsHandler
<1>2. \/ at[c] \in Slots /\ c \in Threads /\ c # Acceptor /\ c \notin Daemons
      \/ pc[c] \in {"off", "freed", "done"}
  BY DEF IInv, AtOK, KindOK, Threads
<1>. USE DEF TypeOK, IInv, Goto, Threads
<1>3. CASE psc_client_alloc
  <2>1. c \in Serving /\ pc[c] # "enter" /\ at'[c] = at[c] /\ hsock' = hsock
    BY <1>3 DEF psc_client_alloc
  <2>2. PICK s \in Slots : s \notin clients_used /\ sock' = [sock EXCEPT ![s] = 0]
    BY <1>3 DEF psc_client_alloc, IsLowest
  <2>3. at[c] # s
    BY <2>1, <2>2, SlotsApart
  <2>. QED
    BY <2>1, <2>2, <2>3, <1>2 DEF SockFollowsHandler
<1>4. CASE AssignSock
  <2>1. c \in Serving /\ pc[c] # "enter" /\ at' = at /\ hsock' = hsock
    BY <1>4 DEF AssignSock
  <2>2. at[c] # at[Acceptor]
    BY <1>4, <2>1, SlotsApart DEF AssignSock, Assigning
  <2>. QED
    BY <1>4, <2>1, <2>2, <1>2 DEF AssignSock, SockFollowsHandler
<1>5. CASE Startup \/ AcceptError \/ Sleep \/ DropClient \/ SpawnHandler
           \/ \E e \in Conns : Accept(e)
  <2>1. c \in Serving /\ pc[c] # "enter" /\ at'[c] = at[c]
    BY <1>5 DEF Startup, AcceptError, Sleep, DropClient, SpawnHandler, Accept,
       KindOK, AcceptedOK, Owning
  <2>2. hsock' = hsock /\ sock' = sock
    BY <1>5 DEF Startup, AcceptError, Sleep, DropClient, SpawnHandler, Accept
  <2>. QED
    BY <2>1, <2>2 DEF SockFollowsHandler
<1>6. ASSUME NEW e \in Conns, HandlerEnter(e) PROVE sock'[at'[c]] \in {hsock'[c], -1}
  BY <1>6 DEF HandlerEnter, SockFollowsHandler
<1>7. ASSUME NEW e \in Conns, psc_client_free(e)
      PROVE  sock'[at'[c]] \in {hsock'[c], -1}
  <2>1. e \in Serving /\ c # e
    BY <1>7 DEF psc_client_free
  <2>2. c \in Serving /\ pc[c] # "enter" /\ at' = at /\ hsock' = hsock
    BY <1>7, <2>1 DEF psc_client_free
  <2>3. at[c] # at[e]
    BY <2>1, <2>2, SlotsApart
  <2>. QED
    BY <1>7, <2>2, <2>3, <1>2 DEF psc_client_free, SockFollowsHandler
<1>8. ASSUME NEW e \in Conns, (HandlerStep(e) \/ PeerStep(e)) /\ ~HandlerEnter(e)
                              /\ ~psc_client_free(e)
      PROVE  sock'[at'[c]] \in {hsock'[c], -1}
  <2>1. sock' = sock /\ at' = at /\ hsock' = hsock
    BY <1>8 DEF HandlerStep, PeerStep, psc_send_one, SendOne, RecvCall, RecvMsg,
       RecvError, Callback, HandlerClose, Connect, PeerGone
  <2>2. c \in Serving /\ pc[c] # "enter"
    BY <1>8 DEF HandlerStep, PeerStep, psc_send_one, SendOne, RecvCall, RecvMsg,
       RecvError, Callback, HandlerClose, Connect, PeerGone
  <2>. QED
    BY <2>1, <2>2 DEF SockFollowsHandler
<1>9. ASSUME NEW d \in Daemons, DaemonStep(d) PROVE sock'[at'[c]] \in {hsock'[c], -1}
  <2>1. sock' = sock /\ at'[c] = at[c] /\ hsock' = hsock /\ pc'[c] = pc[c]
    BY <1>9 DEF DaemonStep, psc_send, SendNext, SendFails, SendDone
  <2>. QED
    BY <2>1 DEF SockFollowsHandler
<1>10. ASSUME NEW t \in Daemons \cup Conns, ErrorClose(t)
       PROVE  sock'[at'[c]] \in {hsock'[c], -1}
  BY <1>10 DEF ErrorClose, SockFollowsHandler
<1>11. ASSUME NEW t \in Daemons \cup Conns, ErrorMark(t)
       PROVE  sock'[at'[c]] \in {hsock'[c], -1}
  <2>1. at'[c] = at[c] /\ hsock' = hsock /\ sock' = [sock EXCEPT ![at[t]] = -1]
    BY <1>11 DEF ErrorMark
  <2>2. c \in Serving /\ pc[c] # "enter"
    BY <1>11 DEF ErrorMark
  <2>. QED
    BY <2>1, <2>2, <1>2 DEF SockFollowsHandler
<1>12. CASE UNCHANGED vars
  BY <1>12 DEF vars, SockFollowsHandler
<1>. QED
  BY <1>3, <1>4, <1>5, <1>6, <1>7, <1>8, <1>9, <1>10, <1>11, <1>12
  DEF Next, RunStep, ErrorStep

\* A handler's slot holds its own descriptor, or the -1 of a failed send.
THEOREM SockFollows == Spec => []SockFollowsHandler
<1>1. Init => SockFollowsHandler
  BY DEF Init, SockFollowsHandler, Serving, Threads
<1>2. IInv /\ SockFollowsHandler /\ [Next]_vars => SockFollowsHandler'
  BY SockInductive
<1>. QED
  BY <1>1, <1>2, Invariance, PTL DEF Spec

\* Descriptor f denotes connection c.
Denotes(f, c) == f \in Fds /\ fdtab[f] = c

\* Until a send fails: nobody is in the error path, the acceptor's descriptor
\* denotes its connection and is passed on through C->sock to the handler,
\* which keeps it until it closes it.
DescOK ==
    ~senderr =>
        /\ fdtab[0] = Listener
        /\ \A t \in Threads : pc[t] \notin {"close", "mark"}
        /\ pc[Acceptor] \in Owning => Denotes(client, accepted)
        /\ pc[Acceptor] = "spawn" => sock[at[Acceptor]] = client
        /\ \A c \in Conns :
              /\ pc[c] = "enter" => Denotes(sock[at[c]], c)
              /\ pc[c] \in {"hello", "send", "recv", "blocked", "callback",
                            "leave", "freed"} => Denotes(hsock[c], c)
              /\ bound[c] \in {c, None}

\* A step that moves no descriptor and no slot keeps DescOK.
LEMMA DescFrame ==
  ASSUME DescOK, ~senderr' => ~senderr,
         fdtab' = fdtab, client' = client, accepted' = accepted,
         \A t \in Threads : ~senderr' => pc'[t] \notin {"close", "mark"},
         pc'[Acceptor] \in Owning => pc[Acceptor] = pc'[Acceptor],
         \A c \in Conns :
            /\ at'[c] = at[c] /\ hsock'[c] = hsock[c]
            /\ pc'[c] = "enter" => pc[c] = "enter" /\ sock'[at[c]] = sock[at[c]]
            /\ pc'[c] \in {"hello", "send", "recv", "blocked", "callback",
                           "leave", "freed"} =>
                  pc[c] \in {"hello", "send", "recv", "blocked", "callback",
                            "leave", "freed"}
            /\ bound'[c] \in {bound[c], None} \/ (~senderr => bound'[c] = c),
         pc'[Acceptor] = "spawn" =>
            at'[Acceptor] = at[Acceptor] /\ sock'[at[Acceptor]] = sock[at[Acceptor]]
  PROVE  DescOK'
BY DEF DescOK, Denotes, Owning

\* Closing a descriptor that denotes a connection leaves the other ones alone.
LEMMA CloseOthers ==
  ASSUME TypeOK, NEW e \in Conns, NEW f, Denotes(f, e), Close(f)
  PROVE  /\ fdtab[0] = Listener => fdtab'[0] = Listener
         /\ \A c \in Conns \ {e} : \A g : Denotes(g, c) => Denotes(g, c)'
<1>1. fdtab' = [fdtab EXCEPT ![f] = None]
  BY DEF Close, Denotes
<1>2. 0 \in Fds
  BY DEF Fds
<1>. QED
  BY <1>1, <1>2 DEF Denotes, TypeOK

\* Every step keeps descriptors and connections together until a send fails.
LEMMA DescInductive ==
  ASSUME IInv, DescOK, [Next]_vars
  PROVE  DescOK'
<1>. USE DEF IInv, TypeOK, Goto, Threads, Owning
<1>1. CASE Startup
  <2>1. \A c \in Conns : pc'[c] = pc[c] /\ pc[c] = "off"
    BY <1>1 DEF Startup, KindOK
  <2>2. \A d \in Daemons \cup {Acceptor} : pc'[d] \in {"idle", "accept"}
    BY <1>1 DEF Startup
  <2>3. UNCHANGED <<sock, fdtab, at, hsock, bound, client, accepted, senderr>>
    BY <1>1 DEF Startup
  <2>. QED
    BY <2>1, <2>2, <2>3, DescFrame
<1>2. CASE AcceptError \/ Sleep
  <2>1. UNCHANGED <<sock, fdtab, at, hsock, bound, client, accepted, senderr>>
    BY <1>2 DEF AcceptError, Sleep
  <2>2. /\ pc'[Acceptor] \in {"sleep", "accept"}
        /\ \A t \in Threads \ {Acceptor} : pc'[t] = pc[t]
    BY <1>2 DEF AcceptError, Sleep
  <2>. QED
    BY <2>1, <2>2 DEF DescOK, Denotes
<1>3. CASE psc_client_alloc
  <2>1. PICK s \in Slots : /\ s \notin clients_used
                           /\ sock' = [sock EXCEPT ![s] = 0]
                           /\ at' = [at EXCEPT ![Acceptor] = s]
    BY <1>3 DEF psc_client_alloc, IsLowest
  <2>2. \A c \in Conns : pc[c] = "enter" => sock'[at'[c]] = sock[at[c]]
    <3>1. \A c \in Conns : pc[c] = "enter" => at[c] # s /\ at[c] \in Slots
      BY <2>1, SlotsApart DEF Serving, AtOK
    <3>2. \A c \in Conns : at'[c] = at[c]
      BY <2>1
    <3>. QED
      BY <2>1, <3>1, <3>2
  <2>3. UNCHANGED <<fdtab, hsock, bound, client, accepted, senderr>>
    BY <1>3 DEF psc_client_alloc
  <2>4. /\ pc[Acceptor] = "alloc" /\ pc'[Acceptor] = "assign"
        /\ \A t \in Threads \ {Acceptor} : pc'[t] = pc[t]
    BY <1>3 DEF psc_client_alloc
  <2>. QED
    BY <2>2, <2>3, <2>4 DEF DescOK, Denotes
<1>4. CASE DropClient
  <2>1. /\ pc[Acceptor] = "alloc" /\ pc'[Acceptor] = "accept"
        /\ \A t \in Threads \ {Acceptor} : pc'[t] = pc[t]
        /\ UNCHANGED <<sock, at, hsock, bound, client, accepted, senderr>>
    BY <1>4 DEF DropClient
  <2>2. ~senderr => Denotes(client, accepted)
    BY <2>1 DEF DescOK
  <2>3. PICK a \in Conns : a = accepted /\ pc[a] = "off"
    BY <2>1 DEF AcceptedOK
  <2>4. ~senderr => /\ fdtab'[0] = Listener
                    /\ \A c \in Conns \ {a} : \A g : Denotes(g, c) => Denotes(g, c)'
    BY <1>4, <2>2, <2>3, CloseOthers DEF DropClient, DescOK
  <2>. QED
    BY <2>1, <2>3, <2>4 DEF DescOK
<1>5. CASE AssignSock
  <2>1. /\ pc[Acceptor] = "assign" /\ pc'[Acceptor] = "spawn"
        /\ \A t \in Threads \ {Acceptor} : pc'[t] = pc[t]
        /\ sock' = [sock EXCEPT ![at[Acceptor]] = client]
        /\ UNCHANGED <<fdtab, at, hsock, bound, client, accepted, senderr>>
    BY <1>5 DEF AssignSock
  <2>2. at[Acceptor] \in Slots
    BY <2>1 DEF AtOK, Assigning
  <2>3. \A c \in Conns : pc[c] = "enter" => at[c] # at[Acceptor]
    BY <2>1, SlotsApart DEF Serving, Assigning
  <2>4. \A c \in Conns : pc[c] = "enter" => sock'[at[c]] = sock[at[c]]
    BY <2>1, <2>3
  <2>5. sock'[at[Acceptor]] = client
    BY <2>1, <2>2
  <2>. QED
    BY <2>1, <2>4, <2>5 DEF DescOK, Denotes
<1>6. CASE SpawnHandler
  <2>1. PICK a \in Conns : a = accepted /\ pc[a] = "off"
    BY <1>6 DEF SpawnHandler, AcceptedOK
  <2>2. /\ pc[Acceptor] = "spawn"
        /\ pc' = [pc EXCEPT ![Acceptor] = "accept", ![a] = "enter"]
        /\ at' = [at EXCEPT ![a] = at[Acceptor]]
        /\ UNCHANGED <<fdtab, sock, hsock, bound, client, accepted, senderr>>
    BY <1>6, <2>1 DEF SpawnHandler
  <2>3. /\ pc'[Acceptor] = "accept" /\ pc'[a] = "enter"
        /\ at'[a] = at[Acceptor]
        /\ \A t \in Threads \ {Acceptor, a} : pc'[t] = pc[t] /\ at'[t] = at[t]
    BY <2>1, <2>2
  <2>4. ~senderr => Denotes(sock[at[Acceptor]], a)
    BY <2>1, <2>2 DEF DescOK
  <2>. QED
    BY <2>1, <2>2, <2>3, <2>4 DEF DescOK, Denotes
<1>7. ASSUME NEW c \in Conns, Accept(c) PROVE DescOK'
  <2>1. PICK f \in Fds : /\ fdtab[f] = None /\ client' = f
                         /\ fdtab' = [fdtab EXCEPT ![f] = c]
    BY <1>7 DEF Accept, IsLowest, FreeFds
  <2>2. /\ fdtab[0] = Listener /\ f # 0 /\ accepted' = c
        /\ UNCHANGED <<sock, at, hsock, bound, senderr>>
    BY <1>7, <2>1 DEF Accept
  <2>3. \A e \in Conns : \A g : Denotes(g, e) => Denotes(g, e)'
    BY <2>1 DEF Denotes
  <2>4. fdtab'[0] = Listener /\ Denotes(client, accepted)'
    BY <2>1, <2>2 DEF Denotes, Fds
  <2>5. /\ pc'[Acceptor] = "alloc"
        /\ \A t \in Threads \ {Acceptor} : pc'[t] = pc[t]
    BY <1>7 DEF Accept
  <2>. QED
    BY <2>2, <2>3, <2>4, <2>5 DEF DescOK
<1>8. ASSUME NEW c \in Conns, HandlerEnter(c) PROVE DescOK'
  <2>1. /\ pc[c] = "enter" /\ pc'[c] = "hello" /\ hsock'[c] = sock[at[c]]
        /\ \A t \in Threads \ {c} : pc'[t] = pc[t]
        /\ \A e \in Conns \ {c} : hsock'[e] = hsock[e]
        /\ UNCHANGED <<fdtab, sock, at, bound, client, accepted, senderr>>
    BY <1>8 DEF HandlerEnter
  <2>. QED
    BY <2>1 DEF DescOK, Denotes
<1>9. ASSUME NEW c \in Conns, psc_send_one(c) \/ SendOne(c) \/ RecvMsg(c)
      PROVE  DescOK'
  <2>1. /\ \A t \in Threads \ {c} : pc'[t] = pc[t]
        /\ pc[c] \in {"hello", "send", "blocked"}
        /\ pc'[c] \in {"recv", "send", "callback"} \/ (pc'[c] = "close" /\ senderr')
        /\ senderr => senderr'
        /\ UNCHANGED <<fdtab, sock, at, hsock, bound, client, accepted>>
    BY <1>9 DEF psc_send_one, SendOne, RecvMsg
  <2>. QED
    BY <2>1 DEF DescOK, Denotes
<1>10. ASSUME NEW c \in Conns, RecvCall(c) \/ RecvError(c) \/ Callback(c)
       PROVE  DescOK'
  <2>1. /\ \A t \in Threads \ {c} : pc'[t] = pc[t]
        /\ pc[c] \in {"recv", "blocked", "callback"}
        /\ pc'[c] \in {"leave", "recv", "blocked"}
        /\ UNCHANGED <<fdtab, sock, at, hsock, client, accepted, senderr>>
    BY <1>10 DEF RecvCall, RecvError, Callback
  <2>2. /\ \A e \in Conns \ {c} : bound'[e] = bound[e]
        /\ bound'[c] \in {bound[c], fdtab[hsock[c]], None}
    BY <1>10 DEF RecvCall, RecvError, Callback
  <2>3. ~senderr => fdtab[hsock[c]] = c
    BY <2>1 DEF DescOK, Denotes
  <2>. QED
    BY <2>1, <2>2, <2>3 DEF DescOK, Denotes
<1>11. ASSUME NEW c \in Conns, psc_client_free(c) PROVE DescOK'
  <2>1. /\ pc[c] = "leave" /\ pc'[c] = "freed"
        /\ \A t \in Threads \ {c} : pc'[t] = pc[t]
        /\ sock' = [sock EXCEPT ![at[c]] = 0]
        /\ UNCHANGED <<fdtab, at, hsock, bound, client, accepted, senderr>>
    BY <1>11 DEF psc_client_free
  <2>2. \A e \in Conns : pc[e] = "enter" => at[e] # at[c]
    BY <2>1, SlotsApart DEF Serving
  <2>3. \A e \in Conns : pc[e] = "enter" => sock'[at[e]] = sock[at[e]]
    BY <2>1, <2>2
  <2>4. pc[Acceptor] = "spawn" => sock'[at[Acceptor]] = sock[at[Acceptor]]
    BY <2>1, SlotsApart DEF Serving, Assigning
  <2>. QED
    BY <2>1, <2>3, <2>4 DEF DescOK, Denotes
<1>12. ASSUME NEW c \in Conns, HandlerClose(c) PROVE DescOK'
  <2>1. /\ pc[c] = "freed" /\ pc'[c] = "done"
        /\ \A t \in Threads \ {c} : pc'[t] = pc[t]
        /\ UNCHANGED <<sock, at, hsock, bound, client, accepted, senderr>>
    BY <1>12 DEF HandlerClose
  <2>2. ~senderr => Denotes(hsock[c], c)
    BY <2>1 DEF DescOK
  <2>3. ~senderr => /\ fdtab'[0] = Listener
                    /\ \A e \in Conns \ {c} : \A g : Denotes(g, e) => Denotes(g, e)'
    BY <1>12, <2>2, CloseOthers DEF HandlerClose, DescOK
  <2>4. pc[Acceptor] \in Owning => accepted \in Conns \ {c}
    BY <2>1 DEF AcceptedOK
  <2>. QED
    BY <2>1, <2>3, <2>4 DEF DescOK
<1>13. ASSUME NEW c \in Conns, PeerStep(c) PROVE DescOK'
  <2>1. UNCHANGED <<sock, fdtab, pc, at, hsock, bound, client, accepted, senderr>>
    BY <1>13 DEF PeerStep, Connect, PeerGone
  <2>. QED
    BY <2>1 DEF DescOK, Denotes
<1>14. ASSUME NEW d \in Daemons, DaemonStep(d) PROVE DescOK'
  <2>1. /\ \A t \in Threads \ {d} : pc'[t] = pc[t] /\ at'[t] = at[t]
        /\ pc'[d] \in {"scan", "idle"} \/ (pc'[d] = "close" /\ senderr')
        /\ senderr => senderr'
        /\ UNCHANGED <<fdtab, sock, hsock, bound, client, accepted>>
    BY <1>14 DEF DaemonStep, psc_send, SendNext, SendFails, SendDone
  <2>2. d \notin Conns /\ d # Acceptor
    OBVIOUS
  <2>. QED
    BY <2>1, <2>2 DEF DescOK, Denotes
<1>15. ASSUME NEW t \in Daemons \cup Conns, ErrorStep(t) PROVE DescOK'
  <2>1. senderr /\ senderr'
    BY <1>15 DEF ErrorStep, ErrorClose, ErrorMark, DescOK
  <2>. QED
    BY <2>1 DEF DescOK
<1>16. CASE UNCHANGED vars
  BY <1>16 DEF vars, DescOK, Denotes
<1>. QED
  BY <1>1, <1>2, <1>3, <1>4, <1>5, <1>6, <1>7, <1>8, <1>9, <1>10, <1>11, <1>12,
     <1>13, <1>14, <1>15, <1>16
  DEF Next, RunStep, HandlerStep

\* The error path of a failed send is the only way to a handler whose
\* descriptor is closed or denotes another connection.
THEOREM DescriptorsOwn == Spec => []OwnDescriptorUntilSendError
<1>1. Init => DescOK
  <2>. SUFFICES ASSUME Init PROVE DescOK
    OBVIOUS
  <2>1. fdtab[0] = Listener
    BY DEF Init, Fds
  <2>2. \A t \in Threads : pc[t] \in {"start", "off"}
    BY DEF Init
  <2>3. \A c \in Conns : bound[c] = None
    BY DEF Init
  <2>. QED
    BY <2>1, <2>2, <2>3 DEF DescOK, Owning, Threads
<1>2. IInv /\ DescOK /\ [Next]_vars => DescOK'
  BY DescInductive
<1>3. IInv /\ DescOK => OwnDescriptorUntilSendError
  <2>. SUFFICES ASSUME IInv, DescOK, ~senderr
                PROVE  /\ fdtab[0] = Listener
                       /\ \A c \in Serving : pc[c] # "enter" => fdtab[hsock[c]] = c
                       /\ \A c \in Conns : bound[c] \in {c, None}
    BY DEF OwnDescriptorUntilSendError
  <2>1. \A c \in Serving : pc[c] \notin {"close", "mark"}
    BY DEF DescOK, Serving, Threads
  <2>. QED
    BY <2>1 DEF DescOK, Denotes, Serving
<1>. QED
  BY <1>1, <1>2, <1>3, Invariance, PTL DEF Spec

-----------------------------------------------------------------------------
(* The refinement of ClientPool                                            *)

\* Slot s is promised to or used by connection c.
Serves(s, c) == \/ Assigning /\ at[Acceptor] = s /\ c = accepted
                \/ c \in Serving /\ at[c] = s

\* The refinement mapping gives the one connection that a slot serves.
HolderMap ==
    \A s \in Slots :
        /\ \A c \in Conns : Holder[s] = c <=> Serves(s, c)
        /\ Holder[s] = None <=> \A c \in Conns : ~Serves(s, c)

\* It does, because a used slot has one owner.
LEMMA HolderIs == IInv => HolderMap
<1>. SUFFICES ASSUME IInv, NEW s \in Slots
              PROVE  /\ \A c \in Conns : Holder[s] = c <=> Serves(s, c)
                     /\ Holder[s] = None <=> \A c \in Conns : ~Serves(s, c)
  BY DEF HolderMap
<1>1. Assigning => accepted \in Conns
  BY DEF IInv, AcceptedOK, Assigning, Owning
<1>2. Serving \subseteq Conns
  BY DEF Serving
<1>3. CASE Assigning /\ at[Acceptor] = s
  <2>1. Holder[s] = accepted
    BY <1>3 DEF Holder
  <2>2. \A c \in Serving : at[c] # s
    BY <1>3, SlotsApart
  <2>. QED
    BY <1>1, <1>3, <2>1, <2>2 DEF Serves
<1>4. CASE ~(Assigning /\ at[Acceptor] = s) /\ \E c \in Serving : at[c] = s
  <2>1. PICK c \in Serving : at[c] = s
    BY <1>4
  <2>2. \A e \in Serving : at[e] = s => e = c
    BY <2>1, SlotsApart
  <2>3. Holder[s] = CHOOSE e \in Serving : at[e] = s
    BY <1>4 DEF Holder
  <2>4. Holder[s] = c
    BY <2>1, <2>2, <2>3
  <2>. QED
    BY <1>2, <1>4, <2>1, <2>2, <2>4 DEF Serves
<1>5. CASE ~(Assigning /\ at[Acceptor] = s) /\ ~\E c \in Serving : at[c] = s
  <2>1. Holder[s] = None
    BY <1>5 DEF Holder
  <2>. QED
    BY <1>5, <2>1 DEF Serves
<1>. QED
  BY <1>3, <1>4, <1>5

\* Where nothing is served anew or no more, the mapping does not change.
LEMMA HolderFrame ==
  ASSUME HolderMap, HolderMap', NEW s \in Slots,
         \A c \in Conns : Serves(s, c)' <=> Serves(s, c)
  PROVE  Holder'[s] = Holder[s]
<1>1. /\ \A c \in Conns : Holder[s] = c <=> Serves(s, c)
      /\ Holder[s] = None <=> \A c \in Conns : ~Serves(s, c)
  BY DEF HolderMap
<1>2. /\ \A c \in Conns : Holder'[s] = c <=> Serves(s, c)'
      /\ Holder'[s] = None <=> \A c \in Conns : ~Serves(s, c)'
  BY DEF HolderMap
<1>3. CASE \A c \in Conns : ~Serves(s, c)
  BY <1>1, <1>2, <1>3
<1>4. CASE \E c \in Conns : Serves(s, c)
  <2>1. PICK c \in Conns : Serves(s, c)
    BY <1>4
  <2>. QED
    BY <1>1, <1>2, <2>1
<1>. QED
  BY <1>3, <1>4

\* psc_client_alloc takes a slot for the acceptor's connection,
\* psc_client_free releases one, and no other step changes who is served.
LEMMA PoolStep ==
  ASSUME IInv, HolderMap, HolderMap', [Next]_vars
  PROVE  [Pool!Next]_Holder
<1>. USE DEF IInv, TypeOK, Goto, Threads, Serving, Assigning
<1>1. (\A s \in Slots, c \in Conns : Serves(s, c)' <=> Serves(s, c))
         => Holder' = Holder
  <2>. SUFFICES ASSUME \A s \in Slots, c \in Conns : Serves(s, c)' <=> Serves(s, c)
                PROVE  Holder' = Holder
    OBVIOUS
  <2>1. \A s \in Slots : Holder'[s] = Holder[s]
    BY HolderFrame
  <2>. QED
    BY <2>1 DEF Holder
<1>0. /\ Holder = [s \in Slots |-> Holder[s]]
      /\ Holder' = [s \in Slots |-> Holder'[s]]
  BY DEF Holder
<1>2. CASE psc_client_alloc
  <2>1. PICK s \in Slots : /\ s \notin clients_used
                           /\ at' = [at EXCEPT ![Acceptor] = s]
    BY <1>2 DEF psc_client_alloc, IsLowest
  <2>2. PICK a \in Conns : a = accepted /\ a = accepted' /\ pc[a] = "off"
    BY <1>2 DEF psc_client_alloc, AcceptedOK, Owning
  <2>3. /\ pc[Acceptor] = "alloc" /\ pc'[Acceptor] = "assign" /\ at'[Acceptor] = s
        /\ \A c \in Conns : pc'[c] = pc[c] /\ at'[c] = at[c]
    BY <1>2, <2>1 DEF psc_client_alloc
  <2>4. \A r \in Slots, c \in Conns :
           Serves(r, c)' <=> Serves(r, c) \/ (r = s /\ c = a)
    BY <2>2, <2>3 DEF Serves
  <2>5. \A c \in Conns : ~Serves(s, c)
    BY <2>1, <2>3, SlotsApart DEF Serves
  <2>6. \A r \in Slots : ~Serves(r, a)
    BY <2>2, <2>3 DEF Serves
  <2>7. Holder[s] = None /\ \A r \in Slots : Holder[r] # a
    BY <2>5, <2>6 DEF HolderMap
  <2>8. \A r \in Slots \ {s} : Holder'[r] = Holder[r]
    BY <2>4, HolderFrame
  <2>9. Holder'[s] = a
    BY <2>4 DEF HolderMap
  <2>10. Holder' = [Holder EXCEPT ![s] = a]
    BY <1>0, <2>8, <2>9
  <2>. QED
    BY <2>7, <2>10 DEF Pool!Next, Pool!Take
<1>3. ASSUME NEW c \in Conns, psc_client_free(c) PROVE Pool!Next
  <2>1. /\ pc[c] = "leave" /\ pc'[c] = "freed" /\ at' = at
        /\ accepted' = accepted
        /\ \A t \in Threads \ {c} : pc'[t] = pc[t]
    BY <1>3 DEF psc_client_free
  <2>2. PICK s \in Slots : s = at[c]
    BY <2>1 DEF AtOK
  <2>3. \A r \in Slots, e \in Conns : Serves(r, e) => r = s \/ e # c
    <3>1. pc[Acceptor] \in Owning => accepted # c
      BY <2>1 DEF AcceptedOK
    <3>. QED
      BY <2>2, <3>1 DEF Serves, Owning
  <2>4. \A e \in Conns : Serves(s, e) <=> e = c
    BY <2>1, <2>2, SlotsApart DEF Serves
  <2>5. \A e \in Conns : ~Serves(s, e)'
    BY <2>1, <2>2, SlotsApart DEF Serves
  <2>6. \A r \in Slots \ {s} : \A e \in Conns : Serves(r, e)' <=> Serves(r, e)
    BY <2>1, <2>2, <2>3 DEF Serves
  <2>7. \A r \in Slots \ {s} : Holder'[r] = Holder[r]
    BY <2>6, HolderFrame
  <2>8. Holder'[s] = None /\ Holder[s] # None
    BY <2>4, <2>5 DEF HolderMap
  <2>9. Holder' = [Holder EXCEPT ![s] = None]
    BY <1>0, <2>7, <2>8
  <2>. QED
    BY <2>8, <2>9 DEF Pool!Next, Pool!Release
<1>4. CASE SpawnHandler
  <2>1. PICK a \in Conns : a = accepted /\ a = accepted' /\ pc[a] = "off"
    BY <1>4 DEF SpawnHandler, AcceptedOK, Owning
  <2>2. /\ pc[Acceptor] = "spawn" /\ a # Acceptor
        /\ pc' = [pc EXCEPT ![Acceptor] = "accept", ![a] = "enter"]
        /\ at' = [at EXCEPT ![a] = at[Acceptor]]
    BY <1>4, <2>1 DEF SpawnHandler
  <2>3. /\ pc'[Acceptor] = "accept" /\ pc'[a] = "enter"
        /\ at'[a] = at[Acceptor]
        /\ \A c \in Conns \ {a} : pc'[c] = pc[c] /\ at'[c] = at[c]
    BY <2>2
  <2>4. \A s \in Slots, c \in Conns : Serves(s, c)' <=> Serves(s, c)
    BY <2>1, <2>2, <2>3 DEF Serves
  <2>. QED
    BY <1>1, <2>4
<1>5. CASE Startup \/ AcceptError \/ Sleep \/ DropClient \/ AssignSock
           \/ \E c \in Conns : Accept(c)
  <2>1. \A c \in Conns : pc'[c] = pc[c] /\ at'[c] = at[c]
    BY <1>5 DEF Startup, AcceptError, Sleep, DropClient, AssignSock, Accept
  <2>2. /\ Assigning' <=> Assigning
        /\ Assigning => accepted' = accepted
        /\ at'[Acceptor] = at[Acceptor]
    BY <1>5 DEF Startup, AcceptError, Sleep, DropClient, AssignSock, Accept
  <2>3. \A s \in Slots, c \in Conns : Serves(s, c)' <=> Serves(s, c)
    BY <2>1, <2>2 DEF Serves
  <2>. QED
    BY <1>1, <2>3
<1>6. ASSUME NEW c \in Conns, HandlerStep(c) \/ PeerStep(c), ~psc_client_free(c)
      PROVE  Holder' = Holder
  <2>1. at' = at /\ accepted' = accepted
    BY <1>6 DEF HandlerStep, PeerStep, HandlerEnter, psc_send_one, SendOne,
       RecvCall, RecvMsg, RecvError, Callback, HandlerClose, Connect, PeerGone
  <2>2. /\ \A t \in Threads : t # c => pc'[t] = pc[t]
        /\ c \in Serving' <=> c \in Serving
    BY <1>6 DEF HandlerStep, PeerStep, HandlerEnter, psc_send_one, SendOne,
       RecvCall, RecvMsg, RecvError, Callback, HandlerClose, Connect, PeerGone
  <2>3. \A s \in Slots, e \in Conns : Serves(s, e)' <=> Serves(s, e)
    BY <2>1, <2>2 DEF Serves
  <2>. QED
    BY <1>1, <2>3
<1>7. ASSUME NEW d \in Daemons, DaemonStep(d) PROVE Holder' = Holder
  <2>1. \A t \in Threads \ {d} : pc'[t] = pc[t] /\ at'[t] = at[t]
    BY <1>7 DEF DaemonStep, psc_send, SendNext, SendFails, SendDone
  <2>2. d \notin Conns \cup {Acceptor} /\ accepted' = accepted
    BY <1>7 DEF DaemonStep, psc_send, SendNext, SendFails, SendDone
  <2>3. \A s \in Slots, e \in Conns : Serves(s, e)' <=> Serves(s, e)
    BY <2>1, <2>2 DEF Serves
  <2>. QED
    BY <1>1, <2>3
<1>8. ASSUME NEW t \in Daemons \cup Conns, ErrorStep(t) PROVE Holder' = Holder
  <2>1. /\ \A u \in Threads \ {t} : pc'[u] = pc[u] /\ at'[u] = at[u]
        /\ t \in Conns => at'[t] = at[t]
        /\ accepted' = accepted
    BY <1>8 DEF ErrorStep, ErrorClose, ErrorMark
  <2>2. t \in Conns => t \in Serving /\ t \in Serving'
    BY <1>8 DEF ErrorStep, ErrorClose, ErrorMark
  <2>3. \A s \in Slots, e \in Conns : Serves(s, e)' <=> Serves(s, e)
    BY <2>1, <2>2 DEF Serves
  <2>. QED
    BY <1>1, <2>3
<1>9. CASE UNCHANGED vars
  <2>1. \A s \in Slots, e \in Conns : Serves(s, e)' <=> Serves(s, e)
    BY <1>9 DEF vars, Serves
  <2>. QED
    BY <1>1, <2>1
<1>. QED
  BY <1>2, <1>3, <1>4, <1>5, <1>6, <1>7, <1>8, <1>9 DEF Next, RunStep

\* The slots of the server, for any number of slots and connections, implement
\* the abstract pool.
THEOREM PoolImplemented == Spec => ImplementsPool
<1>1. Init => Pool!Init
  <2>. SUFFICES ASSUME Init PROVE Pool!Init
    OBVIOUS
  <2>1. ~Assigning /\ Serving = {}
    BY DEF Init, Assigning, Serving, Threads
  <2>. QED
    BY <2>1 DEF Holder, Pool!Init
<1>2. IInv /\ HolderMap /\ HolderMap' /\ [Next]_vars => [Pool!Next]_Holder
  BY PoolStep
<1>3. IInv => HolderMap
  BY HolderIs
<1>. QED
  BY <1>1, <1>2, <1>3, Invariance, PTL DEF Spec, ImplementsPool, Pool!Spec

=============================================================================
