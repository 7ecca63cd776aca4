----------------------------- MODULE PscServer -----------------------------
(***************************************************************************)
(* The TCP server of the power supply controller (listener.c): the accept  *)
(* loop of psc_run, one handle_client thread per connection, and the       *)
(* daemon threads (lstats, sadata, snapshots, console) that push messages  *)
(* to every client with psc_send.                                          *)
(*                                                                         *)
(* The threads share psc_key: the bit set clients_used and the array       *)
(* clients[], of which the model keeps the field sock.  sendguard protects *)
(* them, except that psc_run stores C->sock and handle_client loads it     *)
(* without the mutex.  A handler thread is named by the connection that it *)
(* was created for.                                                        *)
(*                                                                         *)
(* lwIP is external: a table of descriptors in which accept() takes the    *)
(* lowest free number, and 0 is the listening socket, the first that is    *)
(* opened.  A message is sent or received whole; what the receive callback *)
(* does with it is the subject of other modules.                           *)
(***************************************************************************)
EXTENDS Integers, FiniteSets

CONSTANTS
    PSC_MAX_CLIENTS,  \* slots of psc_key::clients
    MaxFd,            \* highest descriptor number of lwIP
    Daemons,          \* threads that call psc_send
    Conns,            \* connections that peers may open, each at most once
    Acceptor,         \* the thread that runs psc_run
    None,             \* no thread, no connection
    Listener          \* what descriptor 0 denotes after listen()

ASSUME ServerAssumption ==
    /\ PSC_MAX_CLIENTS \in Nat \ {0}
    /\ MaxFd \in Nat \ {0}
    /\ None \notin Daemons \cup Conns \cup {Acceptor}
    /\ Acceptor \notin Daemons \cup Conns
    /\ Listener \notin Conns \cup {None}
    /\ Daemons \cap Conns = {}

VARIABLES
    sendguard,     \* the thread that holds the mutex, or None
    clients_used,  \* psc_key::clients_used, as a set of indices
    sock,          \* psc_key::clients[i].sock
    fdtab,         \* lwIP: what each descriptor denotes
    conn,          \* lwIP and peers: the life of each connection
    pc,            \* where each thread is
    at,            \* slot that a thread works on: C, or the loop index of psc_send
    hsock,         \* handle_client: the local copy of C->sock
    bound,         \* handle_client: the connection that its recv() waits on
    client,        \* psc_run: the descriptor that accept() returned
    accepted,      \* psc_run: the connection behind that descriptor
    senderr        \* history: some send has failed

vars == <<sendguard, clients_used, sock, fdtab, conn, pc, at, hsock, bound,
          client, accepted, senderr>>

Slots   == 0 .. PSC_MAX_CLIENTS - 1
Fds     == 0 .. MaxFd
Threads == Daemons \cup Conns \cup {Acceptor}

-----------------------------------------------------------------------------
(* lwIP sockets, as listener.c uses them.                                  *)

FreeFds == {f \in Fds : fdtab[f] = None}

IsLowest(n, S) == n \in S /\ \A m \in S : n <= m

\* close(f): the number is free again and the connection is gone.  Closing
\* the listening socket aborts the connections that wait to be accepted.
Close(f) ==
    IF f \in Fds /\ fdtab[f] # None
    THEN /\ fdtab' = [fdtab EXCEPT ![f] = None]
         /\ conn' = [c \in Conns |->
                        IF \/ c = fdtab[f]
                           \/ (fdtab[f] = Listener /\ conn[c] = "backlog")
                        THEN "closed" ELSE conn[c]]
    ELSE UNCHANGED <<fdtab, conn>>

\* The results psc_sendmsg can have: an open connection may time out
\* (SO_SNDTIMEO), a broken one may still buffer the data, anything else fails.
SendResults(f) ==
    IF f \in Fds /\ fdtab[f] \in Conns THEN {"ok", "error"} ELSE {"error"}

-----------------------------------------------------------------------------
Init ==
    /\ sendguard = None
    /\ clients_used = {}
    /\ sock = [s \in Slots |-> 0]
    /\ fdtab = [f \in Fds |-> IF f = 0 THEN Listener ELSE None]
    /\ conn = [c \in Conns |-> "idle"]
    /\ pc = [t \in Threads |-> IF t = Acceptor THEN "start" ELSE "off"]
    /\ at = [t \in Threads |-> 0]
    /\ hsock = [c \in Conns |-> -1]
    /\ bound = [c \in Conns |-> None]
    /\ client = -1
    /\ accepted = None
    /\ senderr = FALSE

Goto(t, label) == pc' = [pc EXCEPT ![t] = label]

-----------------------------------------------------------------------------
(* psc_run                                                                 *)

\* (*config->start)(): on_startup creates the daemons before the first accept.
Startup ==
    /\ pc[Acceptor] = "start"
    /\ pc' = [t \in Threads |-> CASE t = Acceptor -> "accept"
                                  [] t \in Daemons -> "idle"
                                  [] OTHER -> pc[t]]
    /\ UNCHANGED <<sendguard, clients_used, sock, fdtab, conn, at, hsock,
                   bound, client, accepted, senderr>>

\* accept() returns a connection of the backlog.
Accept(c) ==
    /\ pc[Acceptor] = "accept"
    /\ fdtab[0] = Listener
    /\ conn[c] = "backlog"
    /\ \E f \in Fds : /\ IsLowest(f, FreeFds)
                      /\ client' = f
                      /\ fdtab' = [fdtab EXCEPT ![f] = c]
    /\ accepted' = c
    /\ conn' = [conn EXCEPT ![c] = "open"]
    /\ Goto(Acceptor, "alloc")
    /\ UNCHANGED <<sendguard, clients_used, sock, at, hsock, bound, senderr>>

\* accept() returns -1: no descriptor for the connection, which lwIP drops, or
\* the listening socket is closed.  psc_run sleeps and calls accept() again.
AcceptError ==
    /\ pc[Acceptor] = "accept"
    /\ \/ /\ fdtab[0] # Listener
          /\ UNCHANGED conn
       \/ /\ fdtab[0] = Listener
          /\ FreeFds = {}
          /\ \E c \in Conns : /\ conn[c] = "backlog"
                              /\ conn' = [conn EXCEPT ![c] = "closed"]
    /\ Goto(Acceptor, "sleep")
    /\ UNCHANGED <<sendguard, clients_used, sock, fdtab, at, hsock, bound,
                   client, accepted, senderr>>

Sleep ==
    /\ pc[Acceptor] = "sleep"
    /\ Goto(Acceptor, "accept")
    /\ UNCHANGED <<sendguard, clients_used, sock, fdtab, conn, at, hsock,
                   bound, client, accepted, senderr>>

\* Variant: the slot is handed out but its bit is not set.
psc_client_alloc_NoBit ==
    /\ pc[Acceptor] = "alloc"
    /\ sendguard = None
    /\ \E s \in Slots : /\ IsLowest(s, Slots \ clients_used)
                        /\ sock' = [sock EXCEPT ![s] = 0]
                        /\ at' = [at EXCEPT ![Acceptor] = s]
    /\ Goto(Acceptor, "assign")
    /\ UNCHANGED <<sendguard, clients_used, fdtab, conn, hsock, bound, client,
                   accepted, senderr>>

\* psc_client_alloc: the lowest free slot, zeroed, hence with sock = 0.
psc_client_alloc ==
    /\ pc[Acceptor] = "alloc"
    /\ sendguard = None
    /\ \E s \in Slots : /\ IsLowest(s, Slots \ clients_used)
                        /\ clients_used' = clients_used \cup {s}
                        /\ sock' = [sock EXCEPT ![s] = 0]
                        /\ at' = [at EXCEPT ![Acceptor] = s]
    /\ Goto(Acceptor, "assign")
    /\ UNCHANGED <<sendguard, fdtab, conn, hsock, bound, client, accepted,
                   senderr>>

\* All slots are used: psc_run drops the client.
DropClient ==
    /\ pc[Acceptor] = "alloc"
    /\ sendguard = None
    /\ Slots \ clients_used = {}
    /\ Close(client)
    /\ Goto(Acceptor, "accept")
    /\ UNCHANGED <<sendguard, clients_used, sock, at, hsock, bound, client,
                   accepted, senderr>>

\* C->sock = client, without the mutex.
AssignSock ==
    /\ pc[Acceptor] = "assign"
    /\ sock' = [sock EXCEPT ![at[Acceptor]] = client]
    /\ Goto(Acceptor, "spawn")
    /\ UNCHANGED <<sendguard, clients_used, fdtab, conn, at, hsock, bound,
                   client, accepted, senderr>>

\* sys_thread_new(handle_client, C), which lwIP does not let fail.
SpawnHandler ==
    /\ pc[Acceptor] = "spawn"
    /\ pc' = [pc EXCEPT ![Acceptor] = "accept", ![accepted] = "enter"]
    /\ at' = [at EXCEPT ![accepted] = at[Acceptor]]
    /\ UNCHANGED <<sendguard, clients_used, sock, fdtab, conn, hsock, bound,
                   client, accepted, senderr>>

-----------------------------------------------------------------------------
(* handle_client                                                           *)

\* int sock = C->sock, without the mutex.
HandlerEnter(c) ==
    /\ pc[c] = "enter"
    /\ hsock' = [hsock EXCEPT ![c] = sock[at[c]]]
    /\ Goto(c, "hello")
    /\ UNCHANGED <<sendguard, clients_used, sock, fdtab, conn, at, bound,
                   client, accepted, senderr>>

\* conn(PSC_CONN): client_event greets the client through psc_send_one, which
\* skips the send when C->sock is -1.
psc_send_one(c) ==
    /\ pc[c] = "hello"
    /\ sendguard = None
    /\ IF sock[at[c]] = -1
       THEN Goto(c, "recv") /\ UNCHANGED sendguard
       ELSE Goto(c, "send") /\ sendguard' = c
    /\ UNCHANGED <<clients_used, sock, fdtab, conn, at, hsock, bound, client,
                   accepted, senderr>>

SendOne(c) ==
    /\ pc[c] = "send"
    /\ \E result \in SendResults(sock[at[c]]) :
          \/ /\ result = "ok"
             /\ Goto(c, "recv")
             /\ sendguard' = None
             /\ UNCHANGED senderr
          \/ /\ result = "error"
             /\ Goto(c, "close")
             /\ UNCHANGED sendguard
             /\ senderr' = TRUE
    /\ UNCHANGED <<clients_used, sock, fdtab, conn, at, hsock, bound, client,
                   accepted>>

\* psc_recvmsg looks the local descriptor up, then waits on what it denotes.
RecvCall(c) ==
    /\ pc[c] = "recv"
    /\ IF hsock[c] \in Fds /\ fdtab[hsock[c]] \in Conns
       THEN /\ bound' = [bound EXCEPT ![c] = fdtab[hsock[c]]]
            /\ Goto(c, "blocked")
       ELSE /\ UNCHANGED bound
            /\ Goto(c, "leave")
    /\ UNCHANGED <<sendguard, clients_used, sock, fdtab, conn, at, hsock,
                   client, accepted, senderr>>

\* A whole message: the receive callback (client_msg) runs.
RecvMsg(c) ==
    /\ pc[c] = "blocked"
    /\ conn[bound[c]] = "open"
    /\ Goto(c, "callback")
    /\ UNCHANGED <<sendguard, clients_used, sock, fdtab, conn, at, hsock,
                   bound, client, accepted, senderr>>

\* An error: SO_RCVTIMEO or a bad header on an open connection, or the
\* connection is broken, or it was closed under the waiting thread.
RecvError(c) ==
    /\ pc[c] = "blocked"
    /\ bound' = [bound EXCEPT ![c] = None]
    /\ Goto(c, "leave")
    /\ UNCHANGED <<sendguard, clients_used, sock, fdtab, conn, at, hsock,
                   client, accepted, senderr>>

Callback(c) ==
    /\ pc[c] = "callback"
    /\ bound' = [bound EXCEPT ![c] = None]
    /\ Goto(c, "recv")
    /\ UNCHANGED <<sendguard, clients_used, sock, fdtab, conn, at, hsock,
                   client, accepted, senderr>>

\* Variant: the slot is released without the mutex.
psc_client_free_NoLock(c) ==
    /\ pc[c] = "leave"
    /\ clients_used' = clients_used \ {at[c]}
    /\ sock' = [sock EXCEPT ![at[c]] = 0]
    /\ Goto(c, "freed")
    /\ UNCHANGED <<sendguard, fdtab, conn, at, hsock, bound, client, accepted,
                   senderr>>

\* conn(PSC_DIS) only prints; psc_client_free releases and zeroes the slot.
psc_client_free(c) ==
    /\ pc[c] = "leave"
    /\ sendguard = None
    /\ clients_used' = clients_used \ {at[c]}
    /\ sock' = [sock EXCEPT ![at[c]] = 0]
    /\ Goto(c, "freed")
    /\ UNCHANGED <<sendguard, fdtab, conn, at, hsock, bound, client,
                   accepted, senderr>>

\* Variant: the closing thread forgets to end and closes once more.
HandlerClose_Twice(c) ==
    /\ pc[c] = "freed"
    /\ sendguard = None
    /\ Close(hsock[c])
    /\ UNCHANGED <<pc, sendguard, clients_used, sock, at, hsock, bound, client,
                   accepted, senderr>>

\* close(sock) of the local copy, under the mutex; the thread ends.
HandlerClose(c) ==
    /\ pc[c] = "freed"
    /\ sendguard = None
    /\ Close(hsock[c])
    /\ Goto(c, "done")
    /\ UNCHANGED <<sendguard, clients_used, sock, at, hsock, bound, client,
                   accepted, senderr>>

-----------------------------------------------------------------------------
(* psc_send, and the error path that it shares with psc_send_one           *)

psc_send(d) ==
    /\ pc[d] = "idle"
    /\ sendguard = None
    /\ sendguard' = d
    /\ at' = [at EXCEPT ![d] = 0]
    /\ Goto(d, "scan")
    /\ UNCHANGED <<clients_used, sock, fdtab, conn, hsock, bound, client,
                   accepted, senderr>>

\* Variant: the loop runs one slot past the last.
SendNext_PastEnd(d) ==
    /\ pc[d] = "scan"
    /\ at[d] \in 0 .. PSC_MAX_CLIENTS
    /\ at[d] \notin clients_used
    /\ at' = [at EXCEPT ![d] = @ + 1]
    /\ UNCHANGED <<sendguard, clients_used, sock, fdtab, conn, pc, hsock,
                   bound, client, accepted, senderr>>

\* One turn of the loop that has nothing to send, or sends with success.
SendNext(d) ==
    /\ pc[d] = "scan"
    /\ at[d] \in Slots
    /\ \/ at[d] \notin clients_used
       \/ sock[at[d]] = -1
       \/ "ok" \in SendResults(sock[at[d]])
    /\ at' = [at EXCEPT ![d] = @ + 1]
    /\ UNCHANGED <<sendguard, clients_used, sock, fdtab, conn, pc, hsock,
                   bound, client, accepted, senderr>>

SendFails(d) ==
    /\ pc[d] = "scan"
    /\ at[d] \in clients_used
    /\ sock[at[d]] # -1
    /\ "error" \in SendResults(sock[at[d]])
    /\ senderr' = TRUE
    /\ Goto(d, "close")
    /\ UNCHANGED <<sendguard, clients_used, sock, fdtab, conn, at, hsock,
                   bound, client, accepted>>

SendDone(d) ==
    /\ pc[d] = "scan"
    /\ at[d] \notin Slots
    /\ sendguard' = None
    /\ Goto(d, "idle")
    /\ UNCHANGED <<clients_used, sock, fdtab, conn, at, hsock, bound, client,
                   accepted, senderr>>

\* close(C->sock): C->sock is loaded again.
ErrorClose(t) ==
    /\ pc[t] = "close"
    /\ Close(sock[at[t]])
    /\ Goto(t, "mark")
    /\ UNCHANGED <<sendguard, clients_used, sock, at, hsock, bound, client,
                   accepted, senderr>>

\* Variant: the error path zeroes the descriptor instead of storing -1.
ErrorMark_Zero(t) ==
    /\ pc[t] = "mark"
    /\ sock' = [sock EXCEPT ![at[t]] = 0]
    /\ \/ /\ t \in Daemons
          /\ at' = [at EXCEPT ![t] = @ + 1]
          /\ Goto(t, "scan")
          /\ UNCHANGED sendguard
       \/ /\ t \in Conns
          /\ sendguard' = None
          /\ Goto(t, "recv")
          /\ UNCHANGED at
    /\ UNCHANGED <<clients_used, fdtab, conn, hsock, bound, client, accepted,
                   senderr>>

\* C->sock = -1; psc_send goes on with the next slot, psc_send_one returns.
ErrorMark(t) ==
    /\ pc[t] = "mark"
    /\ sock' = [sock EXCEPT ![at[t]] = -1]
    /\ \/ /\ t \in Daemons
          /\ at' = [at EXCEPT ![t] = @ + 1]
          /\ Goto(t, "scan")
          /\ UNCHANGED sendguard
       \/ /\ t \in Conns
          /\ sendguard' = None
          /\ Goto(t, "recv")
          /\ UNCHANGED at
    /\ UNCHANGED <<clients_used, fdtab, conn, hsock, bound, client, accepted,
                   senderr>>

-----------------------------------------------------------------------------
(* Peers                                                                   *)

Connect(c) ==
    /\ conn[c] = "idle"
    /\ pc[Acceptor] # "start"
    /\ conn' = [conn EXCEPT ![c] = IF fdtab[0] = Listener THEN "backlog"
                                                          ELSE "closed"]
    /\ UNCHANGED <<sendguard, clients_used, sock, fdtab, pc, at, hsock,
                   bound, client, accepted, senderr>>

\* The peer disconnects, or the network fails.
PeerGone(c) ==
    /\ conn[c] = "open"
    /\ conn' = [conn EXCEPT ![c] = "broken"]
    /\ UNCHANGED <<sendguard, clients_used, sock, fdtab, pc, at, hsock,
                   bound, client, accepted, senderr>>

-----------------------------------------------------------------------------
RunStep == \/ Startup \/ AcceptError \/ Sleep \/ psc_client_alloc
           \/ DropClient \/ AssignSock \/ SpawnHandler
           \/ \E c \in Conns : Accept(c)

HandlerStep(c) == \/ HandlerEnter(c) \/ psc_send_one(c) \/ SendOne(c)
                  \/ RecvCall(c) \/ RecvMsg(c) \/ RecvError(c) \/ Callback(c)
                  \/ psc_client_free(c) \/ HandlerClose(c)

DaemonStep(d) == psc_send(d) \/ SendNext(d) \/ SendFails(d) \/ SendDone(d)

ErrorStep(t) == ErrorClose(t) \/ ErrorMark(t)

PeerStep(c) == Connect(c) \/ PeerGone(c)

Next ==
    \/ RunStep
    \/ \E c \in Conns : HandlerStep(c) \/ PeerStep(c)
    \/ \E d \in Daemons : DaemonStep(d)
    \/ \E t \in Daemons \cup Conns : ErrorStep(t)

Spec == Init /\ [][Next]_vars

(***************************************************************************)
(* Fairness.  Every thread that can run does, and a FreeRTOS mutex goes to *)
(* its waiters in turn (they have one priority), hence SF on the steps     *)
(* that take it.  A thread is at one place at a time, so its steps share a *)
(* condition.  Nothing is assumed of the peers, of when a daemon sends, or *)
(* of a recv() on an open connection: it may wait for ever.                *)
(***************************************************************************)
RecvWakes(c) == RecvError(c) /\ conn[bound[c]] # "open"

Fairness ==
    /\ WF_vars(RunStep)
    /\ SF_vars(psc_client_alloc \/ DropClient)
    /\ \A c \in Conns :
          /\ WF_vars(\/ HandlerEnter(c) \/ SendOne(c) \/ RecvCall(c) \/ Callback(c)
                     \/ RecvWakes(c) \/ ErrorStep(c))
          /\ SF_vars(psc_send_one(c) \/ psc_client_free(c) \/ HandlerClose(c))
    /\ \A d \in Daemons :
          WF_vars(SendNext(d) \/ SendFails(d) \/ SendDone(d) \/ ErrorStep(d))

FairSpec == Spec /\ Fairness

-----------------------------------------------------------------------------
(* Properties                                                              *)

Labels == {"start", "accept", "sleep", "alloc", "assign", "spawn", "off",
           "enter", "hello", "send", "close", "mark", "recv", "blocked",
           "callback", "leave", "freed", "done", "idle", "scan"}

\* The state of server, lwIP and threads keeps its types; in particular no
\* thread works on a slot beyond the last (the loop index may be one past it).
TypeOK ==
    /\ sendguard \in Threads \cup {None}
    /\ clients_used \subseteq Slots
    /\ sock \in [Slots -> Fds \cup {-1}]
    /\ fdtab \in [Fds -> Conns \cup {Listener, None}]
    /\ conn \in [Conns -> {"idle", "backlog", "open", "broken", "closed"}]
    /\ pc \in [Threads -> Labels]
    /\ at \in [Threads -> 0 .. PSC_MAX_CLIENTS]
    /\ hsock \in [Conns -> Fds \cup {-1}]
    /\ bound \in [Conns -> Conns \cup {None}]
    /\ client \in Fds \cup {-1}
    /\ accepted \in Conns \cup {None}
    /\ senderr \in BOOLEAN

\* The connection whose handler holds its slot.
Serving == {c \in Conns : pc[c] \in {"enter", "hello", "send", "close", "mark",
                                    "recv", "blocked", "callback", "leave"}}

Assigning == pc[Acceptor] \in {"assign", "spawn"}

Holds(t, s) == /\ at[t] = s
               /\ t \in Serving \/ (t = Acceptor /\ Assigning)

\* psc_send walks clients[] under sendguard on the strength of this: a bit of
\* clients_used is set exactly while one thread, the acceptor between
\* psc_client_alloc and sys_thread_new or one handler until psc_client_free,
\* holds the slot.  Neither a leaked nor a doubly allocated slot.
SlotOwnership ==
    \A s \in Slots :
        /\ s \in clients_used <=> \E t \in Threads : Holds(t, s)
        /\ \A t, u \in Threads : Holds(t, s) /\ Holds(u, s) => t = u

\* While a handler runs, clients[i].sock is its own descriptor or the -1 that a
\* failed send left, although it is stored and loaded without the mutex.
SockFollowsHandler ==
    \A c \in Serving :
        pc[c] # "enter" => sock[at[c]] \in {hsock[c], -1}

\* As long as no send has failed, every handler's descriptor denotes the
\* connection it was created for and the listening socket is open: the error
\* path of psc_send is the only way to a closed or reused number.
OwnDescriptorUntilSendError ==
    ~senderr =>
        /\ fdtab[0] = Listener
        /\ \A c \in Serving : pc[c] # "enter" => fdtab[hsock[c]] = c
        /\ \A c \in Conns : bound[c] \in {c, None}

\* A fan-out of psc_send sees one set of clients from its first slot to its
\* last: nobody allocates or frees a slot while a thread holds sendguard.
FanoutSeesOneSet ==
    [][sendguard # None => UNCHANGED clients_used]_vars

\* The slots implement the abstract pool.
Holder == [s \in Slots |->
             IF Assigning /\ at[Acceptor] = s THEN accepted
             ELSE IF \E c \in Serving : at[c] = s
                  THEN CHOOSE c \in Serving : at[c] = s
                  ELSE None]

Pool == INSTANCE ClientPool WITH holder <- Holder

\* psc_client_alloc and psc_client_free, called by the acceptor and by the
\* handlers in any order, implement ClientPool.
ImplementsPool == Pool!Spec

\* A handler that has left its receive loop releases its slot, closes its
\* descriptor and ends, whatever the daemons do with sendguard meanwhile.
LeaverEnds == \A c \in Conns : pc[c] = "leave" ~> pc[c] = "done"

\* The comment "will wake up RX thread" in psc_send and psc_send_one: closing a
\* connection's descriptor makes its handler end.
CloseWakesHandler ==
    \A c \in Conns : (c \in Serving /\ conn[c] = "closed") ~> pc[c] = "done"

=============================================================================
