----------------------------- MODULE EpollServer -----------------------------
(***************************************************************************)
(* The epoll echo servers, socket_test/tcp_epoll_server_v2.c and, with     *)
(* Version = 1, tcp_epoll_server_v1.c: one thread, level-triggered events, *)
(* and for each connection a Client with a buffer each way.                *)
(*                                                                         *)
(* epoll_wait takes a snapshot of what is ready; the events of the batch   *)
(* are handled one after the other while the peers go on.  An event is     *)
(* [who, in, rdhup, out]; who = Listener is the listening socket, whose    *)
(* data.ptr is NULL.  A Client is the record of its recv_message (its      *)
(* first `used` bytes), its send_buf (its first send_len bytes),           *)
(* send_offset and should_close.                                           *)
(***************************************************************************)
EXTENDS EchoBuffers

CONSTANTS
    Clients,          \* connections, each made at most once
    Listener,         \* the listening socket, among events
    Nobody,           \* no event is half handled
    MAX_CONNECTIONS,
    MaxEvents,        \* MAX_EVENTS + 1, the size of evs
    Version           \* 1 or 2

ASSUME EpollAssumption ==
    /\ IsFiniteSet(Clients)
    /\ Listener \notin Clients /\ Nobody \notin Clients \cup {Listener}
    /\ MAX_CONNECTIONS \in Nat /\ MaxEvents \in Nat \ {0}
    /\ MsgCap <= SendCap
    /\ Version \in {1, 2}

VARIABLES
    phase,       \* connection -> new, backlog, served, and how it was closed
    client,      \* connection -> its Client, while it is served
    writers,     \* connections registered with EPOLLOUT besides EPOLLIN
    conns,       \* main's counter
    batch,       \* the events of evs not handled yet
    current,     \* the connection between its recv and its send
    sock,        \* connection -> its socket
    newlines,    \* connection -> which bytes of its peer are '\n'
    overflowed   \* history: connections for which a buffer was too small

connVars == <<phase, conns>>
loopVars == <<batch, current>>
peerVars == <<sock, newlines>>
vars == <<phase, client, writers, conns, batch, current, sock, newlines, overflowed>>

Open   == {c \in Clients : phase[c] = "served"}
Closed == {"refused", "drained", "send_failed"}

\* _init_client
NewClient == [recv_message |-> <<>>, send_buf |-> <<>>, send_offset |-> 0,
              should_close |-> FALSE]

Init ==
    /\ phase = [c \in Clients |-> "new"]
    /\ client = [c \in Clients |-> NewClient]
    /\ writers = {} /\ conns = 0
    /\ batch = {} /\ current = Nobody
    /\ sock = [c \in Clients |-> NewSock]
    /\ newlines \in [Clients -> SUBSET (1..MaxBytes)]
    /\ overflowed = {}

-----------------------------------------------------------------------------
(* The peers.                                                              *)

Connect(c) ==
    /\ phase[c] = "new"
    /\ phase' = [phase EXCEPT ![c] = "backlog"]
    /\ UNCHANGED <<client, writers, conns, loopVars, peerVars, overflowed>>

Peer(c, s) ==
    /\ phase[c] \in {"backlog", "served"}
    /\ sock' = [sock EXCEPT ![c] = s]
    /\ UNCHANGED <<phase, client, writers, conns, loopVars, newlines, overflowed>>

Send(c, n) ==
    CanSend(sock[c]) /\ sock[c].sent + n <= MaxBytes /\ Peer(c, PeerSend(sock[c], n))

Fin(c) == CanSend(sock[c]) /\ Peer(c, PeerFin(sock[c]))

Reset(c) == ~sock[c].rst /\ Peer(c, PeerReset(sock[c]))

Read(c) == sock[c].outq # <<>> /\ Peer(c, PeerRead(sock[c], Len(sock[c].outq)))

-----------------------------------------------------------------------------
(* epoll_wait.                                                             *)

Event(c) == [who |-> c, in |-> Readable(sock[c]), rdhup |-> Rdhup(sock[c]),
             out |-> c \in writers /\ Writable(sock[c])]

Ready ==
    {e \in {Event(c) : c \in Open} : e.in \/ e.out}
      \cup (IF \E c \in Clients : phase[c] = "backlog"
            THEN {[who |-> Listener, in |-> TRUE, rdhup |-> FALSE, out |-> FALSE]}
            ELSE {})

EpollWait ==
    /\ batch = {}
    /\ Ready # {}
    /\ batch' \in {b \in SUBSET Ready :
                     Cardinality(b) = Least(MaxEvents, Cardinality(Ready))}
    /\ UNCHANGED <<phase, client, writers, conns, current, peerVars, overflowed>>

\* The next event of evs: any, but a connection's send follows its recv.
Handle(e) ==
    /\ e \in batch
    /\ current \in {Nobody, e.who}

-----------------------------------------------------------------------------
(* A new connection.                                                       *)

\* Every failure after the accept closes the new descriptor: set_nonblock,
\* the limit, malloc, epoll_ctl; conns is as before.
Refuse(c) ==
    /\ phase' = [phase EXCEPT ![c] = "refused"]
    /\ UNCHANGED <<client, conns>>

Admit(c) ==
    /\ conns + 1 <= MAX_CONNECTIONS
    /\ conns' = conns + 1
    /\ phase' = [phase EXCEPT ![c] = "served"]
    /\ client' = [client EXCEPT ![c] = NewClient]

\* accept takes a connection of the backlog, or fails and leaves it there.
Accept(e) ==
    /\ Handle(e) /\ e.who = Listener
    /\ batch' = batch \ {e}
    /\ \/ \E c \in Clients : phase[c] = "backlog" /\ (Refuse(c) \/ Admit(c))
       \/ UNCHANGED <<connVars, client>>
    /\ UNCHANGED <<writers, current, peerVars, overflowed>>

-----------------------------------------------------------------------------
(* handle_recv.                                                            *)

\* The result of the end of the stream, in the two versions.
EofRet_v1 == -1
EofRet_v2 == 1

EofRet == IF Version = 1 THEN EofRet_v1 ELSE EofRet_v2

\* When main sets should_close after handle_recv.
MustClose_v1(e, ret) == ret = -1 \/ e.rdhup
\* Mutated form of MustClose_v2: the end of the peer's stream is enough.
MustClose_AnyRdhup(e, ret) == ret = -1 \/ e.rdhup

MustClose_v2(e, ret) == ret = -1 \/ (e.rdhup /\ ret # 0)
MustClose(e, ret) == IF Version = 1 THEN MustClose_v1(e, ret) ELSE MustClose_v2(e, ret)

\* Mutated form of Mark: a connection to be closed is closed at once.
Mark_CloseAtOnce(e, h) ==
    /\ client' = [client EXCEPT ![e.who] = h.client]
    /\ IF MustClose(e, h.ret)
       THEN phase' = [phase EXCEPT ![e.who] = "drained"] /\ conns' = conns - 1
       ELSE UNCHANGED connVars

Mark(e, h) ==
    /\ client' = [client EXCEPT ![e.who] =
                    [h.client EXCEPT !.should_close = @ \/ MustClose(e, h.ret)]]
    /\ UNCHANGED connVars

\* The first half of a connection's event: EPOLLIN.
HandleRecv(e) ==
    /\ Handle(e) /\ e.who \in Clients /\ e.in
    /\ \E r \in Recv(sock[e.who], RecvBuf) :
         LET c == e.who
             h == Received(client[c], r, newlines[c], EofRet)
         IN  /\ Mark(e, h)
             /\ writers' = IF r.ret = "data" /\ h.ret = 0 /\ Unsent(h.client) # <<>>
                            THEN writers \cup {c} ELSE writers
             /\ overflowed' = IF h.full THEN overflowed \cup {c} ELSE overflowed
             /\ sock' = [sock EXCEPT ![c] = AfterRecv(@, r)]
    /\ IF e.out
       THEN /\ batch' = (batch \ {e}) \cup {[e EXCEPT !.in = FALSE]}
            /\ current' = e.who
       ELSE batch' = batch \ {e} /\ current' = Nobody
    /\ UNCHANGED newlines

-----------------------------------------------------------------------------
(* handle_send.                                                            *)

\* Nothing to send, or EAGAIN.
SendNothing(c) ==
    /\ Unsent(client[c]) = <<>> \/ (~sock[c].rst /\ Room(sock[c]) = 0)
    /\ UNCHANGED <<connVars, client, writers, sock>>

\* Mutated form of Disarm: EPOLLOUT stays registered.
Disarm_Not(c) == UNCHANGED writers

Disarm(c) == writers' = writers \ {c}

\* Mutated form of CloseIfAsked: conns is not lowered with the close.
CloseIfAsked_KeepsCount(c) ==
    /\ phase' = [phase EXCEPT ![c] = IF client[c].should_close THEN "drained" ELSE @]
    /\ UNCHANGED conns

\* Mutated form of CloseIfAsked: the close that was put off is forgotten.
CloseIfAsked_Never(c) == UNCHANGED connVars

\* What main does after handle_send returned 1.
CloseIfAsked(c) ==
    IF client[c].should_close
    THEN phase' = [phase EXCEPT ![c] = "drained"] /\ conns' = conns - 1
    ELSE UNCHANGED connVars

\* send takes what there is room for.  When everything is out: back to EPOLLIN
\* alone, and the close that was put off.
SendSome(c) ==
    LET n == SendCount(sock[c], Unsent(client[c]))
    IN  /\ ~sock[c].rst /\ n > 0
        /\ sock' = [sock EXCEPT ![c] = AfterSend(@, Unsent(client[c]))]
        /\ client' = [client EXCEPT ![c] = AfterSending(@, n)]
        /\ IF n = Len(Unsent(client[c])) THEN Disarm(c) /\ CloseIfAsked(c)
                                         ELSE UNCHANGED <<connVars, writers>>

\* Mutated form of SendFails: an error is taken for EAGAIN.
SendFails_Ignored(c) ==
    /\ Unsent(client[c]) # <<>>
    /\ sock[c].rst
    /\ UNCHANGED <<connVars, writers, client, sock>>

\* The error of a reset: the connection is closed, and conns is not lowered.
SendFails(c) ==
    /\ Unsent(client[c]) # <<>>
    /\ sock[c].rst
    /\ phase' = [phase EXCEPT ![c] = "send_failed"]
    /\ writers' = writers \ {c}
    /\ UNCHANGED <<client, conns, sock>>

HandleSend(e) ==
    /\ Handle(e) /\ e.who \in Clients /\ ~e.in /\ e.out
    /\ SendNothing(e.who) \/ SendSome(e.who) \/ SendFails(e.who)
    /\ batch' = batch \ {e} /\ current' = Nobody
    /\ UNCHANGED <<newlines, overflowed>>

-----------------------------------------------------------------------------
(* The specification                                                       *)

Server == EpollWait \/ \E e \in batch : Accept(e) \/ HandleRecv(e) \/ HandleSend(e)

Next ==
    \/ \E c \in Clients : Connect(c) \/ Fin(c) \/ Reset(c) \/ Read(c)
    \/ \E c \in Clients, n \in 1..MaxBytes : Send(c, n)
    \/ Server

Spec == Init /\ [][Next]_vars

\* The server's thread runs, and peers read what they are sent.
FairSpec == Spec /\ WF_vars(Server) /\ \A c \in Clients : WF_vars(Read(c))

-----------------------------------------------------------------------------
(* Properties                                                              *)

TypeOK ==
    /\ phase \in [Clients -> {"new", "backlog", "served"} \cup Closed]
    /\ \A c \in Clients :
         /\ SockType(sock[c])
         /\ BufferType(client[c])
         /\ client[c].should_close \in BOOLEAN
    /\ writers \subseteq Clients /\ overflowed \subseteq Clients
    /\ conns \in 0..MAX_CONNECTIONS
    /\ batch \subseteq [who : Clients \cup {Listener}, in : BOOLEAN,
                        rdhup : BOOLEAN, out : BOOLEAN]
    /\ current \in Clients \cup {Nobody}
    /\ newlines \in [Clients -> SUBSET (1..MaxBytes)]

\* EPOLLOUT is asked for exactly while there is output: no output waits for an
\* event that cannot come, and no connection wakes the server for nothing
\* (lines 82-85, 100-103 and 120-124: the early return for a full send_buf
\* passes over the registration, the drain takes it back).
WriteInterest == \A c \in Open : c \in writers <=> Unsent(client[c]) # <<>>

\* Both buffers stay in their bounds, and EPOLLOUT is asked for when it should be
\* (lines 53-125).
Inv == TypeOK /\ WriteInterest

\* conns counts the connections that are served and, since main does not lower
\* it when handle_send fails, for ever those that were closed there (lines
\* 205-210, 216, 227, 251-255 and 258); so there are never more than
\* MAX_CONNECTIONS of both together.
ConnsAccounting ==
    /\ conns = Cardinality(Open)
               + Cardinality({c \in Clients : phase[c] = "send_failed"})
    /\ conns <= MAX_CONNECTIONS

\* No event left in evs points to a Client that was freed, and no Client has
\* two events in it (lines 235 and 252-262: data.ptr is used unchecked).
BatchLive ==
    \A e \in batch :
        /\ e.who \in Clients => phase[e.who] = "served"
        /\ \A f \in batch : e.who = f.who => e = f

\* While no buffer was too small, each byte of the stream is in one place, in
\* order: moving lines, partial sends and the reuse of send_buf lose, repeat
\* and reorder nothing (lines 53-99 and 112-125).
Conserved ==
    \A c \in Open \ overflowed :
        ~sock[c].rst => Trail(client[c], sock[c]) = [i \in 1..sock[c].sent |-> i]

\* A connection closed because its peer ended the stream has been sent all the
\* complete lines of that stream (v2, lines 243-245 and 256-263: the close
\* waits for the end of the stream and for the last byte of the echo).
EchoedBeforeClose ==
    \A c \in Clients \ overflowed :
        phase[c] = "drained" /\ ~sock[c].rst =>
            LET out == Len(sock[c].got) + Len(sock[c].outq) IN
            /\ sock[c].fin
            /\ sock[c].got \o sock[c].outq = [i \in 1..out |-> i]
            /\ \A i \in 1..sock[c].sent : i \in newlines[c] => i <= out

\* main closes a connection only in the EPOLLOUT branch: one that has nothing
\* to send stays open, with its Client and its count, whatever its peer does
\* (lines 236-265).
ClosedOnlyWhileWriting ==
    [][\A c \in Open : c \notin writers => phase'[c] = "served"]_vars

\* As long as the peer reads, output is sent or its connection closed; and a close
\* that was put off because there was output comes in the end (lines 112-125 and
\* 248-263: should_close is looked at after the last send only).
OutputLeaves ==
    \A c \in Clients :
        /\ (c \in writers) ~> (c \notin writers)
        /\ (c \in writers /\ client[c].should_close) ~> (phase[c] \in Closed)
==============================================================================
