----------------------------- MODULE PollServer ------------------------------
(***************************************************************************)
(* The poll echo server, socket_test/tcp_poll_server_v1.c: one thread, the *)
(* array fds of what poll watches and, one index lower, the array client.  *)
(* Each turn of the loop polls the first active_conns entries, then scans  *)
(* them, while the peers go on.                                            *)
(*                                                                         *)
(* main removes a connection when handle_recv returns 0, which is its      *)
(* result for data too, and there it drops the new value of active_conns   *)
(* that remove_conn returns: entries of closed descriptors stay, and       *)
(* accept, which returns the lowest number that is free, makes them        *)
(* entries of another connection.  So that a byte can be traced across     *)
(* connections, the bytes of all peers are numbered in the order sent.     *)
(***************************************************************************)
EXTENDS EchoBuffers

CONSTANTS
    MAX_CONNECTIONS,
    MaxPeers    \* bound: peers that connect

\* No code checks active_conns against the size of the arrays (lines 208-211):
\* what follows their end is not modelled, so the peers must be fewer.
ASSUME PollAssumption ==
    MAX_CONNECTIONS \in Nat /\ MaxPeers \in Nat /\ MaxPeers < MAX_CONNECTIONS

server_fd == 0
Fds       == 1..MaxPeers

VARIABLES
    fds, client, active_conns,
    open,          \* descriptors of connections that are open
    pc,            \* poll or scan
    i,             \* the entry the scan is at
    received,      \* entry i had its POLLIN handled
    peers, backlog,   \* peers that connected, and those not yet accepted
    sock,          \* descriptor -> its socket
    sent,          \* bytes sent by all peers
    newlines,      \* which of the bytes are '\n'
    own,           \* history: descriptor -> the bytes its present peer sent
    overflowed     \* history: descriptors for which a buffer was too small

arrays   == <<fds, client, active_conns>>
loopVars == <<pc, i, received>>
peerVars == <<peers, backlog, sent, newlines, own>>
vars == <<arrays, open, loopVars, peerVars, sock, overflowed>>

Entry(fd, events, revents) == [fd |-> fd, events |-> events, revents |-> revents]

\* revents of an entry that poll never wrote: _init_pollfd leaves it unset.
Unset == {"unset"}
NoEntry  == Entry(-1, {}, Unset)
NoClient == [client_fd |-> -1, recv_message |-> <<>>, send_buf |-> <<>>, send_offset |-> 0]

Init ==
    /\ fds = [k \in 0..MAX_CONNECTIONS |->
                 IF k = 0 THEN Entry(server_fd, {"in"}, Unset) ELSE NoEntry]
    /\ client = [k \in 0..(MAX_CONNECTIONS - 1) |-> NoClient]
    /\ active_conns = 1
    /\ open = {} /\ pc = "poll" /\ i = 0 /\ received = FALSE
    /\ peers = 0 /\ backlog = 0 /\ sent = 0
    /\ newlines \in SUBSET (1..MaxBytes)
    /\ sock = [f \in Fds |-> NewSock] /\ own = [f \in Fds |-> {}]
    /\ overflowed = {}

-----------------------------------------------------------------------------
(* The peers.                                                              *)

Connect ==
    /\ peers < MaxPeers
    /\ peers' = peers + 1 /\ backlog' = backlog + 1
    /\ UNCHANGED <<arrays, open, loopVars, sock, sent, newlines, own, overflowed>>

Send(f, n) ==
    /\ f \in open /\ CanSend(sock[f]) /\ sent + n <= MaxBytes
    /\ sock' = [sock EXCEPT ![f] = PeerSend([@ EXCEPT !.sent = sent], n)]
    /\ sent' = sent + n
    /\ own' = [own EXCEPT ![f] = @ \cup (sent + 1)..(sent + n)]
    /\ UNCHANGED <<arrays, open, loopVars, peers, backlog, newlines, overflowed>>

Peer(f, s) ==
    /\ f \in open
    /\ sock' = [sock EXCEPT ![f] = s]
    /\ UNCHANGED <<arrays, open, loopVars, peerVars, overflowed>>

Fin(f)   == CanSend(sock[f]) /\ Peer(f, PeerFin(sock[f]))
Reset(f) == ~sock[f].rst /\ Peer(f, PeerReset(sock[f]))
Read(f)  == sock[f].outq # <<>> /\ Peer(f, PeerRead(sock[f], Len(sock[f].outq)))

-----------------------------------------------------------------------------
(* poll and accept.                                                        *)

\* What poll reports for an entry: POLLNVAL for a descriptor that is closed.
Revents(e) ==
    CASE e.fd = -1        -> {}
      [] e.fd = server_fd -> {x \in {"in"} : backlog > 0}
      [] e.fd \in Fds \ open -> {"nval"}
      [] e.fd \in open    ->
            {x \in e.events : \/ x = "in"  /\ Readable(sock[e.fd])
                              \/ x = "out" /\ Writable(sock[e.fd])}
            \cup {x \in {"hup"} : sock[e.fd].rst}

Active == 0..(active_conns - 1)

\* poll blocks while it has nothing to report; an error only calls it again.
Poll ==
    /\ pc = "poll"
    /\ \E k \in Active : Revents(fds[k]) # {}
    /\ fds' = [k \in DOMAIN fds |->
                 IF k \in Active THEN [fds[k] EXCEPT !.revents = Revents(fds[k])] ELSE fds[k]]
    /\ pc' = "scan" /\ i' = 0 /\ received' = FALSE
    /\ UNCHANGED <<client, active_conns, open, peerVars, sock, overflowed>>

\* Mutated form of ScanAt: the scan ends before the last entry.
ScanAt_SkipsLast(k, n) ==
    /\ received' = FALSE
    /\ IF k < n - 1 THEN i' = k /\ pc' = "scan" ELSE i' = 0 /\ pc' = "poll"

\* The scan goes on at entry k, or ends behind the last of n entries.
ScanAt(k, n) ==
    /\ received' = FALSE
    /\ IF k < n THEN i' = k /\ pc' = "scan" ELSE i' = 0 /\ pc' = "poll"

\* A new entry keeps the revents that the memory held: what it was before, or
\* what poll once wrote there; the scan of this turn reads it.
Accept ==
    /\ pc = "scan" /\ fds[i].fd = server_fd /\ "in" \in fds[i].revents
    /\ LET f   == Min(Fds \ open)
           old == fds[active_conns].revents
       IN  /\ \E x \in IF old = Unset THEN SUBSET {"in", "out", "hup"} ELSE {old} :
                fds' = [fds EXCEPT ![active_conns] = Entry(f, {"in"}, x)]
           /\ client' = [client EXCEPT ![active_conns - 1].client_fd = f]
           /\ open' = open \cup {f}
           /\ sock' = [sock EXCEPT ![f] = NewSock] /\ own' = [own EXCEPT ![f] = {}]
           /\ overflowed' = overflowed \ {f}
    /\ active_conns' = active_conns + 1
    /\ backlog' = backlog - 1
    /\ ScanAt(i + 1, active_conns + 1)
    /\ UNCHANGED <<peers, sent, newlines>>

AcceptFails ==
    /\ pc = "scan" /\ fds[i].fd = server_fd /\ "in" \in fds[i].revents
    /\ ScanAt(i + 1, active_conns)
    /\ UNCHANGED <<arrays, open, peerVars, sock, overflowed>>

-----------------------------------------------------------------------------
(* remove_conn: the last entry takes the place of entry i, and what is     *)
(* cleared is the entry behind the last.                                   *)

\* Mutated form of MovedClients: the clients stay where they are.
MovedClients_Not(c) == c

MovedClients(c) ==
    IF i = active_conns - 1 THEN c ELSE [c EXCEPT ![i - 1] = c[active_conns - 2]]

\* Mutated form of Closed: a connection is only taken out of the array.
Closed_Not(f) == open

Closed(f) == open \ {f}

\* With the arrays as f and c before the call.
RemoveConn(f, c) ==
    /\ open' = Closed(f[i].fd)
    /\ fds' = [f EXCEPT ![i] = f[active_conns - 1],
                        ![active_conns].fd = -1, ![active_conns].events = {}]
    /\ client' = [MovedClients(c) EXCEPT ![active_conns - 1] = NoClient]

\* Mutated form of Remaining: the entry of the listening socket is not counted.
Remaining_OffByOne == active_conns - 2

\* What it returns.
Remaining == active_conns - 1

-----------------------------------------------------------------------------
(* The scan of the entries of connections.                                 *)

AtConnection == pc = "scan" /\ i \in 1..(active_conns - 1)

Skip ==
    /\ pc = "scan"
    /\ ~received /\ fds[i].revents \cap {"in", "out", "hup"} = {}
    /\ ScanAt(i + 1, active_conns)
    /\ UNCHANGED <<arrays, open, peerVars, sock, overflowed>>

\* recv; EAGAIN is an error like any other, and so is a closed descriptor.
RecvResults(f) ==
    {IF r.ret = "again" THEN [r EXCEPT !.ret = "error"] ELSE r :
        r \in IF f \in open THEN Recv(sock[f], RecvBuf)
                            ELSE {[ret |-> "error", bytes |-> <<>>]}}

WantOut(e) == [e EXCEPT !.events = @ \cup {"out"}]

\* Mutated form of AfterResult: a receive that went well keeps the connection.
AfterResult_Keep(ret, f, c) ==
    /\ fds' = f /\ client' = c /\ received' = TRUE
    /\ UNCHANGED <<open, pc, i>>

\* The result 0, for data and for the end of the stream alike, removes the
\* connection but does not lower active_conns, and the scan stays at i; the
\* result -1 is ignored.
AfterResult(ret, f, c) ==
    IF ret = 0
    THEN RemoveConn(f, c) /\ ScanAt(i, active_conns)
    ELSE AfterResult_Keep(ret, f, c)

\* handle_recv asks for POLLOUT when data left something to send.
HandleRecv ==
    /\ AtConnection /\ ~received /\ "in" \in fds[i].revents
    /\ LET f == client[i - 1].client_fd IN
       \E r \in RecvResults(f) :
         LET h    == Received(client[i - 1], r, newlines, 0)
             asks == r.ret = "data" /\ h.ret = 0 /\ Unsent(h.client) # <<>>
         IN  /\ sock' = IF f \in open THEN [sock EXCEPT ![f] = AfterRecv(@, r)] ELSE sock
             /\ overflowed' = IF h.full THEN overflowed \cup {f} ELSE overflowed
             /\ AfterResult(h.ret,
                            IF asks THEN [fds EXCEPT ![i] = WantOut(@)] ELSE fds,
                            [client EXCEPT ![i - 1] = h.client])
    /\ UNCHANGED <<active_conns, peerVars>>

\* handle_send, whose errors are ignored, and the hang-up, for which main does
\* take the new active_conns.
HandleRest ==
    /\ AtConnection
    /\ received \/ "in" \notin fds[i].revents
    /\ fds[i].revents \cap {"out", "hup"} # {} \/ received
    /\ LET k     == client[i - 1]
           sends == /\ "out" \in fds[i].revents /\ Unsent(k) # <<>>
                    /\ k.client_fd \in open /\ ~sock[k.client_fd].rst
           n     == SendCount(sock[k.client_fd], Unsent(k))
           c     == IF sends THEN [client EXCEPT ![i - 1] = AfterSending(k, n)] ELSE client
           f     == IF sends /\ n = Len(Unsent(k))
                    THEN [fds EXCEPT ![i].events = @ \ {"out"}] ELSE fds
       IN  /\ sock' = IF sends THEN [sock EXCEPT ![k.client_fd] = AfterSend(@, Unsent(k))]
                               ELSE sock
           /\ IF "hup" \in fds[i].revents
              THEN /\ RemoveConn(f, c)
                   /\ active_conns' = Remaining
                   /\ ScanAt(i, Remaining)
              ELSE /\ fds' = f /\ client' = c
                   /\ ScanAt(i + 1, active_conns)
                   /\ UNCHANGED <<open, active_conns>>
    /\ UNCHANGED <<peerVars, overflowed>>

-----------------------------------------------------------------------------
(* The specification                                                       *)

Server == Poll \/ Accept \/ AcceptFails \/ Skip \/ HandleRecv \/ HandleRest

Next ==
    \/ Connect
    \/ \E f \in Fds : Fin(f) \/ Reset(f) \/ Read(f)
    \/ \E f \in Fds, n \in 1..MaxBytes : Send(f, n)
    \/ Server

Spec == Init /\ [][Next]_vars

\* The server's thread runs; nothing is assumed of the peers.
FairSpec == Spec /\ WF_vars(Server)

-----------------------------------------------------------------------------
(* Properties                                                              *)

TypeOK ==
    /\ active_conns \in 1..MAX_CONNECTIONS
    /\ \A k \in DOMAIN fds :
         /\ fds[k].fd \in {-1, server_fd} \cup Fds
         /\ fds[k].events \subseteq {"in", "out"}
         /\ fds[k].revents \subseteq {"in", "out", "hup", "nval"} \/ fds[k].revents = Unset
    /\ \A k \in DOMAIN client :
         BufferType(client[k]) /\ client[k].client_fd \in {-1} \cup Fds
    /\ open \subseteq Fds /\ pc \in {"poll", "scan"} /\ i \in Active /\ received \in BOOLEAN
    /\ peers \in 0..MaxPeers /\ backlog \in 0..peers /\ sent \in 0..MaxBytes
    /\ \A f \in Fds : SockType(sock[f])

\* Whatever was removed and moved, the two arrays still belong together, and
\* every open connection has an entry that poll looks at (lines 144-160 and
\* 208-231).
Watched ==
    /\ \A k \in Active \ {0} : client[k - 1].client_fd = fds[k].fd
    /\ \A f \in open : \E k \in Active : fds[k].fd = f

\* Indices stay in the arrays, and the arrays belong together (lines 144-160).
Inv == TypeOK /\ Watched

\* No connection is answered: one that gets a byte of its own back had its
\* requests cut at a full buffer, and its entry was another's before (line 217).
NotAnswered ==
    \A f \in open \ overflowed :
        \A b \in own[f] : \A n \in 1..Len(sock[f].got \o sock[f].outq) :
            (sock[f].got \o sock[f].outq)[n] # b

\* A scan that stays at its entry after a removal still ends, and what a connection
\* has sent is received or the connection closed, although entries are moved while
\* they are scanned (lines 144-160 and 213-231).
EventuallyRead ==
    /\ []<>(pc = "poll")
    /\ \A f \in Fds : (f \in open /\ sock[f].inq # <<>>)
                        ~> (f \notin open \/ sock[f].inq = <<>>)

\* stress_test_client.c:450: the echo is what the client sent.  What a peer is
\* sent are bytes that it sent itself.
OnlyOwnEcho ==
    \A f \in open : \A n \in 1..Len(sock[f].got \o sock[f].outq) :
        (sock[f].got \o sock[f].outq)[n] \in own[f]
==============================================================================
