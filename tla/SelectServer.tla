---------------------------- MODULE SelectServer -----------------------------
(***************************************************************************)
(* The select echo server, socket_test/tcp_select_server_v2.c: one thread, *)
(* an array of MAX_CONNECTIONS Clients and four descriptor sets.  Each     *)
(* turn of the loop calls select on copies of the master sets, accepts at  *)
(* most one connection, then goes through the array, while the peers go    *)
(* on.                                                                     *)
(*                                                                         *)
(* Descriptors are numbers, for max_fd orders them, and accept returns the *)
(* lowest that is free, so a number comes back as soon as it is closed.  A *)
(* peer's bytes are modelled from the accept on: what it sends before is   *)
(* only read after.                                                        *)
(***************************************************************************)
EXTENDS EchoBuffers

CONSTANTS
    MAX_CONNECTIONS,
    MaxFd,      \* bound: the highest descriptor the process may get
    MaxPeers,   \* bound: peers that connect
    MaxSent     \* bound: descriptor -> the bytes that a peer there sends

ASSUME SelectAssumption ==
    /\ MAX_CONNECTIONS \in Nat \ {0}
    /\ MaxFd \in Nat \ {0} /\ MaxPeers \in Nat
    /\ MaxSent \in [1..MaxFd -> 0..MaxBytes]

Slots     == 0..(MAX_CONNECTIONS - 1)
server_fd == 0
Fds       == 1..MaxFd

VARIABLES
    client,        \* the array; client_fd is -1 in a slot that is free
    master_read, master_write, readfds, writefds,   \* the sets
    max_fd,
    pc,            \* select, accept, clients, or returned
    i,             \* the slot the loop is at
    received,      \* slot i had its recv in this turn
    peers,         \* peers that connected so far
    backlog,       \* connections that wait for accept
    sock, newlines,   \* descriptor -> its socket, and which bytes are '\n'
    overflowed     \* history: descriptors for which a buffer was too small

setVars  == <<master_read, master_write, readfds, writefds, max_fd>>
loopVars == <<pc, i, received>>
peerVars == <<peers, backlog, sock, newlines, overflowed>>
vars == <<client, setVars, loopVars, peerVars>>

NoClient == [client_fd |-> -1, recv_message |-> <<>>, send_buf |-> <<>>, send_offset |-> 0]

Used   == {s \in Slots : client[s].client_fd # -1}
Fd(s)  == client[s].client_fd
Opened == {Fd(s) : s \in Used}

Init ==
    /\ client = [s \in Slots |-> NoClient]
    /\ master_read = {server_fd} /\ master_write = {}
    /\ readfds = {server_fd} /\ writefds = {}
    /\ max_fd = server_fd
    /\ pc = "select" /\ i = 0 /\ received = FALSE
    /\ peers = 0 /\ backlog = 0
    /\ sock = [f \in Fds |-> NewSock]
    /\ newlines = [f \in Fds |-> {}]
    /\ overflowed = {}

-----------------------------------------------------------------------------
(* The peers.                                                              *)

Connect ==
    /\ peers < MaxPeers
    /\ peers' = peers + 1 /\ backlog' = backlog + 1
    /\ UNCHANGED <<client, setVars, loopVars, sock, newlines, overflowed>>

Peer(f, s) ==
    /\ f \in Opened
    /\ sock' = [sock EXCEPT ![f] = s]
    /\ UNCHANGED <<client, setVars, loopVars, peers, backlog, newlines, overflowed>>

Send(f, n) ==
    CanSend(sock[f]) /\ sock[f].sent + n <= MaxSent[f] /\ Peer(f, PeerSend(sock[f], n))

Fin(f) == CanSend(sock[f]) /\ Peer(f, PeerFin(sock[f]))

Reset(f) == ~sock[f].rst /\ Peer(f, PeerReset(sock[f]))

Read(f) == sock[f].outq # <<>> /\ Peer(f, PeerRead(sock[f], Len(sock[f].outq)))

-----------------------------------------------------------------------------
(* select and accept.                                                      *)

ReadReady(f)  == IF f = server_fd THEN backlog > 0 ELSE Readable(sock[f])

\* select looks at the descriptors up to max_fd; with nothing ready it blocks.
Select ==
    /\ pc = "select"
    /\ readfds' = {f \in readfds : f <= max_fd /\ ReadReady(f)}
    /\ writefds' = {f \in writefds : f <= max_fd /\ Writable(sock[f])}
    /\ readfds' \cup writefds' # {}
    /\ pc' = "accept"
    /\ UNCHANGED <<client, master_read, master_write, max_fd, i, received, peerVars>>

\* An error of select other than EINTR ends the program.
SelectFails ==
    /\ pc = "select"
    /\ pc' = "returned"
    /\ client' = [s \in Slots |-> NoClient]
    /\ UNCHANGED <<setVars, i, received, peerVars>>

\* Mutated form of RaiseMaxFd: a new descriptor does not count.
RaiseMaxFd_Not(f) == max_fd' = max_fd

RaiseMaxFd(f) == max_fd' = Max({max_fd, f})

\* Mutated form of Watch: the new descriptor is added to the copy.
Watch_Copy(f) == readfds' = readfds \cup {f} /\ UNCHANGED master_read

Watch(f) == master_read' = master_read \cup {f} /\ UNCHANGED readfds

\* alloc_client takes the first free slot, and leaves its buffers as they are.
Admit ==
    /\ Slots \ Used # {}
    /\ LET s == Min(Slots \ Used)
           f == Min(Fds \ Opened)
       IN  /\ client' = [client EXCEPT ![s].client_fd = f]
           /\ Watch(f) /\ RaiseMaxFd(f)
           /\ sock' = [sock EXCEPT ![f] = NewSock]
           /\ \E nl \in SUBSET (1..MaxSent[f]) : newlines' = [newlines EXCEPT ![f] = nl]
           /\ overflowed' = overflowed \ {f}

\* No slot, or set_nonblock failed: the descriptor is closed at once.  So is a
\* connection that was gone before accept.
Refuse == UNCHANGED <<client, master_read, readfds, max_fd, sock, newlines, overflowed>>

Accept ==
    /\ pc = "accept" /\ server_fd \in readfds
    /\ Fds \ Opened # {}
    /\ backlog' = backlog - 1
    /\ Admit \/ Refuse
    /\ pc' = "clients"
    /\ UNCHANGED <<master_write, writefds, i, received, peers>>

\* Nothing to accept, or accept fails.
AcceptNone ==
    /\ pc = "accept"
    /\ pc' = "clients"
    /\ UNCHANGED <<client, setVars, i, received, peerVars>>

-----------------------------------------------------------------------------
(* The loop over the array.                                                *)

\* The next slot; after the last one, the copies are made for the next select.
Advance(masterRead, masterWrite) ==
    /\ received' = FALSE
    /\ IF i + 1 = MAX_CONNECTIONS
       THEN i' = 0 /\ pc' = "select" /\ readfds' = masterRead /\ writefds' = masterWrite
       ELSE i' = i + 1 /\ UNCHANGED <<pc, readfds, writefds>>

Skip ==
    /\ pc = "clients"
    /\ i \notin Used \/ Fd(i) \notin readfds \cup writefds
    /\ Advance(master_read, master_write)
    /\ UNCHANGED <<client, master_read, master_write, max_fd, peerVars>>

\* Mutated form of Freed: the received bytes stay in the slot.
Freed_KeepsMessage(k) == [NoClient EXCEPT !.recv_message = k.recv_message]

\* The slot after its connection is closed.
Freed(k) == NoClient

CloseSlot ==
    /\ client' = [client EXCEPT ![i] = Freed(@)]
    /\ master_read' = master_read \ {Fd(i)}
    /\ master_write' = master_write \ {Fd(i)}
    /\ Advance(master_read', master_write')

\* handle_recv: the end of the stream is an error like any other.
AfterReceiving(k, r, nl) == Received(k, r, nl, -1)

\* The recv of slot i.  On an error the connection is closed at once, and output
\* that is still there is not sent.
HandleRecv ==
    /\ pc = "clients" /\ i \in Used /\ Fd(i) \in readfds /\ ~received
    /\ \E r \in Recv(sock[Fd(i)], RecvBuf) :
         LET f == Fd(i)
             h == AfterReceiving(client[i], r, newlines[f])
         IN  /\ sock' = [sock EXCEPT ![f] = AfterRecv(@, r)]
             /\ overflowed' = IF h.full THEN overflowed \cup {f} ELSE overflowed
             /\ IF h.ret = -1
                THEN CloseSlot
                ELSE /\ client' = [client EXCEPT ![i] = h.client]
                     /\ master_write' = IF Unsent(h.client) # <<>>
                                        THEN master_write \cup {f} ELSE master_write
                     /\ UNCHANGED master_read
                     /\ IF f \in writefds
                        THEN received' = TRUE /\ UNCHANGED <<pc, i, readfds, writefds>>
                        ELSE Advance(master_read, master_write')
    /\ UNCHANGED <<max_fd, peers, backlog, newlines>>

\* Mutated form of Unwatch: a drained connection stays in master_write.
Unwatch_Not(f) == UNCHANGED master_write

Unwatch(f) == master_write' = master_write \ {f}

\* handle_send: an error closes, EAGAIN changes nothing, and what is out is out.
HandleSend ==
    /\ pc = "clients" /\ i \in Used /\ Fd(i) \in writefds
    /\ received \/ Fd(i) \notin readfds
    /\ LET f == Fd(i)
           n == SendCount(sock[f], Unsent(client[i]))
       IN  IF sock[f].rst
           THEN CloseSlot /\ UNCHANGED sock
           ELSE /\ client' = [client EXCEPT ![i] = AfterSending(@, n)]
                /\ sock' = [sock EXCEPT ![f] = AfterSend(@, Unsent(client[i]))]
                /\ IF n = Len(Unsent(client[i])) THEN Unwatch(f) ELSE UNCHANGED master_write
                /\ UNCHANGED master_read
                /\ Advance(master_read, master_write')
    /\ UNCHANGED <<max_fd, peers, backlog, newlines, overflowed>>

-----------------------------------------------------------------------------
(* The specification                                                       *)

Server == Select \/ Accept \/ AcceptNone \/ Skip \/ HandleRecv \/ HandleSend

Next ==
    \/ Connect
    \/ \E f \in Fds : Fin(f) \/ Reset(f) \/ Read(f)
    \/ \E f \in Fds, n \in 1..MaxBytes : Send(f, n)
    \/ Server \/ SelectFails

Spec == Init /\ [][Next]_vars

\* The server's thread runs, and peers read what they are sent.
FairSpec == Spec /\ WF_vars(Server) /\ \A f \in Fds : WF_vars(Read(f))

-----------------------------------------------------------------------------
(* Properties                                                              *)

TypeOK ==
    /\ \A s \in Slots : BufferType(client[s]) /\ Fd(s) \in Fds \cup {-1}
    /\ \A f \in Fds : SockType(sock[f])
    /\ {master_read, readfds} \subseteq SUBSET (Fds \cup {server_fd})
    /\ {master_write, writefds} \subseteq SUBSET Fds
    /\ max_fd \in Fds \cup {server_fd}
    /\ pc \in {"select", "accept", "clients", "returned"}
    /\ i \in Slots /\ received \in BOOLEAN
    /\ peers \in 0..MaxPeers /\ backlog \in 0..peers
    /\ newlines \in [Fds -> SUBSET (1..MaxBytes)] /\ overflowed \subseteq Fds

\* The array and the master sets agree: slots have descriptors of their own,
\* each is watched for reading, and for writing exactly while it has output,
\* and max_fd, which is never lowered, bounds them all (lines 45-53, 206-217,
\* 229-241 and 246-262).
SetsMatch ==
    pc # "returned" =>
        /\ \A s, t \in Used : Fd(s) = Fd(t) => s = t
        /\ master_read = Opened \cup {server_fd}
        /\ master_write = {Fd(s) : s \in {t \in Used : Unsent(client[t]) # <<>>}}
        /\ \A f \in master_read : f <= max_fd

\* The sets that select filled stay true of the slots not yet handled in this
\* turn, whatever was closed and accepted since: no recv or send is made for a
\* connection that took over a number (lines 192-263).
StillReady ==
    pc \in {"accept", "clients"} =>
        \A s \in Used : s >= i =>
            /\ Fd(s) \in readfds /\ ~(received /\ s = i) => Readable(sock[Fd(s)])
            /\ Fd(s) \in writefds => Unsent(client[s]) # <<>>

\* The buffers and indices stay in their bounds, the array, the sets and the bound
\* of the loop agree, and no call waits or fails because a number came back
\* (lines 45-125 and 192-263).
Inv == TypeOK /\ SetsMatch /\ StillReady

\* While no buffer was too small, each byte of a stream is in one place, in
\* order; a slot that is used again has nothing of the connection before
\* (lines 60-107, 121-126 and 238-241: alloc_client does not clear the slot).
Conserved ==
    \A s \in Used : Fd(s) \notin overflowed /\ ~sock[Fd(s)].rst =>
        Trail(client[s], sock[Fd(s)]) = [b \in 1..sock[Fd(s)].sent |-> b]

\* A connection that is closed without an error and with buffers large enough
\* has ended its stream, all of it was received, and all its complete lines
\* were taken for the echo: what can be lost is the output alone (lines 67-69,
\* 78-107 and 227-244).
ClosedAtTheEnd ==
    [][pc # "select" =>
        \A s \in Used : client'[s].client_fd = -1 =>
            LET f == Fd(s) IN
            \/ sock[f].rst \/ f \in overflowed'
            \/ /\ sock[f].fin /\ sock[f].inq = <<>>
               /\ LineEnds(client[s].recv_message, newlines[f]) = {}]_vars

\* What a connection has sent is received, or the connection is closed.
EventuallyRead ==
    \A f \in Fds : (f \in Opened /\ sock[f].inq # <<>>)
                     ~> (f \notin Opened \/ sock[f].inq = <<>>)

\* stress_test_client.c:482: one response for each request.  A connection that
\* is closed without an error and with buffers large enough was sent its echo.
ClosedAfterEcho ==
    [][pc # "select" =>
        \A s \in Used : client'[s].client_fd = -1 =>
            \/ sock[Fd(s)].rst \/ Fd(s) \in overflowed'
            \/ Unsent(client[s]) = <<>>]_vars
==============================================================================
