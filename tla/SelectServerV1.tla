--------------------------- MODULE SelectServerV1 ----------------------------
(***************************************************************************)
(* The first select echo server, socket_test/tcp_select_server_v1.c.  Its  *)
(* array of Clients is indexed by the descriptor, its loop goes through    *)
(* the descriptor numbers, the listening one included, and its sockets     *)
(* block: a recv without data, or a send that the kernel cannot take as a  *)
(* whole, holds up every connection.                                       *)
(*                                                                         *)
(* accept returns the lowest number that is free; the listening socket has *)
(* the lowest of all, as it was opened first.                              *)
(***************************************************************************)
EXTENDS EchoBuffers

CONSTANTS
    MAX_CONNECTIONS,   \* at least 1
    MaxFd,      \* bound: the highest descriptor the process may get
    MaxPeers,   \* bound: peers that connect
    MaxSent     \* bound: descriptor in 1..MaxFd -> the bytes that a peer there sends

server_fd == 0
Fds       == 1..MaxFd

\* What the constants may be: the array has room for the listening socket's entry.
Sizes ==
    /\ MAX_CONNECTIONS \in Nat \ {0}
    /\ MaxFd \in Nat /\ MaxPeers \in Nat
    /\ MaxSent \in [Fds -> 0..MaxBytes]

VARIABLES
    client,        \* descriptor -> its Client; client_fd is -1 in one not used
    master_read, master_write, readfds, writefds,   \* the sets
    max_fds,
    pc,            \* select, scan, send (blocked in send), or returned
    i,             \* the descriptor the loop is at
    received,      \* it had its recv in this turn
    taken,         \* bytes that the kernel took in the present call of send
    peers, backlog,   \* peers that connected, and those not yet accepted
    sock, newlines,   \* descriptor -> its socket, and which bytes are '\n'
    overflowed     \* history: descriptors for which a buffer was too small

setVars  == <<master_read, master_write, readfds, writefds, max_fds>>
loopVars == <<pc, i, received, taken>>
peerVars == <<peers, backlog, sock, newlines, overflowed>>
vars == <<client, setVars, loopVars, peerVars>>

NoClient == [client_fd |-> -1, recv_message |-> <<>>, send_buf |-> <<>>, send_offset |-> 0]

Opened == {f \in DOMAIN client : client[f].client_fd # -1}

Init ==
    /\ client = [f \in 0..(MAX_CONNECTIONS - 1) |-> NoClient]
    /\ master_read = {server_fd} /\ master_write = {}
    /\ readfds = {server_fd} /\ writefds = {}
    /\ max_fds = server_fd
    /\ pc = "select" /\ i = 0 /\ received = FALSE /\ taken = 0
    /\ peers = 0 /\ backlog = 0
    /\ sock = [f \in Fds |-> NewSock]
    /\ newlines = [f \in Fds |-> {}]
    /\ overflowed = {}

-----------------------------------------------------------------------------
(* The peers.                                                              *)

Connect ==
    /\ peers < MaxPeers
    /\ peers' = peers + 1 /\ backlog' = backlog + 1
    /\ UNCHANGED <<client, setVars, loopVars, sock, newlines, overflowed>>

Peer(f, s) ==
    /\ f \in Opened
    /\ sock' = [sock EXCEPT ![f] = s]
    /\ UNCHANGED <<client, setVars, loopVars, peers, backlog, newlines, overflowed>>

Send(f, n) ==
    CanSend(sock[f]) /\ sock[f].sent + n <= MaxSent[f] /\ Peer(f, PeerSend(sock[f], n))

Fin(f)   == CanSend(sock[f]) /\ Peer(f, PeerFin(sock[f]))
Reset(f) == ~sock[f].rst /\ Peer(f, PeerReset(sock[f]))
Read(f)  == sock[f].outq # <<>> /\ Peer(f, PeerRead(sock[f], Len(sock[f].outq)))

-----------------------------------------------------------------------------
(* select, and the loop over the descriptors.                              *)

ReadReady(f) == IF f = server_fd THEN backlog > 0 ELSE Readable(sock[f])

\* With nothing ready select blocks; EINTR only calls it again.
Select ==
    /\ pc = "select"
    /\ readfds' = {f \in readfds : f <= max_fds /\ ReadReady(f)}
    /\ writefds' = {f \in writefds : f <= max_fds /\ Writable(sock[f])}
    /\ readfds' \cup writefds' # {}
    /\ pc' = "scan"
    /\ UNCHANGED <<client, master_read, master_write, max_fds, i, received, taken, peerVars>>

\* Any other error ends the program.
SelectFails ==
    /\ pc = "select"
    /\ pc' = "returned"
    /\ client' = [f \in DOMAIN client |-> NoClient]
    /\ UNCHANGED <<setVars, i, received, taken, peerVars>>

\* The next descriptor, or after the last one the copies for the next select;
\* the loop looks at the values of max_fds and the sets after this step.
Advance ==
    /\ received' = FALSE /\ taken' = 0
    /\ IF i = max_fds'
       THEN i' = 0 /\ pc' = "select" /\ readfds' = master_read' /\ writefds' = master_write'
       ELSE i' = i + 1 /\ pc' = "scan" /\ UNCHANGED <<readfds, writefds>>

Skip ==
    /\ pc = "scan" /\ i \notin readfds \cup writefds
    /\ UNCHANGED <<client, master_read, master_write, max_fds, peerVars>>
    /\ Advance

-----------------------------------------------------------------------------
(* accept.                                                                 *)

\* Mutated form of TooHigh: the first number behind the array is let in.
TooHigh_OffByOne(f) == f > MAX_CONNECTIONS

TooHigh(f) == f >= MAX_CONNECTIONS

\* Mutated form of RaiseMaxFds: a new descriptor does not count.
RaiseMaxFds_Not(f) == max_fds' = max_fds

RaiseMaxFds(f) == max_fds' = Max({max_fds, f})

\* The Client of a new connection: of its buffers only `used' is reset.
Accept ==
    /\ pc = "scan" /\ i = server_fd /\ server_fd \in readfds
    /\ Fds \ Opened # {}
    /\ backlog' = backlog - 1
    /\ LET f == Min(Fds \ Opened) IN
       IF TooHigh(f)
       THEN UNCHANGED <<client, master_read, max_fds, sock, newlines, overflowed>>
       ELSE /\ client' = [client EXCEPT ![f].client_fd = f, ![f].recv_message = <<>>]
            /\ master_read' = master_read \cup {f}
            /\ RaiseMaxFds(f)
            /\ sock' = [sock EXCEPT ![f] = NewSock]
            /\ \E nl \in SUBSET (1..MaxSent[f]) : newlines' = [newlines EXCEPT ![f] = nl]
            /\ overflowed' = overflowed \ {f}
    /\ UNCHANGED <<master_write, peers>>
    /\ Advance

\* accept fails, if only because the process has no number left.
AcceptFails ==
    /\ pc = "scan" /\ i = server_fd /\ server_fd \in readfds
    /\ UNCHANGED <<client, master_read, master_write, max_fds, peerVars>>
    /\ Advance

-----------------------------------------------------------------------------
(* A connection.                                                           *)

\* Mutated form of Freed: what was to be sent stays.
Freed_KeepsOutput(k) == [k EXCEPT !.client_fd = -1, !.recv_message = <<>>]

\* The Client after its connection is closed.
Freed(k) == NoClient

CloseClient ==
    /\ client' = [client EXCEPT ![i] = Freed(@)]
    /\ master_read' = master_read \ {i}
    /\ master_write' = master_write \ {i}

\* With a blocking socket recv does not return EAGAIN but waits.
RecvResults == {r \in Recv(sock[i], RecvBuf) : r.ret # "again"}

\* An error, and the end of the stream, close the connection, with output that
\* is still there; after a recv that went well comes the test for a send.
HandleRecv ==
    /\ pc = "scan" /\ i # server_fd /\ i \in readfds /\ ~received
    /\ \E r \in RecvResults :
         LET h == Received(client[i], r, newlines[i], -1)
         IN  /\ sock' = [sock EXCEPT ![i] = AfterRecv(@, r)]
             /\ overflowed' = IF h.full THEN overflowed \cup {i} ELSE overflowed
             /\ IF h.ret = -1
                THEN CloseClient
                ELSE /\ client' = [client EXCEPT ![i] = h.client]
                     /\ master_write' = IF Unsent(h.client) # <<>>
                                        THEN master_write \cup {i} ELSE master_write
                     /\ UNCHANGED master_read
             /\ max_fds' = max_fds
             /\ IF h.ret # -1 /\ i \in writefds
                THEN received' = TRUE /\ UNCHANGED <<pc, i, taken, readfds, writefds>>
                ELSE Advance
    /\ UNCHANGED <<peers, backlog, newlines>>

\* Mutated form of Unwatch: a connection without output stays in master_write.
Unwatch_Not == UNCHANGED master_write

Unwatch == master_write' = master_write \ {i}

\* send returned n.
SendReturns(n) ==
    /\ client' = [client EXCEPT ![i] = AfterSending(@, n)]
    /\ IF n = Len(Unsent(client[i])) THEN Unwatch ELSE UNCHANGED master_write
    /\ UNCHANGED <<master_read, max_fds>>
    /\ Advance

AtSend ==
    \/ pc = "scan" /\ i # server_fd /\ i \in writefds /\ (received \/ i \notin readfds)
    \/ pc = "send"

\* send takes what there is room for, and returns when it has taken all.
HandleSend ==
    /\ AtSend /\ ~sock[i].rst
    /\ LET left == Rest(taken, Unsent(client[i]))
           n    == SendCount(sock[i], left)
       IN  /\ pc = "send" => n > 0
           /\ sock' = [sock EXCEPT ![i] = AfterSend(@, left)]
           /\ IF n = Len(left)
              THEN SendReturns(taken + n)
              ELSE /\ pc' = "send" /\ taken' = taken + n
                   /\ UNCHANGED <<client, setVars, i, received>>
    /\ UNCHANGED <<peers, backlog, newlines, overflowed>>

\* A reset: send returns what was taken before it, or an error.
SendReset ==
    /\ AtSend /\ sock[i].rst
    /\ IF taken > 0
       THEN SendReturns(taken)
       ELSE CloseClient /\ UNCHANGED max_fds /\ Advance
    /\ UNCHANGED peerVars

-----------------------------------------------------------------------------
(* The specification                                                       *)

Server == Select \/ Accept \/ AcceptFails \/ Skip \/ HandleRecv \/ HandleSend \/ SendReset

Next ==
    \/ Connect
    \/ \E f \in Fds : Fin(f) \/ Reset(f) \/ Read(f)
    \/ \E f \in Fds, n \in 1..MaxBytes : Send(f, n)
    \/ Server \/ SelectFails

Spec == Init /\ [][Next]_vars

-----------------------------------------------------------------------------
(* Properties                                                              *)

\* A connection's Client with what the present send took counted as sent.
Present(f) ==
    IF pc = "send" /\ f = i THEN [client[f] EXCEPT !.send_offset = @ + taken] ELSE client[f]

TypeOK ==
    /\ \A f \in DOMAIN client : BufferType(client[f]) /\ client[f].client_fd \in {-1, f}
    /\ \A f \in Fds : SockType(sock[f])
    /\ {master_read, readfds} \subseteq SUBSET (Fds \cup {server_fd})
    /\ {master_write, writefds} \subseteq SUBSET Fds
    /\ max_fds \in Fds \cup {server_fd} /\ i \in 0..max_fds
    /\ pc \in {"select", "scan", "send", "returned"}
    /\ received \in BOOLEAN /\ taken \in 0..SendCap
    /\ peers \in 0..MaxPeers /\ backlog \in 0..peers
    /\ newlines \in [Fds -> SUBSET (1..MaxBytes)] /\ overflowed \subseteq Fds

\* The array and the sets agree, no number behind the array is ever used, and
\* max_fds, which is never lowered, bounds the numbers (lines 169-183, 187-199
\* and 207-221).
SetsMatch ==
    pc # "returned" =>
        /\ master_read = Opened \cup {server_fd}
        /\ master_write = {f \in Opened : Unsent(client[f]) # <<>>}
        /\ \A f \in master_read : f <= max_fds /\ f < MAX_CONNECTIONS

\* No call of this server waits that need not: a recv finds data, an end or an
\* error, and a send finds room for a byte, although accept may hand out numbers
\* in the turn in which select filled the sets (lines 166-206).
StillReady ==
    pc = "scan" =>
        \A f \in Opened : f >= i =>
            /\ f \in readfds /\ ~(received /\ f = i) => Readable(sock[f])
            /\ f \in writefds => Unsent(client[f]) # <<>> /\ Writable(sock[f])

\* The buffers and indices stay in their bounds, the array, the sets and the bound
\* of the loop agree, and no call waits or fails because a number came back
\* (lines 40-125 and 166-221).
Inv == TypeOK /\ SetsMatch /\ StillReady

\* While no buffer was too small each byte of a stream is in one place, in order:
\* a Client whose number comes back, of which accept clears only `used', has
\* nothing of the connection before (lines 40-88, 101-107, 176-177, 196-199).
Conserved ==
    \A f \in Opened : f \notin overflowed /\ ~sock[f].rst =>
        Trail(Present(f), sock[f]) = [b \in 1..sock[f].sent |-> b]

\* What a connection has sent is received, or the connection is closed, unless
\* one send waits for ever for a peer that does not read: then nobody is served
\* (line 95).
ReadUnlessBlocked ==
    []<>(pc # "send") =>
        \A f \in {g \in Fds : ~TooHigh(g)} : (f \in Opened /\ sock[f].inq # <<>>)
                         ~> (f \notin Opened \/ sock[f].inq = <<>>)
==============================================================================
