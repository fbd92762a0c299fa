--------------------------- MODULE ServersV1_proof ---------------------------
(***************************************************************************)
(* Proofs about the two servers of MCServersV1: about PollServer, for any  *)
(* sizes of the arrays and the buffers, any number of peers and whatever   *)
(* they send, and, at the end, that what SelectServerV1_proof proves of    *)
(* the select server holds in ServersSpec.                                 *)
(*                                                                         *)
(* The inductive invariant PollInv adds to Inv that only entry 0 is the    *)
(* listening socket's, that there are no more entries, and no more open    *)
(* descriptors, than peers that were accepted (Counts), and where the      *)
(* bytes are (Traced): what any buffer or socket of the server holds is    *)
(* old, and none of it was sent by the present peer of a descriptor that   *)
(* is open, unless a buffer was too small for that peer.                   *)
(***************************************************************************)
EXTENDS MCServersV1, EchoBuffers_proof, FiniteSetTheorems

ClientFields == {"client_fd", "recv_message", "send_buf", "send_offset"}

IsPollClient(k) ==
    /\ IsClient(k) /\ DOMAIN k = ClientFields /\ BufferType(k)
    /\ k.client_fd \in {-1} \cup Fds

EntryType ==
    [fd      : {-1, server_fd} \cup Fds,
     events  : SUBSET {"in", "out"},
     revents : (SUBSET {"in", "out", "hup", "nval"}) \cup {Unset}]

\* The bytes in a queue, those that a client has still to send or to frame, and
\* those that the server sent on a socket.
Bytes(q) == {q[n] : n \in 1..Len(q)}
Held(k)  == Bytes(Unsent(k)) \cup Bytes(k.recv_message)
Told(s)  == Bytes(s.got) \cup Bytes(s.outq)

\* All bytes that the server took over from some peer.
Taken ==
    {b \in 1..MaxBytes : \/ \E k \in DOMAIN client : b \in Held(client[k])
                         \/ \E f \in Fds : b \in Told(sock[f])}

Arrays ==
    /\ fds \in [0..MAX_CONNECTIONS -> EntryType]
    /\ \A k \in 0..MAX_CONNECTIONS : fds[k].fd = server_fd <=> k = 0
    /\ client = [k \in 0..(MAX_CONNECTIONS - 1) |-> client[k]]
    /\ \A k \in 0..(MAX_CONNECTIONS - 1) : IsPollClient(client[k])

Sockets ==
    /\ sock = [f \in Fds |-> sock[f]]
    /\ \A f \in Fds : IsSock(sock[f]) /\ SockType(sock[f])

Counts ==
    /\ peers \in 0..MaxPeers /\ backlog \in 0..peers
    /\ active_conns \in 1..MAX_CONNECTIONS /\ active_conns <= 1 + peers - backlog
    /\ open \subseteq Fds /\ Cardinality(open) <= peers - backlog

Loop ==
    /\ pc \in {"poll", "scan"} /\ received \in BOOLEAN /\ i \in Active
    /\ pc = "poll" => i = 0
    /\ pc = "scan" /\ i = 0 /\ "in" \in fds[0].revents => backlog > 0

Traced ==
    /\ sent \in 0..MaxBytes /\ own \in [Fds -> SUBSET (1..sent)]
    /\ Taken \subseteq 1..sent
    /\ \A f \in open : Bytes(sock[f].inq) \subseteq own[f]
    /\ \A f, g \in open : f # g => own[f] \cap own[g] = {}
    /\ \A f \in open \ overflowed : own[f] \cap Taken = {}

PollInv == Arrays /\ Sockets /\ Counts /\ Loop /\ Watched /\ Traced

-----------------------------------------------------------------------------
(* The bytes in a queue.                                                   *)

\* The bytes of a piece of a stream.
LEMMA BytesType ==
    ASSUME NEW q \in Stream
    PROVE  Bytes(q) \subseteq 1..MaxBytes
  <1>1. \A n \in 1..Len(q) : q[n] \in 1..MaxBytes
    BY ElementOfSeq DEF Stream
  <1> QED
    BY <1>1 DEF Bytes

\* There are no bytes in the empty queue.
LEMMA BytesEmpty == Bytes(<<>>) = {}
  <1>1. Len(<<>>) = 0
    BY EmptySeq
  <1> QED
    BY <1>1 DEF Bytes

\* Of two pieces, one behind the other.
LEMMA BytesConcat ==
    ASSUME NEW p \in Stream, NEW q \in Stream
    PROVE  Bytes(p \o q) = Bytes(p) \cup Bytes(q)
  <1>1. Len(p) \in Nat /\ Len(q) \in Nat
    BY DEF Stream
  <1>2. /\ Len(p \o q) = Len(p) + Len(q)
        /\ \A n \in 1..(Len(p) + Len(q)) :
              (p \o q)[n] = IF n <= Len(p) THEN p[n] ELSE q[n - Len(p)]
    BY ConcatProperties DEF Stream
  <1>3. ASSUME NEW n \in 1..Len(p \o q)
        PROVE  (p \o q)[n] \in Bytes(p) \cup Bytes(q)
    <2>1. CASE n <= Len(p)
      BY <1>1, <1>2, <2>1 DEF Bytes
    <2>2. CASE ~(n <= Len(p))
      <3>1. n - Len(p) \in 1..Len(q) /\ (p \o q)[n] = q[n - Len(p)]
        BY <1>1, <1>2, <2>2
      <3> QED
        BY <3>1 DEF Bytes
    <2> QED
      BY <2>1, <2>2
  <1>4. ASSUME NEW n \in 1..Len(p) PROVE p[n] \in Bytes(p \o q)
    <2>1. n \in 1..Len(p \o q) /\ (p \o q)[n] = p[n]
      BY <1>1, <1>2
    <2> QED
      BY <2>1 DEF Bytes
  <1>5. ASSUME NEW n \in 1..Len(q) PROVE q[n] \in Bytes(p \o q)
    <2> DEFINE m == Len(p) + n
    <2>1. m \in 1..Len(p \o q) /\ ~(m <= Len(p)) /\ m - Len(p) = n
      BY <1>1, <1>2
    <2> HIDE DEF m
    <2>2. (p \o q)[m] = q[n]
      BY <1>2, <2>1
    <2> QED
      BY <2>1, <2>2 DEF Bytes
  <1> QED
    BY <1>3, <1>4, <1>5 DEF Bytes

\* Taking bytes from the front of a queue splits them.
LEMMA BytesSplit ==
    ASSUME NEW q \in Stream, NEW n \in 0..Len(q)
    PROVE  Bytes(q) = Bytes(First(n, q)) \cup Bytes(Rest(n, q))
  <1>1. First(n, q) \in Stream /\ Rest(n, q) \in Stream /\ First(n, q) \o Rest(n, q) = q
    BY Split DEF Stream
  <1> QED
    BY <1>1, BytesConcat

\* What a client holds are bytes: of the output first, then of the line it receives.
LEMMA HeldType ==
    ASSUME NEW k, BufferType(k)
    PROVE  /\ Unsent(k) \in Stream /\ k.recv_message \in Stream
           /\ Held(k) = Bytes(Unsent(k) \o k.recv_message) /\ Held(k) \subseteq 1..MaxBytes
  <1>1. Unsent(k) \in Stream /\ k.recv_message \in Stream
    BY UnsentProps DEF BufferType, Stream
  <1>2. Bytes(Unsent(k) \o k.recv_message) = Held(k)
    BY <1>1, BytesConcat DEF Held
  <1> QED
    BY <1>1, <1>2, BytesType DEF Held

\* What a peer was sent, whether it has read it or not, are bytes too.
LEMMA ToldType ==
    ASSUME NEW s, SockType(s)
    PROVE  /\ s.got \in Stream /\ s.outq \in Stream /\ s.inq \in Stream
           /\ Told(s) = Bytes(s.got \o s.outq) /\ Told(s) \subseteq 1..MaxBytes
  <1>1. s.got \in Stream /\ s.outq \in Stream /\ s.inq \in Stream
    BY DEF SockType, Stream
  <1>2. Bytes(s.got \o s.outq) = Told(s)
    BY <1>1, BytesConcat DEF Told
  <1> QED
    BY <1>1, <1>2, BytesType DEF Told

-----------------------------------------------------------------------------
(* What the calls do to a client and to a socket.                          *)

\* No client has a byte.
LEMMA NoClientProps == IsPollClient(NoClient) /\ Held(NoClient) = {} /\ NoClient.client_fd = -1
  <1>0. MaxBytes \in Nat /\ MsgCap \in Nat /\ SendCap \in Nat
    BY BufferAssumption, SockAssumption
  <1>1. <<>> \in Seq(1..MaxBytes) /\ Len(<<>>) = 0
    BY EmptySeq
  <1>2. IsPollClient(NoClient)
    BY <1>0, <1>1 DEF IsPollClient, IsClient, BufferType, NoClient, ClientFields
  <1>3. Unsent(NoClient) = <<>>
    BY <1>1, SubSeqEmpty DEF NoClient, Unsent, Rest
  <1>4. NoClient.recv_message = <<>> /\ NoClient.client_fd = -1
    BY DEF NoClient
  <1> QED
    BY <1>2, <1>3, <1>4, BytesEmpty DEF Held

\* A new socket, on which nothing was sent.
LEMMA NewSockProps ==
    /\ IsSock(NewSock) /\ SockType(NewSock) /\ Told(NewSock) = {} /\ Bytes(NewSock.inq) = {}
  <1>0. MaxBytes \in Nat /\ SockCap \in Nat
    BY SockAssumption
  <1>1. <<>> \in Seq(1..MaxBytes) /\ Len(<<>>) = 0
    BY EmptySeq
  <1>2. IsSock(NewSock) /\ SockType(NewSock)
    BY <1>0, <1>1 DEF SockType, NewSock, IsSock
  <1>3. NewSock.inq = <<>> /\ NewSock.outq = <<>> /\ NewSock.got = <<>>
    BY DEF NewSock
  <1> QED
    BY <1>2, <1>3, BytesEmpty DEF Told

\* accept writes the descriptor of a client that keeps its buffers.
LEMMA ClientAccepted ==
    ASSUME NEW k, IsPollClient(k), NEW f \in Fds
    PROVE  LET l == [k EXCEPT !.client_fd = f] IN
           IsPollClient(l) /\ Held(l) = Held(k) /\ l.client_fd = f
  <1> DEFINE l == [k EXCEPT !.client_fd = f]
  <1>1. /\ l.recv_message = k.recv_message /\ l.send_buf = k.send_buf
        /\ l.send_offset = k.send_offset /\ l.client_fd = f
        /\ IsClient(l) /\ DOMAIN l = ClientFields
    BY DEF IsPollClient, IsClient, ClientFields
  <1> HIDE DEF l
  <1>2. IsPollClient(l)
    BY <1>1 DEF IsPollClient, BufferType
  <1>3. Held(l) = Held(k)
    BY <1>1 DEF Held, Unsent
  <1> QED
    BY <1>1, <1>2, <1>3 DEF l

\* What recv returned is taken from the bytes that wait, and nothing else changes.
LEMMA RecvTakes ==
    ASSUME NEW s, IsSock(s), SockType(s), NEW r \in Recv(s, RecvBuf)
    PROVE  /\ r.bytes \in Stream /\ Told(AfterRecv(s, r)) = Told(s)
           /\ Bytes(s.inq) = Bytes(r.bytes) \cup Bytes(AfterRecv(s, r).inq)
  <1> DEFINE t == AfterRecv(s, r)
  <1>1. \A x \in DOMAIN s \ {"inq"} : t[x] = s[x]
    BY RecvProps, RecvSize
  <1>2. r.bytes \o t.inq = s.inq
    BY RecvProps, RecvSize
  <1>3. r.bytes \in Stream /\ SockType(t)
    BY RecvProps, RecvSize DEF Stream
  <1> HIDE DEF t
  <1>4. t.got = s.got /\ t.outq = s.outq
    <2>1. "got" \in DOMAIN s \ {"inq"} /\ "outq" \in DOMAIN s \ {"inq"}
      BY DEF IsSock
    <2> QED
      BY <1>1, <2>1
  <1>5. t.inq \in Stream
    BY <1>3, ToldType
  <1>6. Bytes(r.bytes \o t.inq) = Bytes(r.bytes) \cup Bytes(t.inq)
    BY <1>3, <1>5, BytesConcat
  <1> QED
    BY <1>2, <1>3, <1>4, <1>6 DEF Told, t

\* A result of recv on an open descriptor, where handle_recv takes EAGAIN for an
\* error, and what it leaves in the socket.
LEMMA RecvResultOpen ==
    ASSUME NEW f \in open, IsSock(sock[f]), SockType(sock[f]), NEW r \in RecvResults(f)
    PROVE  /\ r.ret \in {"data", "eof", "error"} /\ r.bytes \in Stream
           /\ r.ret # "data" => Bytes(r.bytes) = {}
           /\ IsSock(AfterRecv(sock[f], r)) /\ SockType(AfterRecv(sock[f], r))
           /\ Told(AfterRecv(sock[f], r)) = Told(sock[f])
           /\ Bytes(sock[f].inq) = Bytes(r.bytes) \cup Bytes(AfterRecv(sock[f], r).inq)
  <1>1. PICK q \in Recv(sock[f], RecvBuf) :
            r = IF q.ret = "again" THEN [q EXCEPT !.ret = "error"] ELSE q
    BY DEF RecvResults
  <1>2. PICK s : s = sock[f]
    OBVIOUS
  <1>3. IsSock(s) /\ SockType(s) /\ q \in Recv(s, RecvBuf)
    BY <1>1, <1>2
  <1>4. q = [ret |-> q.ret, bytes |-> q.bytes]
    BY <1>3 DEF Recv
  <1>5. r.bytes = q.bytes /\ r.ret = IF q.ret = "again" THEN "error" ELSE q.ret
    BY <1>1, <1>4
  <1>6. AfterRecv(s, r) = AfterRecv(s, q)
    BY <1>5 DEF AfterRecv
  <1>7. q.ret \in {"data", "eof", "again", "error"} /\ (q.ret # "data" => q.bytes = <<>>)
    BY <1>3, RecvProps, RecvSize
  <1>8. IsSock(AfterRecv(s, q)) /\ SockType(AfterRecv(s, q))
    BY <1>3, RecvProps, RecvSize
  <1>9. /\ q.bytes \in Stream /\ Told(AfterRecv(s, q)) = Told(s)
        /\ Bytes(s.inq) = Bytes(q.bytes) \cup Bytes(AfterRecv(s, q).inq)
    BY <1>3, RecvTakes
  <1> QED
    BY <1>2, <1>5, <1>6, <1>7, <1>8, <1>9, BytesEmpty

\* Data that is stored is all that a client holds then and did not before.
LEMMA HeldStored ==
    ASSUME NEW k, IsClient(k), BufferType(k), NEW bytes \in Seq(1..MaxBytes), NEW nl,
           ~MessageTooLong(k, bytes)
    PROVE  Held(Stored(k, bytes, nl).client) \subseteq Held(k) \cup Bytes(bytes)
  <1> DEFINE l == Stored(k, bytes, nl).client
  <1>1. BufferType(l) /\ Unsent(l) \o l.recv_message = Unsent(k) \o (k.recv_message \o bytes)
    BY StoredProps
  <1> HIDE DEF l
  <1>2. Held(l) = Bytes(Unsent(k) \o (k.recv_message \o bytes))
    BY <1>1, HeldType
  <1>3. bytes \in Stream /\ Unsent(k) \in Stream /\ k.recv_message \in Stream
    BY HeldType DEF Stream
  <1>4. /\ k.recv_message \o bytes \in Stream
        /\ Bytes(k.recv_message \o bytes) = Bytes(k.recv_message) \cup Bytes(bytes)
    BY <1>3, StreamConcat, BytesConcat
  <1>5. Bytes(Unsent(k) \o (k.recv_message \o bytes))
          = Bytes(Unsent(k)) \cup (Bytes(k.recv_message) \cup Bytes(bytes))
    BY <1>3, <1>4, BytesConcat
  <1> QED
    BY <1>2, <1>5 DEF Held, l

\* handle_recv: it returns 0 or -1, what it takes over are bytes that recv
\* returned, and where it returns -1 and no buffer was too small it took none.
LEMMA HeldReceived ==
    ASSUME NEW k, IsPollClient(k), NEW r, r.ret \in {"data", "eof", "error"},
           r.bytes \in Stream, NEW nl
    PROVE  LET h == Received(k, r, nl, 0) IN
           /\ IsPollClient(h.client) /\ h.client.client_fd = k.client_fd
           /\ h.full \in BOOLEAN /\ h.ret \in {-1, 0}
           /\ Held(h.client) \subseteq Held(k) \cup Bytes(r.bytes)
           /\ r.ret = "data" /\ h.ret = -1 => h.full
           /\ r.ret = "error" => h.ret = -1
           /\ r.ret # "data" => h.client = k
  <1> DEFINE h == Received(k, r, nl, 0)
  <1>1. IsClient(k) /\ BufferType(k) /\ DOMAIN k = ClientFields /\ k.client_fd \in {-1} \cup Fds
    BY DEF IsPollClient
  <1>2. CASE r.ret = "data" /\ ~MessageTooLong(k, r.bytes)
    <2>1. PICK b : b = r.bytes
      OBVIOUS
    <2>2. b \in Seq(1..MaxBytes) /\ ~MessageTooLong(k, b)
      BY <1>2, <2>1 DEF Stream
    <2> DEFINE g == Stored(k, b, nl)
    <2>3. h = g
      BY <1>2, <2>1 DEF Received
    <2>4. SameOtherFields(k, g.client) /\ BufferType(g.client)
      BY <1>1, <2>2, StoredProps
    <2>5. g.full \in BOOLEAN /\ g.ret = IF g.full THEN -1 ELSE 0
      BY <1>1, <2>2, StoredProps
    <2>6. Held(g.client) \subseteq Held(k) \cup Bytes(b)
      BY <1>1, <2>2, HeldStored
    <2> HIDE DEF g, h
    <2>7. IsPollClient(g.client) /\ g.client.client_fd = k.client_fd
      BY <1>1, <2>4 DEF IsPollClient, SameOtherFields, ClientFields
    <2> QED
      BY <1>2, <2>1, <2>3, <2>5, <2>6, <2>7 DEF h
  <1>3. CASE ~(r.ret = "data" /\ ~MessageTooLong(k, r.bytes))
    <2>1. /\ h.client = k
          /\ h.full = (r.ret = "data") /\ h.ret = IF r.ret = "eof" THEN 0 ELSE -1
      BY <1>3 DEF Received, NotStored
    <2> HIDE DEF h
    <2> QED
      BY <1>1, <1>3, <2>1 DEF h, IsPollClient
  <1> QED
    BY <1>2, <1>3

\* handle_send: what a socket was told more are bytes that the client held.
LEMMA HeldSent ==
    ASSUME NEW k, IsPollClient(k), NEW s, IsSock(s), SockType(s)
    PROVE  LET q == Unsent(k)
               l == AfterSending(k, SendCount(s, q))
               t == AfterSend(s, q)
           IN  /\ IsPollClient(l) /\ l.client_fd = k.client_fd /\ Held(l) \subseteq Held(k)
               /\ IsSock(t) /\ SockType(t) /\ t.inq = s.inq
               /\ Told(t) \subseteq Told(s) \cup Held(k)
  <1> DEFINE q == Unsent(k)
             n == SendCount(s, q)
             l == AfterSending(k, n)
             t == AfterSend(s, q)
             f == First(n, q)
             r == Rest(n, q)
  <1>1. IsClient(k) /\ BufferType(k) /\ DOMAIN k = ClientFields /\ k.client_fd \in {-1} \cup Fds
    BY DEF IsPollClient
  <1>2. q \in Stream
    BY <1>1, HeldType
  <1>3. n \in 0..Len(q)
    BY <1>2, SendCountProps
  <1>4. /\ SameOtherFields(k, l) /\ BufferType(l)
        /\ l.recv_message = k.recv_message /\ Unsent(l) = r
    BY <1>1, <1>3, AfterSendingProps
  <1>5. /\ IsSock(t) /\ SockType(t) /\ t.inq = s.inq /\ t.got = s.got
        /\ t.outq = s.outq \o f
    BY <1>2, AfterSendProps
  <1>6. Bytes(q) = Bytes(f) \cup Bytes(r) /\ f \in Stream /\ s.outq \in Stream
    BY <1>2, <1>3, BytesSplit, Split, ToldType DEF Stream
  <1> HIDE DEF n, l, t, f, r
  <1>7. Bytes(t.outq) = Bytes(s.outq) \cup Bytes(f)
    BY <1>5, <1>6, BytesConcat
  <1>8. IsPollClient(l) /\ l.client_fd = k.client_fd
    BY <1>1, <1>4 DEF IsPollClient, SameOtherFields, ClientFields
  <1> QED
    BY <1>4, <1>5, <1>6, <1>7, <1>8 DEF Held, Told, n, l, t

-----------------------------------------------------------------------------
(* Where the bytes are after a step.                                       *)

\* What one client holds or one socket was told is taken.
LEMMA TakenHas ==
    ASSUME Arrays, Sockets
    PROVE  /\ DOMAIN client = 0..(MAX_CONNECTIONS - 1)
           /\ \A k \in 0..(MAX_CONNECTIONS - 1) : Held(client[k]) \subseteq Taken
           /\ \A f \in Fds : Told(sock[f]) \subseteq Taken
  <1>1. DOMAIN client = 0..(MAX_CONNECTIONS - 1)
    BY DEF Arrays
  <1>2. ASSUME NEW k \in 0..(MAX_CONNECTIONS - 1) PROVE Held(client[k]) \subseteq Taken
    <2>1. Held(client[k]) \subseteq 1..MaxBytes
      BY HeldType DEF Arrays, IsPollClient
    <2> QED
      BY <2>1, <1>1 DEF Taken
  <1>3. ASSUME NEW f \in Fds PROVE Told(sock[f]) \subseteq Taken
    <2>1. Told(sock[f]) \subseteq 1..MaxBytes
      BY ToldType DEF Sockets
    <2> QED
      BY <2>1 DEF Taken
  <1> QED
    BY <1>1, <1>2, <1>3

\* A step after which each client and each socket has only bytes that were taken
\* before or are in X.
LEMMA TakenFrom ==
    ASSUME NEW X, Arrays', \A k \in 0..(MAX_CONNECTIONS - 1) : Held(client'[k]) \subseteq Taken \cup X,
           \A f \in Fds : Told(sock'[f]) \subseteq Taken \cup X
    PROVE  Taken' \subseteq Taken \cup X
  <1>1. DOMAIN client' = 0..(MAX_CONNECTIONS - 1)
    BY DEF Arrays
  <1> QED
    BY <1>1 DEF Taken

\* A step of the server takes over bytes X that no peer has sent whose descriptor
\* stays open, but those for whom a buffer is too small.
LEMMA TracedKept ==
    ASSUME Traced, own' = own, sent' = sent, open' \subseteq open,
           NEW X \in SUBSET (1..sent), Taken' \subseteq Taken \cup X,
           \A f \in open' \ overflowed' : f \notin overflowed /\ own[f] \cap X = {},
           \A f \in open' : Bytes(sock'[f].inq) \subseteq own[f]
    PROVE  Traced'
  <1>1. /\ sent' \in 0..MaxBytes /\ own' \in [Fds -> SUBSET (1..sent')]
        /\ Taken' \subseteq 1..sent'
    BY DEF Traced
  <1>2. \A f \in open' : Bytes(sock'[f].inq) \subseteq own'[f]
    BY DEF Traced
  <1>3. \A f, g \in open' : f # g => own'[f] \cap own'[g] = {}
    BY DEF Traced
  <1>4. \A f \in open' \ overflowed' : own'[f] \cap Taken' = {}
    <2>1. SUFFICES ASSUME NEW f \in open' \ overflowed', NEW b \in own[f], b \in Taken'
                   PROVE  FALSE
      OBVIOUS
    <2>2. f \in open \ overflowed /\ own[f] \cap X = {} /\ own[f] \cap Taken = {}
      BY <2>1 DEF Traced
    <2> QED
      BY <2>1, <2>2
  <1> QED
    BY <1>1, <1>2, <1>3, <1>4 DEF Traced

\* A step that neither takes over bytes nor lets any arrive.
LEMMA TracedSame ==
    ASSUME Traced, UNCHANGED <<own, sent, open, client, sock, overflowed>>
    PROVE  Traced'
  BY DEF Traced, Taken

-----------------------------------------------------------------------------
(* The first state, and the steps of the peers.                            *)

\* The first state.
LEMMA PollInitInv == Init => PollInv
  <1> SUFFICES ASSUME Init PROVE PollInv
    OBVIOUS
  <1>0. MaxPeers \in Nat /\ MAX_CONNECTIONS \in Nat \ {0} /\ MaxBytes \in Nat
    BY PollAssumption, SockAssumption
  <1>1. Arrays
    <2>1. NoEntry \in EntryType /\ Entry(server_fd, {"in"}, Unset) \in EntryType
      <3>1. {"in"} \in SUBSET {"in", "out"} /\ {} \in SUBSET {"in", "out"}
        OBVIOUS
      <3>2. /\ -1 \in {-1, server_fd} \cup Fds /\ server_fd \in {-1, server_fd} \cup Fds
            /\ Unset \in (SUBSET {"in", "out", "hup", "nval"}) \cup {Unset}
        OBVIOUS
      <3> QED
        BY <3>1, <3>2 DEF NoEntry, Entry, EntryType
    <2>2. NoEntry.fd = -1 /\ Entry(server_fd, {"in"}, Unset).fd = 0 /\ server_fd = 0
      BY DEF NoEntry, Entry, server_fd
    <2>3. \A k \in 0..MAX_CONNECTIONS :
             fds[k] = IF k = 0 THEN Entry(server_fd, {"in"}, Unset) ELSE NoEntry
      BY DEF Init
    <2>4. fds \in [0..MAX_CONNECTIONS -> EntryType]
      BY <2>1 DEF Init
    <2>5. \A k \in 0..MAX_CONNECTIONS : fds[k].fd = server_fd <=> k = 0
      BY <2>2, <2>3
    <2>6. /\ client = [k \in 0..(MAX_CONNECTIONS - 1) |-> client[k]]
          /\ \A k \in 0..(MAX_CONNECTIONS - 1) : client[k] = NoClient
      BY DEF Init
    <2> QED
      BY <2>4, <2>5, <2>6, NoClientProps DEF Arrays
  <1>2. Sockets
    BY NewSockProps DEF Init, Sockets
  <1>3. Counts
    <2>1. Cardinality({}) = 0
      BY FS_EmptySet
    <2> QED
      BY <1>0, <2>1 DEF Init, Counts
  <1>4. Loop
    <2>1. pc = "poll" /\ i = 0 /\ received = FALSE /\ active_conns = 1
      BY DEF Init
    <2>2. i \in Active
      BY <2>1 DEF Active
    <2> QED
      BY <2>1, <2>2 DEF Loop
  <1>5. Watched
    BY DEF Init, Watched, Active
  <1>6. Traced
    <2>1. Taken = {}
      <3>1. /\ DOMAIN client = 0..(MAX_CONNECTIONS - 1)
            /\ \A k \in 0..(MAX_CONNECTIONS - 1) : Held(client[k]) = {}
        BY NoClientProps DEF Init
      <3>2. \A f \in Fds : Told(sock[f]) = {}
        BY NewSockProps DEF Init
      <3> QED
        BY <3>1, <3>2 DEF Taken
    <2> QED
      BY <1>0, <2>1 DEF Init, Traced
  <1> QED
    BY <1>1, <1>2, <1>3, <1>4, <1>5, <1>6 DEF PollInv

\* A peer connects.
LEMMA ConnectInv == PollInv /\ Connect => PollInv'
  <1> SUFFICES ASSUME PollInv, Connect PROVE PollInv'
    OBVIOUS
  <1>1. /\ UNCHANGED <<fds, client, active_conns, open, pc, i, received, sock, sent, own,
                       overflowed>>
        /\ peers < MaxPeers /\ peers' = peers + 1 /\ backlog' = backlog + 1
    BY DEF Connect, arrays, loopVars
  <1>2. Arrays' /\ Sockets' /\ Watched'
    BY <1>1 DEF PollInv, Arrays, Sockets, Watched, Active
  <1>3. Traced'
    BY <1>1, TracedSame DEF PollInv
  <1>4. Counts'
    BY <1>1, PollAssumption DEF PollInv, Counts
  <1>5. Loop'
    BY <1>1 DEF PollInv, Loop, Active, Counts
  <1> QED
    BY <1>2, <1>3, <1>4, <1>5 DEF PollInv

\* A step of a peer on its socket that sends nothing.
LEMMA PeerInv ==
    ASSUME PollInv, NEW f \in open, NEW t, IsSock(t), SockType(t), t.inq = sock[f].inq,
           Told(t) \subseteq Told(sock[f]), Peer(f, t)
    PROVE  PollInv'
  <1>1. /\ UNCHANGED <<fds, client, active_conns, open, pc, i, received, peers, backlog, sent,
                       own, overflowed>>
        /\ sock' = [sock EXCEPT ![f] = t] /\ f \in Fds
    BY DEF Peer, arrays, loopVars, peerVars, PollInv, Counts
  <1>2. Arrays' /\ Watched' /\ Counts' /\ Loop'
    BY <1>1 DEF PollInv, Arrays, Watched, Active, Counts, Loop
  <1>3. \A g \in Fds : sock'[g] = IF g = f THEN t ELSE sock[g]
    BY <1>1 DEF PollInv, Sockets
  <1>4. Sockets'
    BY <1>1, <1>3 DEF PollInv, Sockets
  <1>5. Traced'
    <2>1. /\ \A k \in 0..(MAX_CONNECTIONS - 1) : Held(client[k]) \subseteq Taken
          /\ \A g \in Fds : Told(sock[g]) \subseteq Taken
      BY TakenHas DEF PollInv
    <2>2. Taken' \subseteq Taken \cup {}
      BY <1>1, <1>2, <1>3, <2>1, TakenFrom
    <2>3. \A g \in open' : Bytes(sock'[g].inq) \subseteq own[g]
      BY <1>1, <1>3 DEF PollInv, Traced, Counts
    <2>4. \A g \in open' \ overflowed' : g \notin overflowed /\ own[g] \cap {} = {}
      BY <1>1
    <2>5. Traced /\ own' = own /\ sent' = sent /\ open' \subseteq open
      BY <1>1 DEF PollInv
    <2> QED
      BY <2>2, <2>3, <2>4, <2>5, TracedKept
  <1> QED
    BY <1>2, <1>4, <1>5 DEF PollInv

\* A peer ends its stream.
LEMMA FinInv == ASSUME NEW f \in Fds PROVE PollInv /\ Fin(f) => PollInv'
  <1> SUFFICES ASSUME PollInv, Fin(f) PROVE PollInv'
    OBVIOUS
  <1> DEFINE t == PeerFin(sock[f])
  <1>1. f \in open /\ Peer(f, t) /\ IsSock(sock[f]) /\ SockType(sock[f])
    BY DEF Fin, Peer, PollInv, Sockets
  <1>2. IsSock(t) /\ SockType(t) /\ \A x \in DOMAIN sock[f] \ {"fin"} : t[x] = sock[f][x]
    BY <1>1, PeerEndProps
  <1>3. t.inq = sock[f].inq /\ t.got = sock[f].got /\ t.outq = sock[f].outq
    BY <1>1 DEF IsSock, PeerFin
  <1> HIDE DEF t
  <1>4. Told(t) = Told(sock[f])
    BY <1>3 DEF Told
  <1> QED
    BY <1>1, <1>2, <1>3, <1>4, PeerInv

\* A peer resets its connection: what it was sent and has not read is gone.
LEMMA ResetInv == ASSUME NEW f \in Fds PROVE PollInv /\ Reset(f) => PollInv'
  <1> SUFFICES ASSUME PollInv, Reset(f) PROVE PollInv'
    OBVIOUS
  <1> DEFINE t == PeerReset(sock[f])
  <1>1. f \in open /\ Peer(f, t) /\ IsSock(sock[f]) /\ SockType(sock[f])
    BY DEF Reset, Peer, PollInv, Sockets
  <1>2. IsSock(t) /\ SockType(t)
    BY <1>1, PeerEndProps
  <1>3. t.inq = sock[f].inq /\ t.got = sock[f].got /\ t.outq = <<>>
    BY <1>1 DEF IsSock, PeerReset
  <1> HIDE DEF t
  <1>4. Told(t) \subseteq Told(sock[f])
    BY <1>3, BytesEmpty DEF Told
  <1> QED
    BY <1>1, <1>2, <1>3, <1>4, PeerInv

\* A peer reads what it was sent.
LEMMA ReadInv == ASSUME NEW f \in Fds PROVE PollInv /\ Read(f) => PollInv'
  <1> SUFFICES ASSUME PollInv, Read(f) PROVE PollInv'
    OBVIOUS
  <1> DEFINE t == PeerRead(sock[f], Len(sock[f].outq))
  <1>1. f \in open /\ Peer(f, t) /\ IsSock(sock[f]) /\ SockType(sock[f])
    BY DEF Read, Peer, PollInv, Sockets
  <1>2. Len(sock[f].outq) \in 0..Len(sock[f].outq)
    BY <1>1 DEF SockType
  <1>3. /\ IsSock(t) /\ SockType(t) /\ t.got \o t.outq = sock[f].got \o sock[f].outq
        /\ t.inq = sock[f].inq
    BY <1>1, <1>2, PeerReadProps
  <1> HIDE DEF t
  <1>4. Told(t) = Told(sock[f])
    BY <1>1, <1>3, ToldType
  <1> QED
    BY <1>1, <1>3, <1>4, PeerInv

\* A peer sends: its bytes have numbers that none had before.
LEMMA SendInv == ASSUME NEW f \in Fds, NEW n \in 1..MaxBytes PROVE PollInv /\ Send(f, n) => PollInv'
  <1> SUFFICES ASSUME PollInv, Send(f, n) PROVE PollInv'
    OBVIOUS
  <1> DEFINE s == sock[f]
             q == [s EXCEPT !.sent = sent]
             t == PeerSend(q, n)
             b == [j \in 1..n |-> sent + j]
  <1>1. /\ UNCHANGED <<fds, client, active_conns, open, pc, i, received, peers, backlog,
                       overflowed>>
        /\ sock' = [sock EXCEPT ![f] = t] /\ f \in open /\ sent + n <= MaxBytes
        /\ sent' = sent + n /\ own' = [own EXCEPT ![f] = @ \cup (sent + 1)..(sent + n)]
    BY DEF Send, arrays, loopVars
  <1>2. /\ IsSock(s) /\ SockType(s) /\ sent \in Nat /\ n \in Nat /\ MaxBytes \in Nat
        /\ sent \in 0..MaxBytes /\ own \in [Fds -> SUBSET (1..sent)]
    BY SockAssumption DEF PollInv, Sockets, Traced
  <1>3. IsSock(q) /\ SockType(q) /\ q.sent = sent /\ q.inq = s.inq /\ q.got = s.got /\ q.outq = s.outq
    BY <1>2 DEF IsSock, SockType
  <1> HIDE DEF q
  <1>4. IsSock(t) /\ SockType(t)
    BY <1>1, <1>2, <1>3, PeerSendProps
  <1>5. t.inq = s.inq \o b /\ t.outq = s.outq /\ t.got = s.got
    <2>1. /\ t.inq = q.inq \o [j \in 1..n |-> q.sent + j]
          /\ t.outq = q.outq /\ t.got = q.got
      BY <1>1, <1>2, <1>3, PeerSendProps
    <2> QED
      BY <2>1, <1>3
  <1> HIDE DEF t, s
  <1>6. Arrays' /\ Watched' /\ Counts' /\ Loop'
    BY <1>1 DEF PollInv, Arrays, Watched, Active, Counts, Loop
  <1>7. \A g \in Fds : sock'[g] = IF g = f THEN t ELSE sock[g]
    BY <1>1 DEF PollInv, Sockets
  <1>8. Sockets'
    BY <1>1, <1>4, <1>7 DEF PollInv, Sockets
  <1>9. \A g \in Fds : own'[g] = IF g = f THEN own[f] \cup (sent + 1)..(sent + n) ELSE own[g]
    BY <1>1, <1>2
  <1>10. Bytes(t.inq) = Bytes(s.inq) \cup (sent + 1)..(sent + n)
    <2>1. b \in Stream /\ Len(b) = n
      BY <1>1, <1>2, NextBytes
    <2>2. Bytes(b) = (sent + 1)..(sent + n)
      <3>1. ASSUME NEW m \in 1..n PROVE b[m] \in (sent + 1)..(sent + n)
        BY <1>2
      <3>2. ASSUME NEW m \in (sent + 1)..(sent + n)
            PROVE  m - sent \in 1..n /\ b[m - sent] = m
        BY <1>2
      <3> QED
        BY <2>1, <3>1, <3>2 DEF Bytes
    <2>3. s.inq \in Stream
      BY <1>2, ToldType
    <2> HIDE DEF b
    <2>4. Bytes(s.inq \o b) = Bytes(s.inq) \cup Bytes(b)
      BY <2>1, <2>3, BytesConcat
    <2> QED
      BY <1>5, <2>2, <2>4
  <1>11. Taken' \subseteq Taken
    <2>1. /\ \A k \in 0..(MAX_CONNECTIONS - 1) : Held(client[k]) \subseteq Taken
          /\ \A g \in Fds : Told(sock[g]) \subseteq Taken
      BY TakenHas DEF PollInv
    <2>2. Told(t) = Told(s)
      BY <1>5 DEF Told
    <2>3. \A g \in Fds : Told(sock'[g]) \subseteq Taken
      BY <1>7, <2>1, <2>2 DEF s
    <2>4. Taken' \subseteq Taken \cup {}
      BY <1>1, <1>6, <2>1, <2>3, TakenFrom
    <2> QED
      BY <2>4
  <1>12. Traced'
    <2> DEFINE New == (sent + 1)..(sent + n)
    <2>1. 1..sent \subseteq 1..sent' /\ New \subseteq 1..sent' /\ New \cap 1..sent = {}
      BY <1>1, <1>2
    <2>2. sent' \in 0..MaxBytes
      BY <1>1, <1>2
    <2> HIDE DEF New
    <2>3. \A g \in Fds : own'[g] = IF g = f THEN own[f] \cup New ELSE own[g]
      BY <1>9 DEF New
    <2>4. own' \in [Fds -> SUBSET (1..sent')]
      <3>1. \A g \in Fds : own'[g] \subseteq 1..sent'
        BY <2>1, <2>3, <1>2
      <3>2. own' = [g \in Fds |-> own'[g]]
        BY <1>1, <1>2
      <3> QED
        BY <3>1, <3>2
    <2>5. Taken' \subseteq 1..sent'
      BY <1>11, <2>1 DEF PollInv, Traced
    <2>6. \A g \in open' : Bytes(sock'[g].inq) \subseteq own'[g]
      <3>1. Bytes(s.inq) \subseteq own[f]
        BY <1>1 DEF PollInv, Traced, s
      <3>2. Bytes(t.inq) \subseteq own'[f]
        BY <1>10, <2>3, <3>1 DEF New
      <3> QED
        BY <1>1, <1>7, <2>3, <3>2 DEF PollInv, Traced, Counts
    <2>7. \A g, h \in open' : g # h => own'[g] \cap own'[h] = {}
      <3>1. \A g \in open : g \in Fds /\ own[g] \cap New = {}
        BY <1>2, <2>1 DEF PollInv, Counts
      <3> QED
        BY <1>1, <2>3, <3>1 DEF PollInv, Traced
    <2>8. \A g \in open' \ overflowed' : own'[g] \cap Taken' = {}
      <3>1. New \cap Taken = {}
        BY <2>1 DEF PollInv, Traced
      <3> QED
        BY <1>1, <1>11, <2>3, <3>1 DEF PollInv, Traced, Counts
    <2> QED
      BY <2>2, <2>4, <2>5, <2>6, <2>7, <2>8 DEF Traced
  <1> QED
    BY <1>6, <1>8, <1>12 DEF PollInv

-----------------------------------------------------------------------------
(* The steps of the server.                                                *)

\* What holds of the numbers in every state.
LEMMA PollNumbers ==
    ASSUME PollInv
    PROVE  /\ MAX_CONNECTIONS \in Nat \ {0} /\ MaxPeers \in Nat /\ MaxPeers < MAX_CONNECTIONS
           /\ active_conns \in 1..MAX_CONNECTIONS /\ i \in 0..(active_conns - 1)
           /\ peers \in 0..MaxPeers /\ backlog \in 0..peers
           /\ active_conns <= 1 + peers - backlog /\ server_fd = 0
  BY PollAssumption DEF PollInv, Counts, Loop, Active, server_fd

\* The entry that the scan is at, if it is not the first, is that of a client.
LEMMA AtEntry ==
    ASSUME PollInv, AtConnection
    PROVE  /\ i \in 1..(active_conns - 1) /\ i - 1 \in 0..(MAX_CONNECTIONS - 1)
           /\ i \in 0..MAX_CONNECTIONS /\ fds[i].fd # server_fd
           /\ client[i - 1].client_fd = fds[i].fd /\ IsPollClient(client[i - 1])
           /\ fds[i] \in EntryType
  <1>1. i \in 1..(active_conns - 1)
    BY DEF AtConnection
  <1>2. i - 1 \in 0..(MAX_CONNECTIONS - 1) /\ i \in 0..MAX_CONNECTIONS /\ i # 0
    BY <1>1, PollNumbers
  <1>3. fds[i].fd # server_fd /\ IsPollClient(client[i - 1]) /\ fds[i] \in EntryType
    BY <1>2 DEF PollInv, Arrays
  <1>4. client[i - 1].client_fd = fds[i].fd
    BY <1>1, PollNumbers DEF PollInv, Watched, Active
  <1> QED
    BY <1>1, <1>2, <1>3, <1>4

\* The scan goes on or ends; the loop stays in its bounds.
LEMMA ScanKeeps ==
    ASSUME NEW k \in Nat, NEW n \in Nat \ {0}, ScanAt(k, n), active_conns' = n,
           k > 0
    PROVE  Loop'
  <1>1. /\ received' = FALSE
        /\ (k < n /\ i' = k /\ pc' = "scan") \/ (i' = 0 /\ pc' = "poll")
    BY DEF ScanAt
  <1>2. CASE k < n /\ i' = k /\ pc' = "scan"
    <2>1. i' \in Active' /\ i' # 0
      BY <1>2 DEF Active
    <2>2. pc' \in {"poll", "scan"} /\ pc' # "poll" /\ received' \in BOOLEAN
      BY <1>1, <1>2
    <2> QED
      BY <2>1, <2>2 DEF Loop
  <1>3. CASE i' = 0 /\ pc' = "poll"
    <2>1. i' \in Active'
      BY <1>3 DEF Active
    <2> QED
      BY <1>1, <1>3, <2>1 DEF Loop
  <1> QED
    BY <1>1, <1>2, <1>3

\* poll.
LEMMA PollStepInv == PollInv /\ Poll => PollInv'
  <1> SUFFICES ASSUME PollInv, Poll PROVE PollInv'
    OBVIOUS
  <1>1. /\ UNCHANGED <<client, active_conns, open, peers, backlog, sent, newlines, own, sock,
                       overflowed>>
        /\ pc' = "scan" /\ i' = 0 /\ received' = FALSE
        /\ fds' = [k \in DOMAIN fds |->
                     IF k \in Active THEN [fds[k] EXCEPT !.revents = Revents(fds[k])] ELSE fds[k]]
    BY DEF Poll, peerVars
  <1>2. ASSUME NEW e \in EntryType
        PROVE  /\ [e EXCEPT !.revents = Revents(e)] \in EntryType
               /\ [e EXCEPT !.revents = Revents(e)].fd = e.fd
               /\ [e EXCEPT !.revents = Revents(e)].revents = Revents(e)
               /\ e.fd = server_fd /\ "in" \in Revents(e) => backlog > 0
    <2>1. e.fd \in {-1, server_fd} \cup Fds /\ e.events \in SUBSET {"in", "out"}
      BY DEF EntryType
    <2>2. server_fd # -1 /\ server_fd \notin Fds /\ -1 \notin Fds
      BY PollAssumption DEF server_fd, Fds
    <2>3. ASSUME e.fd = -1 PROVE Revents(e) = {}
      <3>1. e.fd # server_fd /\ e.fd \notin Fds \ open /\ e.fd \notin open
        BY <2>2, <2>3 DEF PollInv, Counts
      <3> QED
        BY <2>3, <3>1 DEF Revents
    <2>4. ASSUME e.fd = server_fd PROVE Revents(e) = {x \in {"in"} : backlog > 0}
      <3>1. e.fd # -1 /\ e.fd \notin Fds
        BY <2>2, <2>4
      <3>2. e.fd \notin open
        BY <3>1 DEF PollInv, Counts
      <3> QED
        BY <2>4, <3>1, <3>2 DEF Revents
    <2>5. e.fd \in Fds \ open => Revents(e) = {"nval"}
      BY <2>2 DEF Revents
    <2>6. e.fd \in Fds /\ e.fd \in open =>
            Revents(e) = {x \in e.events : \/ x = "in"  /\ Readable(sock[e.fd])
                                           \/ x = "out" /\ Writable(sock[e.fd])}
                           \cup {x \in {"hup"} : sock[e.fd].rst}
      BY <2>2 DEF Revents
    <2>7. Revents(e) \in SUBSET {"in", "out", "hup", "nval"}
      BY <2>1, <2>3, <2>4, <2>5, <2>6
    <2>8. Revents(e) \in (SUBSET {"in", "out", "hup", "nval"}) \cup {Unset}
      BY <2>7
    <2>9. /\ [e EXCEPT !.revents = Revents(e)] \in EntryType
          /\ [e EXCEPT !.revents = Revents(e)].fd = e.fd
          /\ [e EXCEPT !.revents = Revents(e)].revents = Revents(e)
      BY <2>8 DEF EntryType
    <2> QED
      BY <2>4, <2>9
  <1>3. fds \in [0..MAX_CONNECTIONS -> EntryType]
    BY DEF PollInv, Arrays
  <1>4. /\ fds' \in [0..MAX_CONNECTIONS -> EntryType]
        /\ \A k \in 0..MAX_CONNECTIONS : fds'[k].fd = fds[k].fd
    BY <1>1, <1>2, <1>3
  <1>5. Arrays'
    BY <1>1, <1>4 DEF PollInv, Arrays
  <1>6. 0 \in Active /\ 0 \in 0..MAX_CONNECTIONS /\ Active \subseteq 0..MAX_CONNECTIONS
    BY PollNumbers DEF Active
  <1>7. "in" \in fds'[0].revents => backlog > 0
    <2>1. fds'[0] = [fds[0] EXCEPT !.revents = Revents(fds[0])]
      BY <1>1, <1>3, <1>6
    <2>2. fds[0] \in EntryType /\ fds[0].fd = server_fd
      BY <1>3, <1>6 DEF PollInv, Arrays
    <2> QED
      BY <2>1, <2>2, <1>2
  <1>8. Loop'
    BY <1>1, <1>6, <1>7 DEF Loop, Active
  <1>9. Watched'
    BY <1>1, <1>4, <1>6 DEF PollInv, Watched, Active
  <1>10. Sockets' /\ Counts'
    BY <1>1 DEF PollInv, Sockets, Counts
  <1>11. Traced'
    BY <1>1, TracedSame DEF PollInv
  <1> QED
    BY <1>5, <1>8, <1>9, <1>10, <1>11 DEF PollInv

\* An entry is left as it is.
LEMMA PassInv ==
    ASSUME PollInv, pc = "scan", ScanAt(i + 1, active_conns),
           UNCHANGED <<arrays, open, peerVars, sock, overflowed>>
    PROVE  PollInv'
  <1>1. UNCHANGED <<fds, client, active_conns, open, peers, backlog, sent, newlines, own, sock,
                    overflowed>>
    BY DEF arrays, peerVars
  <1>2. Loop'
    BY <1>1, PollNumbers, ScanKeeps
  <1>3. Arrays' /\ Sockets' /\ Counts' /\ Watched'
    BY <1>1 DEF PollInv, Arrays, Sockets, Counts, Watched, Active
  <1>4. Traced'
    BY <1>1, TracedSame DEF PollInv
  <1> QED
    BY <1>2, <1>3, <1>4 DEF PollInv

\* A number is free for each peer that waits.
LEMMA NumberIsFree ==
    ASSUME PollInv, backlog > 0
    PROVE  Fds \ open # {} /\ Min(Fds \ open) \in Fds \ open
           /\ IsFiniteSet(open) /\ Cardinality(open) \in Nat
  <1>1. MaxPeers \in Nat /\ Fds = 1..MaxPeers /\ open \subseteq Fds
    BY PollNumbers DEF Fds, PollInv, Counts
  <1>2. IsFiniteSet(Fds) /\ Cardinality(Fds) = MaxPeers
    BY <1>1, FS_Interval
  <1>3. IsFiniteSet(open) /\ Cardinality(open) \in Nat
    BY <1>1, <1>2, FS_Subset, FS_CardinalityType
  <1>4. Cardinality(open) < MaxPeers
    BY <1>3, PollNumbers DEF PollInv, Counts
  <1>5. Fds \ open # {}
    <2>1. SUFFICES ASSUME Fds \ open = {} PROVE FALSE
      OBVIOUS
    <2>2. open = Fds
      BY <2>1, <1>1, Zenon
    <2>3. Cardinality(open) = MaxPeers
      BY <2>2, <1>2
    <2> QED
      BY <2>3, <1>1, <1>4
  <1>6. Fds \ open \in SUBSET Nat
    BY <1>1
  <1> QED
    BY <1>3, <1>5, <1>6, MinNat

\* accept.
LEMMA AcceptInv == PollInv /\ Accept => PollInv'
  <1> SUFFICES ASSUME PollInv, Accept PROVE PollInv'
    OBVIOUS
  <1> DEFINE f == Min(Fds \ open)
             old == fds[active_conns].revents
             a == active_conns
  <1>1. pc = "scan" /\ i \in 0..MAX_CONNECTIONS /\ fds[i].fd = server_fd /\ "in" \in fds[i].revents
    BY PollNumbers DEF Accept
  <1>2. i = 0 /\ backlog > 0
    <2>1. i = 0
      BY <1>1 DEF PollInv, Arrays
    <2> QED
      BY <1>1, <2>1 DEF PollInv, Loop
  <1>3. f \in Fds /\ f \notin open /\ IsFiniteSet(open) /\ Cardinality(open) \in Nat
    BY <1>2, NumberIsFree
  <1>4. PICK x \in IF old = Unset THEN SUBSET {"in", "out", "hup"} ELSE {old} :
           fds' = [fds EXCEPT ![a] = Entry(f, {"in"}, x)]
    BY DEF Accept
  <1>5. /\ client' = [client EXCEPT ![a - 1].client_fd = f]
        /\ open' = open \cup {f} /\ overflowed' = overflowed \ {f}
        /\ sock' = [sock EXCEPT ![f] = NewSock] /\ own' = [own EXCEPT ![f] = {}]
        /\ active_conns' = a + 1 /\ backlog' = backlog - 1
        /\ ScanAt(i + 1, a + 1) /\ UNCHANGED <<peers, sent, newlines>>
    BY DEF Accept
  <1> HIDE DEF f
  <1>6. /\ a \in 1..(MAX_CONNECTIONS - 1) /\ a \in 0..MAX_CONNECTIONS /\ a # 0
        /\ a - 1 \in 0..(MAX_CONNECTIONS - 1)
        /\ a + 1 <= 1 + peers - (backlog - 1) /\ backlog - 1 \in 0..peers
    BY <1>2, PollNumbers
  <1>7. Entry(f, {"in"}, x) \in EntryType /\ Entry(f, {"in"}, x).fd = f
    <2>1. fds[a] \in EntryType
      BY <1>6 DEF PollInv, Arrays
    <2>2. x \in (SUBSET {"in", "out", "hup", "nval"}) \cup {Unset}
      BY <1>4, <2>1 DEF EntryType
    <2>3. {"in"} \in SUBSET {"in", "out"}
      OBVIOUS
    <2> QED
      BY <2>2, <2>3, <1>3 DEF Entry, EntryType
  <1>8. f # server_fd
    BY <1>3, PollAssumption DEF Fds, server_fd
  <1>9. /\ fds' \in [0..MAX_CONNECTIONS -> EntryType]
        /\ fds'[a].fd = f /\ \A k \in 0..MAX_CONNECTIONS : k # a => fds'[k] = fds[k]
    BY <1>4, <1>6, <1>7 DEF PollInv, Arrays
  <1>10. /\ client' = [k \in 0..(MAX_CONNECTIONS - 1) |-> client'[k]]
         /\ client'[a - 1] = [client[a - 1] EXCEPT !.client_fd = f]
         /\ \A k \in 0..(MAX_CONNECTIONS - 1) : k # a - 1 => client'[k] = client[k]
    BY <1>5, <1>6 DEF PollInv, Arrays
  <1>11. /\ IsPollClient(client'[a - 1]) /\ Held(client'[a - 1]) = Held(client[a - 1])
         /\ client'[a - 1].client_fd = f
    <2>1. IsPollClient(client[a - 1])
      BY <1>6 DEF PollInv, Arrays
    <2> QED
      BY <2>1, <1>3, <1>10, ClientAccepted
  <1>12. Arrays'
    <2>1. \A k \in 0..MAX_CONNECTIONS : fds'[k].fd = server_fd <=> k = 0
      BY <1>6, <1>8, <1>9 DEF PollInv, Arrays
    <2>2. \A k \in 0..(MAX_CONNECTIONS - 1) : IsPollClient(client'[k])
      BY <1>10, <1>11 DEF PollInv, Arrays
    <2> QED
      BY <1>9, <1>10, <2>1, <2>2 DEF Arrays
  <1>13. /\ \A g \in Fds : sock'[g] = IF g = f THEN NewSock ELSE sock[g]
         /\ sock' = [g \in Fds |-> sock'[g]]
    BY <1>5 DEF PollInv, Sockets
  <1>14. Sockets'
    BY <1>13, NewSockProps DEF PollInv, Sockets
  <1>15. Counts'
    <2>1. Cardinality(open') = Cardinality(open) + 1
      BY <1>3, <1>5, FS_AddElement
    <2>2. peers \in 0..MaxPeers /\ Cardinality(open) <= peers - backlog /\ open \subseteq Fds
      BY DEF PollInv, Counts
    <2>3. active_conns' \in 1..MAX_CONNECTIONS
      BY <1>5, <1>6, PollNumbers
    <2>4. Cardinality(open') <= peers' - backlog'
      BY <1>3, <1>5, <2>1, <2>2, PollNumbers
    <2>5. open' \subseteq Fds
      BY <1>3, <1>5, <2>2
    <2> QED
      BY <1>5, <1>6, <2>2, <2>3, <2>4, <2>5 DEF Counts
  <1>16. Loop'
    BY <1>2, <1>5, <1>6, ScanKeeps
  <1>17. Watched'
    <2>1. ASSUME NEW k \in 1..a PROVE client'[k - 1].client_fd = fds'[k].fd
      <3>1. CASE k = a
        BY <3>1, <1>9, <1>11
      <3>2. CASE k # a
        <4>1. k \in Active \ {0} /\ k - 1 \in 0..(MAX_CONNECTIONS - 1) /\ k - 1 # a - 1
              /\ k \in 0..MAX_CONNECTIONS
          BY <3>2, <1>6, PollNumbers DEF Active
        <4> QED
          BY <3>2, <4>1, <1>9, <1>10 DEF PollInv, Watched
      <3> QED
        BY <3>1, <3>2
    <2>2. ASSUME NEW g \in open' PROVE \E k \in 0..a : fds'[k].fd = g
      <3>1. CASE g = f
        BY <3>1, <1>6, <1>9
      <3>2. CASE g \in open
        <4>1. PICK k \in Active : fds[k].fd = g
          BY <3>2 DEF PollInv, Watched
        <4>2. k \in 0..a /\ k # a /\ k \in 0..MAX_CONNECTIONS
          BY <4>1, <1>6, PollNumbers DEF Active
        <4> QED
          BY <4>1, <4>2, <1>9
      <3> QED
        BY <3>1, <3>2, <1>5
    <2>3. Active' = 0..a
      BY <1>5, <1>6 DEF Active
    <2>4. Active' \ {0} = 1..a
      BY <2>3, <1>6
    <2> QED
      BY <2>1, <2>2, <2>3, <2>4 DEF Watched
  <1>18. Traced'
    <2>1. /\ \A k \in 0..(MAX_CONNECTIONS - 1) : Held(client[k]) \subseteq Taken
          /\ \A g \in Fds : Told(sock[g]) \subseteq Taken
      BY TakenHas DEF PollInv
    <2>2. \A k \in 0..(MAX_CONNECTIONS - 1) : Held(client'[k]) \subseteq Taken \cup {}
      BY <2>1, <1>6, <1>10, <1>11
    <2>3. \A g \in Fds : Told(sock'[g]) \subseteq Taken \cup {}
      BY <2>1, <1>13, NewSockProps
    <2>4. Taken' \subseteq Taken
      BY <2>2, <2>3, <1>12, TakenFrom
    <2>5. own \in [Fds -> SUBSET (1..sent)] /\ sent \in 0..MaxBytes /\ Taken \subseteq 1..sent
      BY DEF PollInv, Traced
    <2>6. \A g \in Fds : own'[g] = IF g = f THEN {} ELSE own[g]
      BY <1>5, <2>5
    <2>7. own' \in [Fds -> SUBSET (1..sent')] /\ sent' \in 0..MaxBytes
      BY <1>5, <2>5
    <2>8. ASSUME NEW g \in open' PROVE Bytes(sock'[g].inq) \subseteq own'[g]
      <3>1. CASE g = f
        BY <3>1, <1>3, <1>13, NewSockProps
      <3>2. CASE g # f
        <4>1. g \in open /\ g \in Fds
          BY <3>2, <1>5 DEF PollInv, Counts
        <4> QED
          BY <3>2, <4>1, <1>13, <2>6 DEF PollInv, Traced
      <3> QED
        BY <3>1, <3>2
    <2>9. \A g, h \in open' : g # h => own'[g] \cap own'[h] = {}
      BY <1>3, <1>5, <2>6 DEF PollInv, Traced, Counts
    <2>10. \A g \in open' \ overflowed' : own'[g] \cap Taken' = {}
      BY <1>3, <1>5, <2>4, <2>6 DEF PollInv, Traced, Counts
    <2>11. Taken' \subseteq 1..sent'
      BY <1>5, <2>4, <2>5
    <2> QED
      BY <2>7, <2>8, <2>9, <2>10, <2>11 DEF Traced
  <1> QED
    BY <1>12, <1>14, <1>15, <1>16, <1>17, <1>18 DEF PollInv

\* remove_conn, with the arrays as f and c before the call, where the descriptors
\* are those that the arrays had: every entry that it leaves, but the last, is that
\* of a client, and every descriptor but the closed one still has an entry.
LEMMA Removed ==
    ASSUME PollInv, AtConnection, NEW f \in [0..MAX_CONNECTIONS -> EntryType],
           \A k \in 0..MAX_CONNECTIONS : f[k].fd = fds[k].fd,
           NEW c, c = [k \in 0..(MAX_CONNECTIONS - 1) |-> c[k]],
           \A k \in 0..(MAX_CONNECTIONS - 1) :
               IsPollClient(c[k]) /\ c[k].client_fd = client[k].client_fd,
           RemoveConn(f, c)
    PROVE  /\ Arrays' /\ open' = open \ {fds[i].fd}
           /\ \A k \in 0..(MAX_CONNECTIONS - 1) :
                 \/ Held(client'[k]) = {}
                 \/ \E j \in 0..(MAX_CONNECTIONS - 1) : client'[k] = c[j]
           /\ \A k \in 1..(active_conns - 1) : client'[k - 1].client_fd = fds'[k].fd
           /\ \A g \in open' : \E k \in 0..(active_conns - 2) : fds'[k].fd = g
  <1> DEFINE a == active_conns
             z == [f[a] EXCEPT !.fd = -1, !.events = {}]
             m == MovedClients(c)
             Slots == 0..(MAX_CONNECTIONS - 1)
  <1>1. /\ a \in 1..MAX_CONNECTIONS /\ i \in 1..(a - 1) /\ MAX_CONNECTIONS \in Nat
        /\ i \in 0..MAX_CONNECTIONS /\ a \in 0..MAX_CONNECTIONS /\ i # a /\ i # 0 /\ a # 0
        /\ a - 1 \in 0..MAX_CONNECTIONS /\ a - 1 # 0
        /\ i - 1 \in Slots /\ a - 2 \in Slots /\ a - 1 \in Slots
    BY PollNumbers DEF AtConnection
  <1>2. /\ open' = open \ {f[i].fd}
        /\ fds' = [f EXCEPT ![i] = f[a - 1], ![a].fd = -1, ![a].events = {}]
        /\ client' = [m EXCEPT ![a - 1] = NoClient]
    BY DEF RemoveConn, Closed
  <1>3. z \in EntryType /\ z.fd = -1
    <2>1. f[a] \in EntryType
      BY <1>1
    <2>2. {} \in SUBSET {"in", "out"}
      OBVIOUS
    <2> QED
      BY <2>1, <2>2 DEF EntryType
  <1>4. /\ fds'[i] = f[a - 1] /\ fds'[a] = z
        /\ \A k \in 0..MAX_CONNECTIONS : k # i /\ k # a => fds'[k] = f[k]
        /\ fds' = [k \in 0..MAX_CONNECTIONS |-> fds'[k]]
    BY <1>1, <1>2
  <1> HIDE DEF z, m
  <1>5. /\ m = [k \in Slots |-> m[k]]
        /\ i = a - 1 => m = c
        /\ i # a - 1 => m[i - 1] = c[a - 2] /\ \A k \in Slots : k # i - 1 => m[k] = c[k]
    BY <1>1 DEF m, MovedClients
  <1>6. /\ client' = [k \in Slots |-> client'[k]] /\ client'[a - 1] = NoClient
        /\ \A k \in Slots : k # a - 1 => client'[k] = m[k]
    BY <1>1, <1>2, <1>5
  <1>7. \A k \in Slots : client'[k] = NoClient \/ \E j \in Slots : client'[k] = c[j]
    BY <1>1, <1>5, <1>6
  <1>8. \A k \in 0..MAX_CONNECTIONS : fds'[k] \in EntryType
    BY <1>1, <1>3, <1>4
  <1>9. fds' \in [0..MAX_CONNECTIONS -> EntryType]
    BY <1>4, <1>8
  <1>10. ASSUME NEW k \in 0..MAX_CONNECTIONS PROVE fds'[k].fd = server_fd <=> k = 0
    <2>1. \A j \in 0..MAX_CONNECTIONS : f[j].fd = server_fd <=> j = 0
      BY DEF PollInv, Arrays
    <2>2. CASE k = i
      BY <2>1, <2>2, <1>1, <1>4
    <2>3. CASE k = a
      BY <2>3, <1>1, <1>3, <1>4 DEF server_fd
    <2>4. CASE k # i /\ k # a
      BY <2>1, <2>4, <1>4
    <2> QED
      BY <2>2, <2>3, <2>4
  <1>11. \A k \in Slots : IsPollClient(client'[k])
    BY <1>7, NoClientProps
  <1>12. Arrays'
    BY <1>6, <1>9, <1>10, <1>11 DEF Arrays
  <1>13. open' = open \ {fds[i].fd}
    BY <1>1, <1>2
  <1>14. \A k \in 1..(a - 1) : k \in 0..MAX_CONNECTIONS /\ k - 1 \in Slots
                                /\ c[k - 1].client_fd = f[k].fd
    <2>1. \A k \in 1..(a - 1) : k \in 0..MAX_CONNECTIONS /\ k - 1 \in Slots /\ k \in Active \ {0}
      BY <1>1 DEF Active
    <2>2. \A k \in Active \ {0} : client[k - 1].client_fd = fds[k].fd
      BY DEF PollInv, Watched
    <2> QED
      BY <2>1, <2>2
  <1>15. ASSUME NEW k \in 1..(a - 1) PROVE client'[k - 1].client_fd = fds'[k].fd
    <2>1. k \in 0..MAX_CONNECTIONS /\ k - 1 \in Slots /\ k # a /\ k - 1 # a - 1
      BY <1>1, <1>14
    <2>2. client'[k - 1] = m[k - 1]
      BY <2>1, <1>6
    <2>3. CASE k # i
      <3>1. fds'[k] = f[k] /\ k - 1 # i - 1
        BY <2>1, <2>3, <1>1, <1>4
      <3>2. m[k - 1] = c[k - 1]
        BY <2>1, <3>1, <1>5
      <3> QED
        BY <2>2, <3>1, <3>2, <1>14
    <2>4. CASE k = i /\ i = a - 1
      <3>1. fds'[k] = f[k] /\ m[k - 1] = c[k - 1]
        BY <2>4, <1>4, <1>5
      <3> QED
        BY <2>2, <3>1, <1>14
    <2>5. CASE k = i /\ i # a - 1
      <3>1. fds'[k] = f[a - 1] /\ m[k - 1] = c[a - 2]
        BY <2>5, <1>4, <1>5
      <3>2. a - 1 \in 1..(a - 1) /\ (a - 1) - 1 = a - 2
        BY <1>1
      <3>3. c[(a - 1) - 1].client_fd = f[a - 1].fd
        BY <3>2, <1>14
      <3> QED
        BY <2>2, <3>1, <3>2, <3>3
    <2> QED
      BY <2>3, <2>4, <2>5
  <1>16. ASSUME NEW g \in open' PROVE \E k \in 0..(a - 2) : fds'[k].fd = g
    <2>1. g \in open /\ g # fds[i].fd
      BY <1>13
    <2>2. PICK k \in 0..(a - 1) : fds[k].fd = g
      BY <2>1 DEF PollInv, Watched, Active
    <2>3. k \in 0..MAX_CONNECTIONS /\ k # a /\ k # i /\ f[k].fd = g
      BY <2>1, <2>2, <1>1
    <2>4. CASE k = a - 1
      <3>1. i \in 0..(a - 2)
        BY <2>3, <2>4, <1>1
      <3>2. fds'[i].fd = g
        BY <2>3, <2>4, <1>4
      <3> QED
        BY <3>1, <3>2
    <2>5. CASE k # a - 1
      <3>1. k \in 0..(a - 2)
        BY <2>2, <2>5, <1>1
      <3>2. fds'[k].fd = g
        BY <2>3, <1>4
      <3> QED
        BY <3>1, <3>2
    <2> QED
      BY <2>4, <2>5
  <1> HIDE DEF a
  <1>17. \A k \in Slots : Held(client'[k]) = {} \/ \E j \in Slots : client'[k] = c[j]
    BY <1>7, NoClientProps
  <1> QED
    BY <1>12, <1>13, <1>15, <1>16, <1>17 DEF a

\* A closed descriptor leaves the others open.
LEMMA ClosedCounts ==
    ASSUME PollInv, NEW f, open' = open \ {f}
    PROVE  open' \subseteq Fds /\ Cardinality(open') <= peers - backlog
  <1>1. open \subseteq Fds /\ Cardinality(open) <= peers - backlog /\ MaxPeers \in Nat
    BY PollNumbers DEF PollInv, Counts
  <1>2. IsFiniteSet(open)
    <2>1. IsFiniteSet(Fds)
      BY <1>1, FS_Interval DEF Fds
    <2> QED
      BY <1>1, <2>1, FS_Subset
  <1>3. Cardinality(open') <= Cardinality(open)
    BY <1>2, FS_Subset
  <1>4. Cardinality(open') \in Nat /\ Cardinality(open) \in Nat
    <2>1. IsFiniteSet(open')
      BY <1>2, FS_Subset
    <2> QED
      BY <2>1, <1>2, FS_CardinalityType
  <1> QED
    BY <1>1, <1>3, <1>4, PollNumbers

\* The array of entries after events of one entry were set.
LEMMA EventsSet ==
    ASSUME PollInv, NEW j \in 0..MAX_CONNECTIONS, NEW x \in SUBSET {"in", "out"},
           NEW e, e = [fds EXCEPT ![j].events = x] \/ e = fds
    PROVE  /\ e \in [0..MAX_CONNECTIONS -> EntryType]
           /\ \A k \in 0..MAX_CONNECTIONS : e[k].fd = fds[k].fd
  <1>1. fds \in [0..MAX_CONNECTIONS -> EntryType]
    BY DEF PollInv, Arrays
  <1>2. CASE e = fds
    BY <1>1, <1>2
  <1>3. CASE e = [fds EXCEPT ![j].events = x]
    <2>1. fds[j] \in EntryType
      BY <1>1
    <2>2. [fds[j] EXCEPT !.events = x] \in EntryType /\ [fds[j] EXCEPT !.events = x].fd = fds[j].fd
      BY <2>1 DEF EntryType
    <2>3. \A k \in 0..MAX_CONNECTIONS :
             e[k] = IF k = j THEN [fds[j] EXCEPT !.events = x] ELSE fds[k]
      BY <1>1, <1>3
    <2>4. e = [k \in 0..MAX_CONNECTIONS |-> e[k]]
      BY <1>1, <1>3
    <2>5. \A k \in 0..MAX_CONNECTIONS : e[k] \in EntryType /\ e[k].fd = fds[k].fd
      BY <1>1, <2>2, <2>3
    <2> QED
      BY <2>4, <2>5
  <1> QED
    BY <1>2, <1>3

\* A step in which one connection is removed, or none, and the server takes over X.
LEMMA RemovedInv ==
    ASSUME PollInv, AtConnection, NEW e \in [0..MAX_CONNECTIONS -> EntryType],
           \A k \in 0..MAX_CONNECTIONS : e[k].fd = fds[k].fd,
           NEW c, c = [k \in 0..(MAX_CONNECTIONS - 1) |-> c[k]],
           \A k \in 0..(MAX_CONNECTIONS - 1) :
               IsPollClient(c[k]) /\ c[k].client_fd = client[k].client_fd,
           NEW X \in SUBSET (1..sent),
           \A k \in 0..(MAX_CONNECTIONS - 1) : Held(c[k]) \subseteq Taken \cup X,
           Sockets',
           \A g \in Fds : /\ Told(sock'[g]) \subseteq Taken \cup X
                          /\ Bytes(sock'[g].inq) \subseteq Bytes(sock[g].inq),
           overflowed \subseteq overflowed', UNCHANGED peerVars,
           \A g \in open' \ overflowed' : own[g] \cap X = {},
           \/ RemoveConn(e, c) /\ active_conns' \in {active_conns, active_conns - 1}
           \/ fds' = e /\ client' = c /\ open' = open /\ active_conns' = active_conns,
           Loop'
    PROVE  PollInv'
  <1> DEFINE a == active_conns
             Slots == 0..(MAX_CONNECTIONS - 1)
  <1>1. UNCHANGED <<peers, backlog, sent, newlines, own>>
    BY DEF peerVars
  <1>2. a \in 1..MAX_CONNECTIONS /\ i \in 1..(a - 1) /\ MAX_CONNECTIONS \in Nat
    BY PollNumbers DEF AtConnection
  <1>3. CASE RemoveConn(e, c) /\ active_conns' \in {a, a - 1}
    <2>1. /\ Arrays' /\ open' = open \ {fds[i].fd}
          /\ \A k \in Slots : Held(client'[k]) = {} \/ \E j \in Slots : client'[k] = c[j]
          /\ \A k \in 1..(a - 1) : client'[k - 1].client_fd = fds'[k].fd
          /\ \A g \in open' : \E k \in 0..(a - 2) : fds'[k].fd = g
      BY <1>3, Removed
    <2>2. Watched'
      <3>1. Active' \subseteq 0..(a - 1) /\ 0..(a - 2) \subseteq Active'
        BY <1>2, <1>3 DEF Active
      <3>2. Active' \ {0} \subseteq 1..(a - 1)
        BY <3>1, <1>2
      <3> QED
        BY <2>1, <3>1, <3>2 DEF Watched
    <2>3. Counts'
      <3>1. open' \subseteq Fds /\ Cardinality(open') <= peers - backlog
        BY <2>1, ClosedCounts
      <3>2. active_conns' \in 1..MAX_CONNECTIONS /\ active_conns' <= 1 + peers - backlog
        BY <1>2, <1>3, PollNumbers
      <3> QED
        BY <1>1, <3>1, <3>2, PollNumbers DEF Counts
    <2>4. \A k \in Slots : Held(client'[k]) \subseteq Taken \cup X
      BY <2>1
    <2>5. Taken' \subseteq Taken \cup X
      BY <2>1, <2>4, TakenFrom
    <2>6. \A g \in open' : Bytes(sock'[g].inq) \subseteq own[g]
      BY <2>1 DEF PollInv, Traced, Counts
    <2>7. Traced'
      BY <1>1, <2>1, <2>5, <2>6, TracedKept DEF PollInv
    <2> QED
      BY <2>1, <2>2, <2>3, <2>7 DEF PollInv
  <1>4. CASE fds' = e /\ client' = c /\ open' = open /\ active_conns' = a
    <2>1. Arrays'
      <3>1. \A k \in 0..MAX_CONNECTIONS : fds[k].fd = server_fd <=> k = 0
        BY DEF PollInv, Arrays
      <3> QED
        BY <1>4, <3>1 DEF Arrays
    <2>2. Watched'
      <3>1. Active' = Active /\ Active \subseteq 0..MAX_CONNECTIONS
        BY <1>2, <1>4 DEF Active
      <3>2. \A k \in Active \ {0} : k - 1 \in Slots
        BY <1>2 DEF Active
      <3> QED
        BY <1>4, <3>1, <3>2 DEF PollInv, Watched
    <2>3. Counts'
      BY <1>1, <1>4 DEF PollInv, Counts
    <2>4. Taken' \subseteq Taken \cup X
      BY <1>4, <2>1, TakenFrom
    <2>5. \A g \in open' : Bytes(sock'[g].inq) \subseteq own[g]
      BY <1>4 DEF PollInv, Traced, Counts
    <2>6. Traced'
      BY <1>1, <1>4, <2>4, <2>5, TracedKept DEF PollInv
    <2> QED
      BY <1>4, <2>1, <2>2, <2>3, <2>6 DEF PollInv
  <1> QED
    BY <1>3, <1>4

\* handle_recv.
LEMMA HandleRecvInv == PollInv /\ HandleRecv => PollInv'
  <1> SUFFICES ASSUME PollInv, HandleRecv PROVE PollInv'
    OBVIOUS
  <1> DEFINE f == client[i - 1].client_fd
             k == client[i - 1]
             Slots == 0..(MAX_CONNECTIONS - 1)
  <1>1. AtConnection /\ ~received /\ UNCHANGED <<active_conns, peerVars>>
    BY DEF HandleRecv
  <1>2. /\ i \in 1..(active_conns - 1) /\ i - 1 \in Slots /\ i \in 0..MAX_CONNECTIONS
        /\ IsPollClient(k) /\ fds[i] \in EntryType /\ f = fds[i].fd /\ pc = "scan"
    BY <1>1, AtEntry DEF AtConnection
  <1>3. PICK r \in RecvResults(f) :
           LET h    == Received(k, r, newlines, 0)
               asks == r.ret = "data" /\ h.ret = 0 /\ Unsent(h.client) # <<>>
           IN  /\ sock' = IF f \in open THEN [sock EXCEPT ![f] = AfterRecv(@, r)] ELSE sock
               /\ overflowed' = IF h.full THEN overflowed \cup {f} ELSE overflowed
               /\ AfterResult(h.ret,
                              IF asks THEN [fds EXCEPT ![i] = WantOut(@)] ELSE fds,
                              [client EXCEPT ![i - 1] = h.client])
    BY DEF HandleRecv
  <1> DEFINE h    == Received(k, r, newlines, 0)
             asks == r.ret = "data" /\ h.ret = 0 /\ Unsent(h.client) # <<>>
             e    == IF asks THEN [fds EXCEPT ![i] = WantOut(@)] ELSE fds
             c    == [client EXCEPT ![i - 1] = h.client]
             X    == Bytes(r.bytes)
  <1>4. /\ sock' = IF f \in open THEN [sock EXCEPT ![f] = AfterRecv(@, r)] ELSE sock
        /\ overflowed' = IF h.full THEN overflowed \cup {f} ELSE overflowed
        /\ AfterResult(h.ret, e, c)
    BY <1>3
  <1>5. /\ open \subseteq Fds /\ \A g \in Fds : IsSock(sock[g]) /\ SockType(sock[g])
        /\ own \in [Fds -> SUBSET (1..sent)]
        /\ \A g \in open : Bytes(sock[g].inq) \subseteq own[g]
        /\ \A g, q \in open : g # q => own[g] \cap own[q] = {}
    BY DEF PollInv, Counts, Sockets, Traced
  <1>6. ASSUME f \in open
        PROVE  /\ r.ret \in {"data", "eof", "error"} /\ r.bytes \in Stream
               /\ r.ret # "data" => X = {}
               /\ IsSock(AfterRecv(sock[f], r)) /\ SockType(AfterRecv(sock[f], r))
               /\ Told(AfterRecv(sock[f], r)) = Told(sock[f])
               /\ Bytes(sock[f].inq) = X \cup Bytes(AfterRecv(sock[f], r).inq)
    <2>1. PICK g \in open : g = f
      BY <1>6
    <2>2. IsSock(sock[g]) /\ SockType(sock[g]) /\ r \in RecvResults(g)
      BY <2>1, <1>5, <1>3
    <2>3. /\ r.ret \in {"data", "eof", "error"} /\ r.bytes \in Stream
          /\ r.ret # "data" => X = {}
          /\ IsSock(AfterRecv(sock[g], r)) /\ SockType(AfterRecv(sock[g], r))
          /\ Told(AfterRecv(sock[g], r)) = Told(sock[g])
          /\ Bytes(sock[g].inq) = X \cup Bytes(AfterRecv(sock[g], r).inq)
      BY <2>2, RecvResultOpen
    <2> QED
      BY <2>1, <2>3
  <1>7. ASSUME f \notin open
        PROVE  r.ret = "error" /\ r.bytes = <<>> /\ r.bytes \in Stream /\ X = {}
    <2>1. r = [ret |-> "error", bytes |-> <<>>]
      BY <1>3, <1>7 DEF RecvResults
    <2>2. r.ret = "error" /\ r.bytes = <<>>
      BY <2>1
    <2> QED
      BY <2>2, BytesEmpty, EmptySeq DEF Stream
  <1>8. r.ret \in {"data", "eof", "error"} /\ r.bytes \in Stream /\ (r.ret # "data" => X = {})
    BY <1>6, <1>7
  <1>9. /\ IsPollClient(h.client) /\ h.client.client_fd = f
        /\ h.full \in BOOLEAN /\ h.ret \in {-1, 0}
        /\ Held(h.client) \subseteq Held(k) \cup X
        /\ r.ret = "data" /\ h.ret = -1 => h.full
        /\ r.ret = "error" => h.ret = -1
    <2>1. PICK nl : nl = newlines
      OBVIOUS
    <2> QED
      BY <1>2, <1>8, <2>1, HeldReceived
  <1> HIDE DEF h, X
  <1>10. /\ e \in [0..MAX_CONNECTIONS -> EntryType]
         /\ \A j \in 0..MAX_CONNECTIONS : e[j].fd = fds[j].fd
    <2>1. fds[i].events \cup {"out"} \in SUBSET {"in", "out"}
      BY <1>2 DEF EntryType
    <2>2. fds[i] \in EntryType /\ WantOut(fds[i]) = [fds[i] EXCEPT !.events = fds[i].events \cup {"out"}]
      BY <1>2 DEF WantOut
    <2>3. [fds EXCEPT ![i] = WantOut(@)]
            = [fds EXCEPT ![i].events = fds[i].events \cup {"out"}]
      BY <2>2
    <2>4. e = [fds EXCEPT ![i].events = fds[i].events \cup {"out"}] \/ e = fds
      BY <2>3
    <2> HIDE DEF e
    <2> QED
      BY <2>1, <2>4, <1>2, EventsSet
  <1>11. /\ c = [j \in Slots |-> c[j]]
         /\ \A j \in Slots : /\ c[j] = IF j = i - 1 THEN h.client ELSE client[j]
                             /\ IsPollClient(c[j]) /\ c[j].client_fd = client[j].client_fd
    <2>1. PICK j, l : j = i - 1 /\ l = h.client
      OBVIOUS
    <2>2. /\ c = [client EXCEPT ![j] = l] /\ j \in Slots /\ IsPollClient(l)
          /\ l.client_fd = client[j].client_fd
      BY <2>1, <1>2, <1>9
    <2> HIDE DEF c
    <2>3. /\ c = [m \in Slots |-> c[m]]
          /\ \A m \in Slots : /\ c[m] = IF m = j THEN l ELSE client[m]
                              /\ IsPollClient(c[m]) /\ c[m].client_fd = client[m].client_fd
      <3>1. /\ client = [m \in Slots |-> client[m]]
            /\ \A m \in Slots : IsPollClient(client[m])
        BY DEF PollInv, Arrays
      <3>2. /\ c = [m \in Slots |-> c[m]]
            /\ \A m \in Slots : c[m] = IF m = j THEN l ELSE client[m]
        BY <2>2, <3>1
      <3> QED
        BY <2>2, <3>1, <3>2
    <2> QED
      BY <2>1, <2>3
  <1> HIDE DEF e, c
  <1>12. \A j \in Slots : Held(c[j]) \subseteq Taken \cup X
    <2>1. \A j \in Slots : Held(client[j]) \subseteq Taken
      BY TakenHas DEF PollInv
    <2> QED
      BY <2>1, <1>2, <1>9, <1>11
  <1>13. X \in SUBSET (1..sent) /\ (f \in open => X \subseteq own[f]) /\ (f \notin open => X = {})
    BY <1>5, <1>6, <1>7
  <1>14. \A g \in Fds : sock'[g] = IF g = f /\ f \in open THEN AfterRecv(sock[f], r) ELSE sock[g]
    BY <1>4, <1>5 DEF PollInv, Sockets
  <1>15. Sockets'
    <2>1. sock' = [g \in Fds |-> sock'[g]]
      BY <1>4 DEF PollInv, Sockets
    <2> QED
      BY <2>1, <1>5, <1>6, <1>14 DEF Sockets
  <1>16. \A g \in Fds : /\ Told(sock'[g]) \subseteq Taken \cup X
                        /\ Bytes(sock'[g].inq) \subseteq Bytes(sock[g].inq)
    <2>1. \A g \in Fds : Told(sock[g]) \subseteq Taken
      BY TakenHas DEF PollInv
    <2> QED
      BY <2>1, <1>6, <1>14
  <1>17. overflowed \subseteq overflowed' /\ UNCHANGED peerVars /\ active_conns' = active_conns
    BY <1>1, <1>4
  <1>18. CASE h.ret = 0
    <2>1. RemoveConn(e, c) /\ ScanAt(i, active_conns)
      BY <1>4, <1>18 DEF AfterResult
    <2>2. Loop'
      BY <2>1, <1>2, <1>17, PollNumbers, ScanKeeps
    <2>3. open' = open \ {f}
      BY <2>1, <1>1, <1>2, <1>10, <1>11, Removed
    <2>4. \A g \in open' \ overflowed' : own[g] \cap X = {}
      BY <2>3, <1>5, <1>13
    <2> QED
      BY <2>1, <2>2, <2>4, <1>1, <1>10, <1>11, <1>12, <1>13, <1>15, <1>16, <1>17, RemovedInv
  <1>19. CASE h.ret = -1
    <2>1. /\ fds' = e /\ client' = c /\ received' = TRUE /\ open' = open
          /\ pc' = pc /\ i' = i
      BY <1>4, <1>19 DEF AfterResult, AfterResult_Keep
    <2>2. Loop'
      <3>1. i' \in Active' /\ i' # 0
        BY <2>1, <1>2, <1>17 DEF Active
      <3>2. pc' \in {"poll", "scan"} /\ pc' # "poll" /\ received' \in BOOLEAN
        BY <2>1, <1>2
      <3> QED
        BY <3>1, <3>2 DEF Loop
    <2>3. \A g \in open' \ overflowed' : own[g] \cap X = {}
      <3>1. CASE r.ret = "data"
        <4>1. overflowed' = overflowed \cup {f}
          BY <3>1, <1>4, <1>9, <1>19
        <4> QED
          BY <4>1, <2>1, <1>5, <1>13
      <3>2. CASE r.ret # "data"
        BY <3>2, <1>8
      <3> QED
        BY <3>1, <3>2
    <2> QED
      BY <2>1, <2>2, <2>3, <1>1, <1>10, <1>11, <1>12, <1>13, <1>15, <1>16, <1>17, RemovedInv
  <1> QED
    BY <1>9, <1>18, <1>19

\* handle_send and the hang-up.
LEMMA HandleRestInv == PollInv /\ HandleRest => PollInv'
  <1> SUFFICES ASSUME PollInv, HandleRest PROVE PollInv'
    OBVIOUS
  <1> DEFINE k     == client[i - 1]
             sends == /\ "out" \in fds[i].revents /\ Unsent(k) # <<>>
                      /\ k.client_fd \in open /\ ~sock[k.client_fd].rst
             n     == SendCount(sock[k.client_fd], Unsent(k))
             c     == IF sends THEN [client EXCEPT ![i - 1] = AfterSending(k, n)] ELSE client
             e     == IF sends /\ n = Len(Unsent(k))
                      THEN [fds EXCEPT ![i].events = @ \ {"out"}] ELSE fds
             Slots == 0..(MAX_CONNECTIONS - 1)
  <1>1. /\ AtConnection /\ UNCHANGED <<peerVars, overflowed>>
        /\ sock' = IF sends THEN [sock EXCEPT ![k.client_fd] = AfterSend(@, Unsent(k))] ELSE sock
        /\ IF "hup" \in fds[i].revents
           THEN RemoveConn(e, c) /\ active_conns' = Remaining /\ ScanAt(i, Remaining)
           ELSE /\ fds' = e /\ client' = c /\ ScanAt(i + 1, active_conns)
                /\ UNCHANGED <<open, active_conns>>
    BY DEF HandleRest
  <1>2. /\ i \in 1..(active_conns - 1) /\ i - 1 \in Slots /\ i \in 0..MAX_CONNECTIONS
        /\ IsPollClient(k) /\ fds[i] \in EntryType
    BY <1>1, AtEntry
  <1>3. /\ open \subseteq Fds /\ \A g \in Fds : IsSock(sock[g]) /\ SockType(sock[g])
        /\ \A j \in Slots : IsPollClient(client[j])
        /\ client = [j \in Slots |-> client[j]]
    BY DEF PollInv, Counts, Sockets, Arrays
  <1>4. /\ \A j \in Slots : Held(client[j]) \subseteq Taken
        /\ \A g \in Fds : Told(sock[g]) \subseteq Taken
    BY TakenHas DEF PollInv
  <1>5. /\ e \in [0..MAX_CONNECTIONS -> EntryType]
        /\ \A j \in 0..MAX_CONNECTIONS : e[j].fd = fds[j].fd
    <2>1. fds[i].events \ {"out"} \in SUBSET {"in", "out"}
      BY <1>2 DEF EntryType
    <2>2. [fds EXCEPT ![i].events = @ \ {"out"}]
            = [fds EXCEPT ![i].events = fds[i].events \ {"out"}]
      OBVIOUS
    <2>3. e = [fds EXCEPT ![i].events = fds[i].events \ {"out"}] \/ e = fds
      BY <2>2
    <2> HIDE DEF e
    <2> QED
      BY <2>1, <2>3, <1>2, EventsSet
  <1> HIDE DEF e
  <1>6. ASSUME sends
        PROVE  /\ IsPollClient(AfterSending(k, n)) /\ AfterSending(k, n).client_fd = k.client_fd
               /\ Held(AfterSending(k, n)) \subseteq Held(k)
               /\ IsSock(AfterSend(sock[k.client_fd], Unsent(k)))
               /\ SockType(AfterSend(sock[k.client_fd], Unsent(k)))
               /\ AfterSend(sock[k.client_fd], Unsent(k)).inq = sock[k.client_fd].inq
               /\ Told(AfterSend(sock[k.client_fd], Unsent(k)))
                    \subseteq Told(sock[k.client_fd]) \cup Held(k)
    <2>1. PICK l, s : l = k /\ s = sock[k.client_fd]
      OBVIOUS
    <2>2. IsPollClient(l) /\ IsSock(s) /\ SockType(s)
      BY <1>2, <1>3, <1>6, <2>1
    <2>3. LET q == Unsent(l)
              m == AfterSending(l, SendCount(s, q))
              t == AfterSend(s, q)
          IN  /\ IsPollClient(m) /\ m.client_fd = l.client_fd /\ Held(m) \subseteq Held(l)
              /\ IsSock(t) /\ SockType(t) /\ t.inq = s.inq
              /\ Told(t) \subseteq Told(s) \cup Held(l)
      BY <2>2, HeldSent
    <2> QED
      BY <2>1, <2>3
  <1>7. /\ c = [j \in Slots |-> c[j]]
        /\ \A j \in Slots : /\ IsPollClient(c[j]) /\ c[j].client_fd = client[j].client_fd
                            /\ Held(c[j]) \subseteq Taken
    <2>1. CASE sends
      <3>1. c = [client EXCEPT ![i - 1] = AfterSending(k, n)]
        BY <2>1
      <3> DEFINE l == AfterSending(k, n)
      <3>2. IsPollClient(l) /\ l.client_fd = client[i - 1].client_fd /\ Held(l) \subseteq Held(k)
        BY <2>1, <1>6
      <3> HIDE DEF c, l
      <3>3. /\ c = [j \in Slots |-> c[j]]
            /\ \A j \in Slots : /\ c[j] = IF j = i - 1 THEN l ELSE client[j]
                                /\ IsPollClient(c[j]) /\ c[j].client_fd = client[j].client_fd
        <4>1. PICK j, q : j = i - 1 /\ q = l
          OBVIOUS
        <4>2. /\ c = [client EXCEPT ![j] = q] /\ j \in Slots /\ IsPollClient(q)
              /\ q.client_fd = client[j].client_fd
          BY <4>1, <3>1, <3>2, <1>2 DEF l
        <4>3. /\ c = [m \in Slots |-> c[m]]
              /\ \A m \in Slots : /\ c[m] = IF m = j THEN q ELSE client[m]
                                  /\ IsPollClient(c[m]) /\ c[m].client_fd = client[m].client_fd
          <5>1. /\ c = [m \in Slots |-> c[m]]
                /\ \A m \in Slots : c[m] = IF m = j THEN q ELSE client[m]
            BY <4>2, <1>3
          <5> QED
            BY <4>2, <5>1, <1>3
        <4> QED
          BY <4>1, <4>3
      <3> QED
        BY <3>2, <3>3, <1>2, <1>4
    <2>2. CASE ~sends
      BY <2>2, <1>3, <1>4
    <2> QED
      BY <2>1, <2>2
  <1>8. /\ Sockets'
        /\ \A g \in Fds : Told(sock'[g]) \subseteq Taken /\ sock'[g].inq = sock[g].inq
    <2>1. CASE sends
      <3>1. /\ sock' = [g \in Fds |-> sock'[g]]
            /\ \A g \in Fds : sock'[g] = IF g = k.client_fd
                                         THEN AfterSend(sock[k.client_fd], Unsent(k)) ELSE sock[g]
        BY <2>1, <1>1 DEF PollInv, Sockets
      <3>2. Held(k) \subseteq Taken /\ k.client_fd \in Fds
        BY <2>1, <1>2, <1>3, <1>4
      <3> DEFINE t == AfterSend(sock[k.client_fd], Unsent(k))
      <3>3. /\ IsSock(t) /\ SockType(t) /\ t.inq = sock[k.client_fd].inq
            /\ Told(t) \subseteq Taken
        BY <2>1, <3>2, <1>4, <1>6
      <3> HIDE DEF t
      <3> QED
        BY <3>1, <3>3, <1>3, <1>4 DEF Sockets, t
    <2>2. CASE ~sends
      <3>1. sock' = sock
        BY <2>2, <1>1
      <3> QED
        BY <3>1, <1>4 DEF PollInv, Sockets
    <2> QED
      BY <2>1, <2>2
  <1> HIDE DEF sends, c
  <1>9. /\ \A j \in Slots : Held(c[j]) \subseteq Taken \cup {}
        /\ \A g \in Fds : /\ Told(sock'[g]) \subseteq Taken \cup {}
                          /\ Bytes(sock'[g].inq) \subseteq Bytes(sock[g].inq)
        /\ \A g \in open' \ overflowed' : own[g] \cap {} = {}
        /\ overflowed \subseteq overflowed' /\ UNCHANGED peerVars
        /\ {} \in SUBSET (1..sent)
    BY <1>1, <1>7, <1>8
  <1>10. CASE "hup" \in fds[i].revents
    <2>1. /\ RemoveConn(e, c) /\ active_conns' = active_conns - 1
          /\ ScanAt(i, active_conns - 1)
      BY <1>1, <1>10 DEF Remaining
    <2>2. Loop'
      BY <2>1, <1>2, PollNumbers, ScanKeeps
    <2> QED
      BY <2>1, <2>2, <1>1, <1>5, <1>7, <1>8, <1>9, RemovedInv
  <1>11. CASE "hup" \notin fds[i].revents
    <2>1. /\ fds' = e /\ client' = c /\ open' = open /\ active_conns' = active_conns
          /\ ScanAt(i + 1, active_conns)
      BY <1>1, <1>11
    <2>2. Loop'
      BY <2>1, <1>2, PollNumbers, ScanKeeps
    <2> QED
      BY <2>1, <2>2, <1>1, <1>5, <1>7, <1>8, <1>9, RemovedInv
  <1> QED
    BY <1>10, <1>11

-----------------------------------------------------------------------------
(* The theorems.                                                           *)

\* Every step keeps the invariant.
LEMMA PollNextInv == PollInv /\ [Next]_vars => PollInv'
  <1> SUFFICES ASSUME PollInv, [Next]_vars PROVE PollInv'
    OBVIOUS
  <1>1. CASE Connect
    BY <1>1, ConnectInv
  <1>2. ASSUME NEW f \in Fds, Fin(f) \/ Reset(f) \/ Read(f) PROVE PollInv'
    BY <1>2, FinInv, ResetInv, ReadInv
  <1>3. ASSUME NEW f \in Fds, NEW n \in 1..MaxBytes, Send(f, n) PROVE PollInv'
    BY <1>3, SendInv
  <1>4. CASE Poll
    BY <1>4, PollStepInv
  <1>5. CASE Accept
    BY <1>5, AcceptInv
  <1>6. CASE AcceptFails
    BY <1>6, PassInv DEF AcceptFails
  <1>7. CASE Skip
    BY <1>7, PassInv DEF Skip
  <1>8. CASE HandleRecv
    BY <1>8, HandleRecvInv
  <1>9. CASE HandleRest
    BY <1>9, HandleRestInv
  <1>10. CASE UNCHANGED vars
    <2>1. UNCHANGED <<fds, client, active_conns, open, pc, i, received, peers, backlog, sent,
                      newlines, own, sock, overflowed>>
      BY <1>10 DEF vars, arrays, loopVars, peerVars
    <2>2. Arrays' /\ Sockets' /\ Counts' /\ Loop' /\ Watched'
      BY <2>1 DEF PollInv, Arrays, Sockets, Counts, Loop, Watched, Active
    <2>3. Traced'
      BY <2>1, TracedSame DEF PollInv
    <2> QED
      BY <2>2, <2>3 DEF PollInv
  <1> QED
    BY <1>1, <1>2, <1>3, <1>4, <1>5, <1>6, <1>7, <1>8, <1>9, <1>10 DEF Next, Server

\* The inductive invariant holds in every state.
THEOREM PollInvariant == Spec => []PollInv
  BY PollInitInv, PollNextInv, PTL DEF Spec

\* The invariant implies Inv.
LEMMA PollInvImpliesInv == PollInv => Inv
  <1> SUFFICES ASSUME PollInv PROVE TypeOK
    BY DEF PollInv, Inv
  <1>1. DOMAIN fds = 0..MAX_CONNECTIONS /\ DOMAIN client = 0..(MAX_CONNECTIONS - 1)
    BY DEF PollInv, Arrays
  <1>2. ASSUME NEW k \in 0..MAX_CONNECTIONS
        PROVE  /\ fds[k].fd \in {-1, server_fd} \cup Fds
               /\ fds[k].events \subseteq {"in", "out"}
               /\ fds[k].revents \subseteq {"in", "out", "hup", "nval"} \/ fds[k].revents = Unset
    <2>1. fds[k] \in EntryType
      BY DEF PollInv, Arrays
    <2> QED
      BY <2>1 DEF EntryType
  <1>3. \A k \in 0..(MAX_CONNECTIONS - 1) : BufferType(client[k]) /\ client[k].client_fd \in {-1} \cup Fds
    BY DEF PollInv, Arrays, IsPollClient
  <1>4. /\ active_conns \in 1..MAX_CONNECTIONS /\ open \subseteq Fds
        /\ peers \in 0..MaxPeers /\ backlog \in 0..peers
    BY DEF PollInv, Counts
  <1>5. pc \in {"poll", "scan"} /\ i \in Active /\ received \in BOOLEAN
    BY DEF PollInv, Loop
  <1>6. sent \in 0..MaxBytes /\ \A f \in Fds : SockType(sock[f])
    BY DEF PollInv, Traced, Sockets
  <1> QED
    BY <1>1, <1>2, <1>3, <1>4, <1>5, <1>6 DEF TypeOK

\* The invariant implies NotAnswered.
LEMMA PollInvImpliesNotAnswered == PollInv => NotAnswered
  <1> SUFFICES ASSUME PollInv, NEW f \in open \ overflowed, NEW b \in own[f],
                      NEW n \in 1..Len(sock[f].got \o sock[f].outq)
               PROVE  (sock[f].got \o sock[f].outq)[n] # b
    BY DEF NotAnswered
  <1>1. f \in Fds /\ SockType(sock[f]) /\ own[f] \cap Taken = {}
    BY DEF PollInv, Counts, Sockets, Traced
  <1>2. Told(sock[f]) \subseteq Taken /\ Told(sock[f]) = Bytes(sock[f].got \o sock[f].outq)
    BY <1>1, TakenHas, ToldType DEF PollInv
  <1>3. (sock[f].got \o sock[f].outq)[n] \in Taken
    BY <1>2 DEF Bytes
  <1> QED
    BY <1>1, <1>3

\* Whatever is removed and moved, indices stay in the arrays, the two arrays belong
\* together, and every open connection is watched (lines 144-160 and 208-231).
THEOREM PollInvTheorem == Spec => []Inv
  BY PollInvariant, PollInvImpliesInv, PTL

\* No connection is answered, but those whose requests a full buffer cut (line 217).
THEOREM NotAnsweredTheorem == Spec => []NotAnswered
  BY PollInvariant, PollInvImpliesNotAnswered, PTL
-----------------------------------------------------------------------------
(* The two servers of MCServersV1.                                         *)

\* What SelectServerV1_proof proves, of the select server that the run checks: it is
\* the same module with the same substitution as Sel.
SelProof == INSTANCE SelectServerV1_proof WITH
              MsgCap <- SelMsgCap, SendCap <- SelSendCap,
              MAX_CONNECTIONS <- SelMaxConnections, MaxFd <- SelMaxFd,
              MaxPeers <- SelMaxPeers, MaxSent <- SelMaxSent,
              client <- selClient, pc <- selPc, i <- selI, received <- selReceived,
              peers <- selPeers, backlog <- selBacklog, sock <- selSock,
              newlines <- selNewlines, overflowed <- selOverflowed

\* What recv and send do is the same in both.
LEMMA SelBuffersSame ==
    /\ \A k, r, nl, eofRet : SelProof!Received(k, r, nl, eofRet) = Sel!Received(k, r, nl, eofRet)
    /\ \A k : SelProof!Unsent(k) = Sel!Unsent(k)
    /\ \A k, n : SelProof!AfterSending(k, n) = Sel!AfterSending(k, n)
    /\ \A n, q : SelProof!Rest(n, q) = Sel!Rest(n, q)
    /\ \A s, max : SelProof!Recv(s, max) = Sel!Recv(s, max)
    /\ \A s, r : SelProof!AfterRecv(s, r) = Sel!AfterRecv(s, r)
    /\ \A s, q : SelProof!SendCount(s, q) = Sel!SendCount(s, q)
    /\ \A s, q : SelProof!AfterSend(s, q) = Sel!AfterSend(s, q)
    /\ \A s : SelProof!Readable(s) = Sel!Readable(s) /\ SelProof!Writable(s) = Sel!Writable(s)
    /\ SelProof!NewSock = Sel!NewSock
  BY DEF Sel!Received, SelProof!Received, Sel!NotStored, SelProof!NotStored,
         Sel!Stored, SelProof!Stored, Sel!MessageTooLong, SelProof!MessageTooLong,
         Sel!Fitting, SelProof!Fitting, Sel!SendBufFull, SelProof!SendBufFull,
         Sel!LineEnds, SelProof!LineEnds, Sel!Max, SelProof!Max, Sel!First,
         SelProof!First, Sel!Rest, SelProof!Rest, Sel!Unsent, SelProof!Unsent,
         Sel!AfterSending, SelProof!AfterSending, Sel!Emptied, SelProof!Emptied,
         Sel!Recv, SelProof!Recv, Sel!AfterRecv, SelProof!AfterRecv, Sel!Least,
         SelProof!Least, Sel!SendCount, SelProof!SendCount, Sel!Room,
         SelProof!Room, Sel!AfterSend, SelProof!AfterSend, Sel!Readable,
         SelProof!Readable, Sel!Writable, SelProof!Writable, Sel!NewSock,
         SelProof!NewSock

\* So are what a peer does and what the loop does between two descriptors.
LEMMA SelStepsSame ==
    /\ SelProof!Opened = Sel!Opened /\ SelProof!Fds = Sel!Fds
    /\ SelProof!server_fd = Sel!server_fd /\ SelProof!NoClient = Sel!NoClient
    /\ SelProof!vars = Sel!vars /\ SelProof!setVars = Sel!setVars
    /\ SelProof!peerVars = Sel!peerVars
    /\ \A f :
          /\ Sel!Fin(f) => SelProof!Fin(f)
          /\ Sel!Reset(f) => SelProof!Reset(f)
          /\ Sel!Read(f) => SelProof!Read(f)
          /\ \A n : (Sel!Send(f, n) => SelProof!Send(f, n))
    /\ Sel!Connect => SelProof!Connect
    /\ Sel!Advance => SelProof!Advance
    /\ Sel!CloseClient => SelProof!CloseClient
    /\ Sel!AtSend => SelProof!AtSend
  <1> USE DEF Sel!Opened, SelProof!Opened, Sel!Fds, SelProof!Fds, Sel!server_fd,
          SelProof!server_fd, Sel!NoClient, SelProof!NoClient, Sel!vars,
          SelProof!vars, Sel!setVars, SelProof!setVars, Sel!loopVars,
          SelProof!loopVars, Sel!peerVars, SelProof!peerVars
  <1>1. ASSUME NEW f
        PROVE  /\ Sel!Fin(f) => SelProof!Fin(f)
               /\ Sel!Reset(f) => SelProof!Reset(f)
               /\ Sel!Read(f) => SelProof!Read(f)
               /\ \A n : (Sel!Send(f, n) => SelProof!Send(f, n))
    BY DEF Sel!Fin, SelProof!Fin, Sel!Reset, SelProof!Reset, Sel!Read,
           SelProof!Read, Sel!Send, SelProof!Send, Sel!Peer, SelProof!Peer,
           Sel!CanSend, SelProof!CanSend, Sel!PeerFin, SelProof!PeerFin,
           Sel!PeerReset, SelProof!PeerReset, Sel!PeerRead, SelProof!PeerRead,
           Sel!PeerSend, SelProof!PeerSend, Sel!First, SelProof!First, Sel!Rest,
           SelProof!Rest
  <1>2. /\ Sel!Connect => SelProof!Connect
        /\ Sel!Advance => SelProof!Advance
        /\ Sel!CloseClient => SelProof!CloseClient
        /\ Sel!AtSend => SelProof!AtSend
    BY DEF Sel!Connect, SelProof!Connect, Sel!Advance, SelProof!Advance,
           Sel!CloseClient, SelProof!CloseClient, Sel!Freed, SelProof!Freed,
           Sel!AtSend, SelProof!AtSend
  <1> QED
    BY <1>1, <1>2

\* Each action of the server is the same in both.
LEMMA SelServerSame == Sel!Server \/ Sel!SelectFails => SelProof!Server \/ SelProof!SelectFails
  <1> USE SelStepsSame, SelBuffersSame
      DEF Sel!Opened, SelProof!Opened, Sel!Fds, SelProof!Fds, Sel!server_fd,
          SelProof!server_fd, Sel!NoClient, SelProof!NoClient, Sel!vars,
          SelProof!vars, Sel!setVars, SelProof!setVars, Sel!loopVars,
          SelProof!loopVars, Sel!peerVars, SelProof!peerVars
  <1>1. Sel!Select => SelProof!Select
    BY DEF Sel!Select, SelProof!Select, Sel!ReadReady, SelProof!ReadReady
  <1>2. Sel!SelectFails => SelProof!SelectFails
    BY DEF Sel!SelectFails, SelProof!SelectFails
  <1>3. Sel!Skip => SelProof!Skip
    BY DEF Sel!Skip, SelProof!Skip
  <1>4. Sel!AcceptFails => SelProof!AcceptFails
    BY DEF Sel!AcceptFails, SelProof!AcceptFails
  <1>5. Sel!Accept => SelProof!Accept
    BY DEF Sel!Accept, SelProof!Accept, Sel!TooHigh, SelProof!TooHigh,
           Sel!RaiseMaxFds, SelProof!RaiseMaxFds, Sel!Min, SelProof!Min, Sel!Max,
           SelProof!Max
  <1>6. Sel!HandleRecv => SelProof!HandleRecv
    BY DEF Sel!HandleRecv, SelProof!HandleRecv, Sel!RecvResults,
           SelProof!RecvResults
  <1>7. \A n : (Sel!SendReturns(n) => SelProof!SendReturns(n))
    BY DEF Sel!SendReturns, SelProof!SendReturns, Sel!Unwatch, SelProof!Unwatch
  <1>8. Sel!HandleSend => SelProof!HandleSend
    BY <1>7 DEF Sel!HandleSend, SelProof!HandleSend
  <1>9. Sel!SendReset => SelProof!SendReset
    BY <1>7 DEF Sel!SendReset, SelProof!SendReset
  <1> QED
    BY <1>1, <1>2, <1>3, <1>4, <1>5, <1>6, <1>8, <1>9 DEF Sel!Server, SelProof!Server

\* The select server of ServersSpec does what SelectServerV1 says.
LEMMA ServersSelect == ServersSpec => SelProof!Spec
  <1>1. ServersInit => SelProof!Init
    BY SelBuffersSame
       DEF ServersInit, Sel!Init, SelProof!Init, Sel!NoClient, SelProof!NoClient, Sel!Fds,
           SelProof!Fds, Sel!server_fd, SelProof!server_fd
  <1>2. [ServersNext]_<<server, vars, selVars>> => [SelProof!Next]_(SelProof!vars)
    <2>1. Sel!Next => SelProof!Next
      <3>1. Sel!Fds = SelProof!Fds
        BY DEF Sel!Fds, SelProof!Fds
      <3>2. ASSUME NEW f \in Sel!Fds, Sel!Fin(f) \/ Sel!Reset(f) \/ Sel!Read(f)
            PROVE  SelProof!Next
        BY <3>1, <3>2, SelStepsSame DEF SelProof!Next
      <3>3. ASSUME NEW f \in Sel!Fds, NEW n \in 1..MaxBytes, Sel!Send(f, n)
            PROVE  SelProof!Next
        BY <3>1, <3>3, SelStepsSame DEF SelProof!Next
      <3> QED
        BY <3>2, <3>3, SelStepsSame, SelServerSame DEF Sel!Next, SelProof!Next
    <2>2. UNCHANGED selVars => UNCHANGED SelProof!vars
      BY DEF selVars, SelProof!vars, SelProof!setVars, SelProof!loopVars, SelProof!peerVars
    <2> QED
      BY <2>1, <2>2 DEF ServersNext
  <1> QED
    BY <1>1, <1>2, PTL DEF ServersSpec, SelProof!Spec

\* The poll server of ServersSpec does what PollServer says.
LEMMA ServersPoll == ServersSpec => Spec
  <1>1. ServersInit => Init
    BY DEF ServersInit
  <1>2. [ServersNext]_<<server, vars, selVars>> => [Next]_vars
    BY DEF ServersNext
  <1> QED
    BY <1>1, <1>2, PTL DEF ServersSpec, Spec

\* Whichever of the two servers is started, the arrays of the poll server stay as
\* they should be, and it sends no peer a byte of its own (lines 144-160, 208-231).
THEOREM ServersPollTheorem == ServersSpec => [](Inv /\ NotAnswered)
  BY ServersPoll, PollInvTheorem, NotAnsweredTheorem, PTL

\* Whatever the sizes of the select server: the buffers and indices stay in their
\* bounds, the array, the sets and max_fds agree, and no call of it waits that need
\* not (lines 40-125 and 166-221 of tcp_select_server_v1.c).
THEOREM SelInvTheorem == ServersSpec => []SelInv
  <1>1. Sel!Sizes
    BY SelectAssumption
  <1>2. SelProof!Sizes
    BY <1>1 DEF Sel!Sizes, SelProof!Sizes, Sel!Fds, SelProof!Fds
  <1>3. SelProof!Spec => []SelProof!Inv
    BY <1>2, SelectAssumption, BufferAssumption, SockAssumption, SelProof!SelectV1InvTheorem
  <1>4. SelProof!Inv => SelInv
    BY SelStepsSame, SelBuffersSame
    DEF SelInv, Sel!Inv, SelProof!Inv, Sel!TypeOK, SelProof!TypeOK, Sel!SetsMatch,
        SelProof!SetsMatch, Sel!StillReady, SelProof!StillReady,
        Sel!BufferType, SelProof!BufferType, Sel!SockType, SelProof!SockType
  <1> QED
    BY <1>3, <1>4, ServersSelect, PTL

\* Of a connection of the select server no byte is lost, doubled or out of order, also
\* when its number was another's before (lines 40-88, 101-107, 176-177, 196-199).
THEOREM SelConservedTheorem == ServersSpec => []SelConserved
  <1>1. Sel!Sizes
    BY SelectAssumption
  <1>2. SelProof!Sizes
    BY <1>1 DEF Sel!Sizes, SelProof!Sizes, Sel!Fds, SelProof!Fds
  <1>3. SelProof!Spec => []SelProof!Conserved
    BY <1>2, SelectAssumption, BufferAssumption, SockAssumption,
       SelProof!SelectV1ConservedTheorem
  <1>4. SelProof!Conserved => SelConserved
    BY SelStepsSame, SelBuffersSame
    DEF SelConserved, Sel!Conserved, SelProof!Conserved, Sel!Present, SelProof!Present,
        Sel!Trail, SelProof!Trail
  <1> QED
    BY <1>3, <1>4, ServersSelect, PTL
==============================================================================
