-------------------------- MODULE EpollServer_proof ---------------------------
(***************************************************************************)
(* Proofs about EpollServer, for any number of connections, any sizes of   *)
(* the buffers and any limit on the connections.                           *)
(*                                                                         *)
(* The inductive invariant EpollInv says of each connection by itself what *)
(* its Client, its socket and its registration have to do with each other  *)
(* (ConnOK), and of the loop what evs and conns have to do with the        *)
(* connections.  ConnOK is a predicate on values, so that a lemma can say  *)
(* of each call that it keeps it.                                          *)
(***************************************************************************)
EXTENDS EpollServer, EchoBuffers_proof, FiniteSetTheorems

ClientFields == {"recv_message", "send_buf", "send_offset", "should_close"}
Phases == {"new", "backlog", "served"} \cup Closed

EventType == [who : Clients \cup {Listener}, in : BOOLEAN, rdhup : BOOLEAN, out : BOOLEAN]

\* What the peer of s was sent is the start of its stream, up to the last '\n'.
LinesEchoed(s, nl) ==
    LET out == Len(s.got) + Len(s.outq) IN
    /\ s.fin
    /\ s.got \o s.outq = [i \in 1..out |-> i]
    /\ \A i \in 1..s.sent : i \in nl => i <= out

\* The client, the socket and the line ends of a connection.
PartsOK(k, s) ==
    /\ IsClient(k) /\ DOMAIN k = ClientFields /\ BufferType(k) /\ OffsetInside(k)
    /\ k.should_close \in BOOLEAN
    /\ IsSock(s) /\ SockType(s)

\* A connection in phase p with client k, socket s and line ends nl; w: it is in
\* writers, o: it is in overflowed.
ConnOK(p, k, s, nl, w, o) ==
    /\ PartsOK(k, s)
    /\ p \in {"new", "backlog"} => ~w /\ ~o /\ k = NewClient
    /\ w => p = "served"
    /\ p = "served" => (w <=> Unsent(k) # <<>>)
    /\ p \in {"new", "backlog", "served"} /\ ~o /\ ~s.rst => InOrder(k, s)
    /\ ~o => LineEnds(k.recv_message, nl) = {}
    /\ Version = 2 /\ p = "served" /\ ~o /\ ~s.rst /\ k.should_close => s.fin /\ s.inq = <<>>
    /\ Version = 2 /\ p = "drained" /\ ~o /\ ~s.rst => LinesEchoed(s, nl)

Maps ==
    /\ phase \in [Clients -> Phases]
    /\ client = [c \in Clients |-> client[c]]
    /\ sock = [c \in Clients |-> sock[c]]
    /\ newlines \in [Clients -> SUBSET (1..MaxBytes)]
    /\ writers \subseteq Clients /\ overflowed \subseteq Clients

Connections ==
    \A c \in Clients :
        ConnOK(phase[c], client[c], sock[c], newlines[c], c \in writers, c \in overflowed)

\* EPOLLOUT is in an event only while it is registered: the drain that takes it
\* back handles the last event of its connection.
Armed == \A e \in batch : e.who \in Clients /\ e.out => e.who \in writers

Loop ==
    /\ batch \subseteq EventType
    /\ current \in Clients \cup {Nobody}
    /\ BatchLive /\ Armed

Counting == conns \in Nat /\ ConnsAccounting

EpollInv == Maps /\ Connections /\ Loop /\ Counting

-----------------------------------------------------------------------------
(* What a call does to its connection.                                     *)

\* A new connection has nothing in its buffers.
LEMMA NewParts ==
    /\ PartsOK(NewClient, NewSock) /\ Unsent(NewClient) = <<>>
    /\ InOrder(NewClient, NewSock)
    /\ \A nl : LineEnds(NewClient.recv_message, nl) = {}
    /\ NewSock.sent = 0 /\ ~NewClient.should_close
  <1>0. MaxBytes \in Nat /\ MsgCap \in Nat /\ SendCap \in Nat /\ SockCap \in Nat
    BY BufferAssumption, SockAssumption
  <1>1. <<>> \in Seq(1..MaxBytes) /\ Len(<<>>) = 0
    BY EmptySeq
  <1>2. Unsent(NewClient) = <<>>
    BY <1>1, SubSeqEmpty DEF Unsent, Rest, NewClient
  <1>3. BufferType(NewClient) /\ SockType(NewSock)
    BY <1>0, <1>1 DEF BufferType, NewClient, SockType, NewSock
  <1>4. PartsOK(NewClient, NewSock)
    BY <1>3 DEF PartsOK, IsClient, ClientFields, OffsetInside, IsSock, NewClient, NewSock
  <1>5. LineEnds(<<>>, {}) = {} /\ \A nl : LineEnds(<<>>, nl) = {}
    BY <1>1 DEF LineEnds
  <1>6. Trail(NewClient, NewSock) = <<>>
    <2>1. Trail(NewClient, NewSock) = (((<<>> \o <<>>) \o <<>>) \o <<>>) \o <<>>
      BY <1>2 DEF Trail, NewClient, NewSock
    <2>2. <<>> \o <<>> = <<>>
      BY <1>1, ConcatEmptySeq
    <2> QED
      BY <2>1, <2>2
  <1>7. [i \in 1..0 |-> i] = <<>>
    OBVIOUS
  <1> QED
    BY <1>2, <1>4, <1>5, <1>6, <1>7 DEF InOrder, NewClient, NewSock

\* connect, accept, and the close of a connection that is refused.
LEMMA ConnAccepted ==
    ASSUME NEW k, NEW s, NEW nl, NEW w \in BOOLEAN, NEW o \in BOOLEAN
    PROVE  /\ ConnOK("new", NewClient, NewSock, nl, FALSE, FALSE)
           /\ ConnOK("new", k, s, nl, w, o) => ConnOK("backlog", k, s, nl, w, o)
           /\ ConnOK("backlog", k, s, nl, w, o) =>
                /\ ConnOK("refused", k, s, nl, w, o)
                /\ ConnOK("served", NewClient, s, nl, w, o)
  BY NewParts DEF ConnOK

\* What a peer does leaves its connection as it should be.
LEMMA ConnPeer ==
    ASSUME NEW p \in {"backlog", "served"}, NEW k, NEW s, NEW nl,
           NEW w \in BOOLEAN, NEW o \in BOOLEAN, ConnOK(p, k, s, nl, w, o)
    PROVE  /\ \A n \in Nat : CanSend(s) /\ s.sent + n <= MaxBytes
                               => ConnOK(p, k, PeerSend(s, n), nl, w, o)
           /\ CanSend(s) => ConnOK(p, k, PeerFin(s), nl, w, o)
           /\ ConnOK(p, k, PeerReset(s), nl, w, o)
           /\ ConnOK(p, k, PeerRead(s, Len(s.outq)), nl, w, o)
  <1>1. IsSock(s) /\ SockType(s) /\ BufferType(k)
    BY DEF ConnOK, PartsOK
  <1>2. ASSUME NEW n \in Nat, CanSend(s), s.sent + n <= MaxBytes
        PROVE  ConnOK(p, k, PeerSend(s, n), nl, w, o)
    <2> DEFINE t == PeerSend(s, n)
    <2>1. IsSock(t) /\ SockType(t) /\ t.fin = s.fin /\ t.rst = s.rst
      BY <1>1, <1>2, PeerSendProps
    <2>2. InOrder(k, s) => InOrder(k, t)
      BY <1>1, <1>2, TrailPeerSend
    <2>3. ~s.fin
      BY <1>2 DEF CanSend
    <2> HIDE DEF t
    <2>4. ConnOK(p, k, t, nl, w, o)
      BY <2>1, <2>2, <2>3 DEF ConnOK, PartsOK
    <2> QED
      BY <2>4 DEF t
  <1>3. ASSUME CanSend(s) PROVE ConnOK(p, k, PeerFin(s), nl, w, o)
    <2> DEFINE t == PeerFin(s)
    <2>1. IsSock(t) /\ SockType(t) /\ \A x \in DOMAIN s \ {"fin"} : t[x] = s[x]
      BY <1>1, PeerEndProps
    <2>2. DOMAIN s = {"sent", "inq", "outq", "got", "fin", "rst"} /\ ~s.fin
      BY <1>1, <1>3 DEF IsSock, CanSend
    <2> HIDE DEF t
    <2>3. t.sent = s.sent /\ t.inq = s.inq /\ t.outq = s.outq /\ t.got = s.got /\ t.rst = s.rst
      BY <2>1, <2>2
    <2>4. InOrder(k, s) => InOrder(k, t)
      BY <2>3, TrailSame DEF InOrder
    <2>5. ConnOK(p, k, t, nl, w, o)
      BY <2>1, <2>2, <2>3, <2>4 DEF ConnOK, PartsOK
    <2> QED
      BY <2>5 DEF t
  <1>4. ConnOK(p, k, PeerReset(s), nl, w, o)
    <2> DEFINE t == PeerReset(s)
    <2>1. IsSock(t) /\ SockType(t) /\ t.rst
      BY <1>1, PeerEndProps
    <2> HIDE DEF t
    <2>2. ConnOK(p, k, t, nl, w, o)
      BY <2>1 DEF ConnOK, PartsOK
    <2> QED
      BY <2>2 DEF t
  <1>5. ConnOK(p, k, PeerRead(s, Len(s.outq)), nl, w, o)
    <2> DEFINE t == PeerRead(s, Len(s.outq))
    <2>0. Len(s.outq) \in 0..Len(s.outq)
      BY <1>1 DEF SockType
    <2>1. /\ IsSock(t) /\ SockType(t) /\ t.sent = s.sent
          /\ t.fin = s.fin /\ t.rst = s.rst /\ t.inq = s.inq
      BY <1>1, <2>0, PeerReadProps
    <2>2. Trail(k, t) = Trail(k, s)
      BY <1>1, <2>0, TrailPeerRead
    <2> HIDE DEF t
    <2>3. InOrder(k, s) => InOrder(k, t)
      BY <2>1, <2>2 DEF InOrder
    <2>4. ConnOK(p, k, t, nl, w, o)
      BY <2>1, <2>3 DEF ConnOK, PartsOK
    <2> QED
      BY <2>4 DEF t
  <1> QED
    BY <1>2, <1>3, <1>4, <1>5

\* The first half of an event, handle_recv and the mark: in version 2 the close is
\* asked for by an error or the end of the stream only.
LEMMA ConnReceived ==
    ASSUME NEW k, NEW s, NEW nl, NEW w \in BOOLEAN, NEW o \in BOOLEAN,
           ConnOK("served", k, s, nl, w, o), NEW r \in Recv(s, RecvBuf),
           NEW h, h = Received(k, r, nl, EofRet),
           NEW must \in BOOLEAN, Version = 2 /\ must => h.ret # 0
    PROVE  ConnOK("served", [h.client EXCEPT !.should_close = @ \/ must],
                  AfterRecv(s, r), nl,
                  w \/ (r.ret = "data" /\ h.ret = 0 /\ Unsent(h.client) # <<>>),
                  o \/ h.full)
  <1> DEFINE l == [h.client EXCEPT !.should_close = @ \/ must]
             t == AfterRecv(s, r)
             v == w \/ (r.ret = "data" /\ h.ret = 0 /\ Unsent(h.client) # <<>>)
  <1>1. /\ PartsOK(k, s) /\ IsClient(k) /\ BufferType(k) /\ OffsetInside(k)
        /\ IsSock(s) /\ SockType(s)
    BY DEF ConnOK, PartsOK
  <1>2. EofRet \in {-1, 1}
    BY DEF EofRet, EofRet_v1, EofRet_v2
  <1>3. AfterReceived(k, s, r, nl, EofRet, h)
    BY <1>1, <1>2, ReceivedProps
  <1>4. /\ IsClient(l) /\ DOMAIN l = ClientFields
        /\ l.should_close = (k.should_close \/ must)
        /\ l.recv_message = h.client.recv_message /\ l.send_buf = h.client.send_buf
        /\ l.send_offset = k.send_offset
    <2>1. IsClient(h.client) /\ DOMAIN h.client = ClientFields
      BY <1>1, <1>3 DEF AfterReceived, SameOtherFields, PartsOK
    <2>2. h.client.should_close = k.should_close
      BY <1>1, <1>3 DEF AfterReceived, SameOtherFields, PartsOK, ClientFields
    <2>3. h.client.send_offset = k.send_offset
      BY <1>3 DEF AfterReceived
    <2> QED
      BY <2>1, <2>2, <2>3 DEF IsClient, ClientFields
  <1>5. Unsent(l) = Unsent(h.client) /\ BufferType(l) /\ l.should_close \in BOOLEAN
    <2>1. BufferType(h.client) /\ h.client.send_offset = k.send_offset
      BY <1>3 DEF AfterReceived
    <2>2. k.should_close \in BOOLEAN
      BY <1>1 DEF PartsOK
    <2> HIDE DEF l
    <2> QED
      BY <1>4, <2>1, <2>2 DEF Unsent, BufferType
  <1>6. /\ IsSock(t) /\ SockType(t) /\ t.sent = s.sent /\ t.rst = s.rst
        /\ t.fin = s.fin /\ (r.ret # "data" => t = s /\ s.inq = <<>>)
    <2>1. /\ IsSock(t) /\ SockType(t)
          /\ \A x \in DOMAIN s \ {"inq"} : t[x] = s[x]
          /\ r.ret # "data" => t = s /\ s.inq = <<>>
      BY <1>1, RecvProps, RecvSize
    <2>2. DOMAIN s = {"sent", "inq", "outq", "got", "fin", "rst"}
      BY <1>1 DEF IsSock
    <2> HIDE DEF t
    <2> QED
      BY <2>1, <2>2
  <1>7. ASSUME ~h.full PROVE Trail(l, t) = Trail(k, s)
    <2>1. Trail(h.client, t) = Trail(k, s)
      BY <1>1, <1>2, <1>7, TrailReceived
    <2> HIDE DEF l, t
    <2> QED
      BY <2>1, <1>4, <1>5 DEF Trail
  <1>r. /\ r.ret \in {"data", "eof", "again", "error"}
        /\ r.ret = "data" => s.inq # <<>>
        /\ r.ret = "eof" => s.fin \/ s.rst
        /\ r.ret = "error" => s.rst
    BY <1>1, RecvProps, RecvSize
  <1> HIDE DEF l, t
  <1>8. OffsetInside(l)
    <2>1. /\ Len(k.send_buf) \in Nat /\ k.send_offset \in 0..Len(k.send_buf)
          /\ Len(l.send_buf) \in Nat /\ Len(k.send_buf) <= Len(l.send_buf)
          /\ l.send_buf \in Seq(1..MaxBytes)
      BY <1>1, <1>3, <1>4, <1>5 DEF AfterReceived, BufferType
    <2>2. CASE k.send_offset < Len(k.send_buf)
      BY <2>1, <2>2, <1>4 DEF OffsetInside
    <2>3. CASE k.send_buf = <<>>
      <3>1. k.send_offset = 0
        BY <2>1, <2>3
      <3>2. l.send_buf = <<>> \/ 0 < Len(l.send_buf)
        BY <2>1, EmptySeq
      <3> QED
        BY <3>1, <3>2, <1>4 DEF OffsetInside
    <2> QED
      BY <2>2, <2>3, <1>1 DEF OffsetInside
  <1>9. v <=> Unsent(l) # <<>>
    <2>1. w <=> Unsent(k) # <<>>
      BY DEF ConnOK
    <2>2. CASE w
      <3>1. Len(Unsent(k)) # 0 /\ Len(Unsent(k)) \in Nat
        BY <1>1, <2>1, <2>2, UnsentProps
      <3>2. Len(Unsent(k)) <= Len(Unsent(l)) /\ Len(Unsent(l)) \in Nat
        BY <1>3, <1>5, UnsentProps DEF AfterReceived
      <3>3. Unsent(l) # <<>>
        BY <3>1, <3>2, <1>5, UnsentProps
      <3> QED
        BY <2>2, <3>3
    <2>3. CASE ~w
      <3>1. Unsent(k) = <<>> /\ k.send_buf = <<>>
        BY <1>1, <2>1, <2>3, UnsentProps
      <3>2. ASSUME ~(r.ret = "data" /\ h.ret = 0) PROVE h.client = k
        <4>1. MsgCap <= SendCap
          BY EpollAssumption
        <4>2. /\ r.ret # "data" => h.client = k
              /\ r.ret = "data" => h.ret \in {-1, 0}
              /\ MsgCap <= SendCap /\ h.ret = -1 => h.client = k \/ k.send_buf # <<>>
          BY <1>3 DEF AfterReceived
        <4> QED
          BY <3>1, <3>2, <4>1, <4>2
      <3> QED
        BY <2>3, <3>1, <3>2, <1>5
    <2> QED
      BY <2>2, <2>3
  <1>10. ASSUME ~o, ~h.full, ~t.rst PROVE InOrder(l, t)
    <2>1. InOrder(k, s)
      BY <1>6, <1>10 DEF ConnOK
    <2> QED
      BY <2>1, <1>6, <1>7, <1>10 DEF InOrder
  <1>11. ASSUME ~o, ~h.full PROVE LineEnds(l.recv_message, nl) = {}
    <2>1. LineEnds(k.recv_message, nl) = {}
      BY <1>11 DEF ConnOK
    <2> QED
      BY <2>1, <1>3, <1>4, <1>11 DEF AfterReceived
  <1>12. ASSUME Version = 2, ~o, ~h.full, ~t.rst, l.should_close
         PROVE  t.fin /\ t.inq = <<>>
    <2>1. CASE k.should_close
      <3>1. s.fin /\ s.inq = <<>>
        BY <2>1, <1>6, <1>12 DEF ConnOK
      <3> QED
        BY <3>1, <1>6, <1>r
    <2>2. CASE must
      <3>1. /\ r.ret = "data" => h.ret \in {-1, 0} /\ (h.ret = -1 => h.full)
            /\ r.ret = "again" => h.ret = 0
        BY <1>3 DEF AfterReceived
      <3>2. h.ret # 0
        BY <2>2, <1>12
      <3>3. r.ret = "eof"
        BY <3>1, <3>2, <1>6, <1>12, <1>r
      <3> QED
        BY <3>3, <1>6, <1>12, <1>r
    <2> QED
      BY <2>1, <2>2, <1>4, <1>12
  <1>13. PartsOK(l, t)
    BY <1>4, <1>5, <1>6, <1>8 DEF PartsOK
  <1>14. h.full \in BOOLEAN
    BY <1>3 DEF AfterReceived
  <1> HIDE DEF v
  <1>15. ConnOK("served", l, t, nl, v, o \/ h.full)
    BY <1>9, <1>10, <1>11, <1>12, <1>13, <1>14 DEF ConnOK
  <1> QED
    BY <1>15 DEF l, t, v

\* Where nothing is unsent, nothing waits for recv and no complete line is left,
\* all complete lines of the stream are out.
LEMMA AllOut ==
    ASSUME NEW k, BufferType(k), NEW s, SockType(s), NEW nl,
           InOrder(k, s), Unsent(k) = <<>>, s.inq = <<>>, s.fin,
           LineEnds(k.recv_message, nl) = {}
    PROVE  LinesEchoed(s, nl)
  <1> DEFINE g == s.got \o s.outq
             m == k.recv_message
  <1>1. /\ s.got \in Stream /\ s.outq \in Stream /\ m \in Stream /\ g \in Stream
        /\ Trail(k, s) = g \o (Unsent(k) \o (m \o s.inq))
    BY TrailGrouped
  <1>2. Trail(k, s) = g \o m
    <2> HIDE DEF g, m
    <2>1. m \o <<>> = m /\ <<>> \o m = m
      BY <1>1, ConcatEmptySeq DEF Stream
    <2>2. Trail(k, s) = g \o (<<>> \o (m \o <<>>))
      BY <1>1
    <2> QED
      BY <2>1, <2>2
  <1>3. g \o m = [i \in 1..s.sent |-> i] /\ s.sent \in 0..MaxBytes
    BY <1>2 DEF InOrder, SockType
  <1>4. Len(g) = Len(s.got) + Len(s.outq)
    BY <1>1, ConcatProperties DEF Stream
  <1> HIDE DEF g, m
  <1>5. /\ g = [i \in 1..Len(g) |-> i] /\ Len(g) \in Nat
        /\ \A i \in 1..s.sent : i > Len(g) => i - Len(g) \in 1..Len(m) /\ m[i - Len(g)] = i
    BY <1>1, <1>3, StreamPrefix
  <1>6. \A i \in 1..s.sent : i \in nl => i <= Len(g)
    <2> SUFFICES ASSUME NEW i \in 1..s.sent, i \in nl, i > Len(g) PROVE FALSE
      BY <1>5
    <2>1. i - Len(g) \in LineEnds(m, nl)
      BY <1>5 DEF LineEnds
    <2> QED
      BY <2>1 DEF m
  <1>7. LinesEchoed(s, nl) <=> /\ s.fin /\ g = [i \in 1..Len(g) |-> i]
                               /\ \A i \in 1..s.sent : i \in nl => i <= Len(g)
    BY <1>4, Zenon DEF LinesEchoed, g
  <1> QED
    BY <1>5, <1>6, <1>7

\* The second half of an event: send, and the close that was put off if nothing is
\* left to send.
LEMMA ConnSent ==
    ASSUME NEW k, NEW s, NEW nl, NEW w \in BOOLEAN, NEW o \in BOOLEAN,
           ConnOK("served", k, s, nl, w, o),
           NEW n, n = SendCount(s, Unsent(k)), n > 0, ~s.rst
    PROVE  /\ n = Len(Unsent(k)) =>
                ConnOK(IF k.should_close THEN "drained" ELSE "served",
                       AfterSending(k, n), AfterSend(s, Unsent(k)), nl, FALSE, o)
           /\ n # Len(Unsent(k)) =>
                ConnOK("served", AfterSending(k, n), AfterSend(s, Unsent(k)), nl, w, o)
  <1> DEFINE l == AfterSending(k, n)
             t == AfterSend(s, Unsent(k))
  <1>1. /\ IsClient(k) /\ BufferType(k) /\ OffsetInside(k) /\ DOMAIN k = ClientFields
        /\ IsSock(s) /\ SockType(s) /\ k.should_close \in BOOLEAN
    BY DEF ConnOK, PartsOK
  <1>2. Unsent(k) \in Stream /\ n \in 0..Len(Unsent(k)) /\ Len(Unsent(k)) \in Nat
    BY <1>1, UnsentProps, SendCountProps
  <1>3. /\ SameOtherFields(k, l) /\ BufferType(l) /\ OffsetInside(l)
        /\ l.recv_message = k.recv_message
        /\ n = Len(Unsent(k)) <=> Unsent(l) = <<>>
    BY <1>1, <1>2, AfterSendingProps
  <1>4. /\ IsSock(t) /\ SockType(t) /\ t.sent = s.sent /\ t.inq = s.inq
        /\ t.fin = s.fin /\ t.rst = s.rst
    BY <1>1, <1>2, AfterSendProps
  <1>5. Trail(l, t) = Trail(k, s)
    BY <1>1, TrailSent
  <1>6. l.should_close = k.should_close
    BY <1>1, <1>3 DEF SameOtherFields, ClientFields
  <1> HIDE DEF l, t
  <1>7. PartsOK(l, t)
    BY <1>1, <1>3, <1>4, <1>6 DEF PartsOK, SameOtherFields
  <1>8. InOrder(k, s) => InOrder(l, t)
    BY <1>4, <1>5 DEF InOrder
  <1>9. w <=> Unsent(k) # <<>>
    BY DEF ConnOK
  <1>10. Unsent(k) # <<>>
    <2>1. Len(Unsent(k)) # 0
      BY <1>2
    <2> QED
      BY <2>1, <1>1, UnsentProps
  <1>11. ASSUME n # Len(Unsent(k)) PROVE ConnOK("served", l, t, nl, w, o)
    BY <1>3, <1>4, <1>6, <1>7, <1>8, <1>9, <1>10, <1>11 DEF ConnOK
  <1>12. ASSUME n = Len(Unsent(k)), ~k.should_close
         PROVE  ConnOK("served", l, t, nl, FALSE, o)
    BY <1>3, <1>4, <1>6, <1>7, <1>8, <1>12 DEF ConnOK
  <1>13. ASSUME n = Len(Unsent(k)), k.should_close
         PROVE  ConnOK("drained", l, t, nl, FALSE, o)
    <2>1. ASSUME Version = 2, ~o, ~t.rst PROVE LinesEchoed(t, nl)
      <3>1. /\ InOrder(l, t) /\ LineEnds(l.recv_message, nl) = {}
            /\ t.fin /\ t.inq = <<>>
        BY <1>3, <1>4, <1>8, <1>13, <2>1 DEF ConnOK
      <3> QED
        BY <3>1, <1>3, <1>4, <1>13, AllOut
    <2>2. ~o => LineEnds(l.recv_message, nl) = {}
      BY <1>3 DEF ConnOK
    <2> QED
      BY <2>1, <2>2, <1>7 DEF ConnOK
  <1> QED
    BY <1>11, <1>12, <1>13 DEF l, t

\* The error of a reset: the connection is closed as it is.
LEMMA ConnFailed ==
    ASSUME NEW k, NEW s, NEW nl, NEW w \in BOOLEAN, NEW o \in BOOLEAN,
           ConnOK("served", k, s, nl, w, o)
    PROVE  ConnOK("send_failed", k, s, nl, FALSE, o)
  BY DEF ConnOK

-----------------------------------------------------------------------------
(* The steps.                                                              *)

Conn(c) == ConnOK(phase[c], client[c], sock[c], newlines[c], c \in writers, c \in overflowed)

SameConn(d) ==
    /\ phase'[d] = phase[d] /\ client'[d] = client[d]
    /\ sock'[d] = sock[d] /\ newlines'[d] = newlines[d]
    /\ d \in writers' <=> d \in writers
    /\ d \in overflowed' <=> d \in overflowed

Failed == {c \in Clients : phase[c] = "send_failed"}

\* The first state.
LEMMA EpollInitInv == Init => EpollInv
  <1> SUFFICES ASSUME Init PROVE EpollInv
    OBVIOUS
  <1> USE DEF Init
  <1>1. Maps
    BY DEF Maps, Phases, Closed
  <1>2. Connections
    <2> SUFFICES ASSUME NEW c \in Clients PROVE Conn(c)
      BY DEF Connections, Conn
    <2>1. ConnOK("new", NewClient, NewSock, newlines[c], FALSE, FALSE)
      BY ConnAccepted
    <2>2. /\ phase[c] = "new" /\ client[c] = NewClient /\ sock[c] = NewSock
          /\ c \notin writers /\ c \notin overflowed
      OBVIOUS
    <2> HIDE DEF Init
    <2> QED
      BY <2>1, <2>2 DEF Conn, ConnOK
  <1>3. Loop
    BY DEF Loop, BatchLive, Armed
  <1>4. Counting
    <2>1. Open = {} /\ Failed = {}
      BY DEF Open, Failed
    <2>2. conns = Cardinality(Open) + Cardinality(Failed) /\ conns <= MAX_CONNECTIONS
      BY <2>1, FS_EmptySet, EpollAssumption
    <2> QED
      BY <2>2 DEF Counting, ConnsAccounting, Failed
  <1> QED
    BY <1>1, <1>2, <1>3, <1>4 DEF EpollInv

\* A step that touches one connection at most.
LEMMA OneConnection ==
    ASSUME Connections, NEW c \in Clients, \A d \in Clients \ {c} : SameConn(d), Conn(c)'
    PROVE  Connections'
  <1> SUFFICES ASSUME NEW d \in Clients PROVE Conn(d)'
    BY DEF Connections, Conn
  <1>1. CASE d = c
    BY <1>1
  <1>2. CASE d # c
    <2>1. Conn(d) /\ SameConn(d)
      BY <1>2 DEF Connections, Conn
    <2> QED
      BY <2>1 DEF Conn, ConnOK, SameConn
  <1> QED
    BY <1>1, <1>2

\* A step that touches no connection.
LEMMA NoConnection ==
    ASSUME Connections, UNCHANGED <<phase, client, sock, newlines, writers, overflowed>>
    PROVE  Connections'
  BY DEF Connections

\* conns is right as long as no connection enters or leaves Open and Failed.
LEMMA CountingSame ==
    ASSUME Counting, Open' = Open, Failed' = Failed, conns' = conns
    PROVE  Counting'
  BY DEF Counting, ConnsAccounting, Failed

\* A peer connects.
LEMMA ConnectStep ==
    ASSUME EpollInv, NEW c \in Clients, Connect(c)
    PROVE  EpollInv'
  <1> USE DEF EpollInv, Connect, loopVars, peerVars
  <1>1. Maps'
    BY DEF Maps, Phases
  <1>2. Connections'
    <2>1. \A d \in Clients \ {c} : SameConn(d)
      BY DEF SameConn, Maps
    <2>2. ConnOK("new", client[c], sock[c], newlines[c], c \in writers, c \in overflowed)
      BY DEF Connections
    <2> DEFINE w == c \in writers
               o == c \in overflowed
    <2>3. ConnOK("backlog", client[c], sock[c], newlines[c], w, o)
      <3>1. w \in BOOLEAN /\ o \in BOOLEAN
        OBVIOUS
      <3>2. ConnOK("new", client[c], sock[c], newlines[c], w, o)
        BY <2>2
      <3> HIDE DEF w, o
      <3> QED
        BY <3>1, <3>2, ConnAccepted
    <2>4. phase'[c] = "backlog"
      BY DEF Maps
    <2>5. Conn(c)'
      BY <2>3, <2>4 DEF Conn, ConnOK
    <2> QED
      BY <2>1, <2>5, OneConnection
  <1>3. Loop'
    BY DEF Loop, BatchLive, Armed, Maps
  <1>4. Counting'
    <2>1. Open' = Open /\ Failed' = Failed
      BY DEF Open, Failed, Maps
    <2> QED
      BY <2>1, CountingSame
  <1> QED
    BY <1>1, <1>2, <1>3, <1>4

\* What the peer of c does to its socket.
LEMMA PeerStep ==
    ASSUME EpollInv, NEW c \in Clients, NEW t, Peer(c, t),
           ConnOK(phase[c], client[c], t, newlines[c], c \in writers, c \in overflowed)
    PROVE  EpollInv'
  <1> USE DEF EpollInv, Peer, loopVars
  <1>1. Maps'
    BY DEF Maps
  <1>2. Connections'
    <2>1. \A d \in Clients \ {c} : SameConn(d)
      BY DEF SameConn, Maps
    <2>2. sock'[c] = t
      BY DEF Maps
    <2>3. Conn(c)'
      BY <2>2 DEF Conn, ConnOK
    <2> QED
      BY <2>1, <2>3, OneConnection
  <1>3. Loop'
    BY DEF Loop, BatchLive, Armed
  <1>4. Counting'
    <2>1. Open' = Open /\ Failed' = Failed
      BY DEF Open, Failed
    <2> QED
      BY <2>1, CountingSame
  <1> QED
    BY <1>1, <1>2, <1>3, <1>4

\* The four things a peer does.
LEMMA PeersStep ==
    ASSUME EpollInv, NEW c \in Clients
    PROVE  /\ Fin(c) => EpollInv'
           /\ Reset(c) => EpollInv'
           /\ Read(c) => EpollInv'
           /\ \A n \in 1..MaxBytes : Send(c, n) => EpollInv'
  <1> DEFINE OK(t) == ConnOK(phase[c], client[c], t, newlines[c], c \in writers, c \in overflowed)
  <1>1. OK(sock[c])
    BY DEF EpollInv, Connections
  <1>2. ASSUME phase[c] \in {"backlog", "served"}
        PROVE  /\ \A n \in Nat : CanSend(sock[c]) /\ sock[c].sent + n <= MaxBytes
                                   => OK(PeerSend(sock[c], n))
               /\ CanSend(sock[c]) => OK(PeerFin(sock[c]))
               /\ OK(PeerReset(sock[c]))
               /\ OK(PeerRead(sock[c], Len(sock[c].outq)))
    <2> DEFINE w == c \in writers
               o == c \in overflowed
    <2>1. w \in BOOLEAN /\ o \in BOOLEAN
      OBVIOUS
    <2>2. ConnOK(phase[c], client[c], sock[c], newlines[c], w, o)
      BY <1>1
    <2>3. \A t : OK(t) <=> ConnOK(phase[c], client[c], t, newlines[c], w, o)
      OBVIOUS
    <2> HIDE DEF w, o, OK
    <2> QED
      BY <2>1, <2>2, <2>3, <1>2, ConnPeer
  <1>3. \A t : Peer(c, t) => phase[c] \in {"backlog", "served"}
    BY DEF Peer
  <1>4. \A t : Peer(c, t) /\ OK(t) => EpollInv'
    BY PeerStep
  <1> HIDE DEF OK
  <1>5. Fin(c) => EpollInv'
    BY <1>2, <1>3, <1>4 DEF Fin
  <1>6. Reset(c) => EpollInv'
    BY <1>2, <1>3, <1>4 DEF Reset
  <1>7. Read(c) => EpollInv'
    BY <1>2, <1>3, <1>4 DEF Read
  <1>8. ASSUME NEW n \in 1..MaxBytes, Send(c, n) PROVE EpollInv'
    <2>1. n \in Nat
      OBVIOUS
    <2> QED
      BY <2>1, <1>2, <1>3, <1>4, <1>8 DEF Send
  <1> QED
    BY <1>5, <1>6, <1>7, <1>8

\* An event epoll_wait reports is of a served connection, or of the listening
\* socket; and EPOLLOUT is in it only where it is registered.
LEMMA ReadyProps ==
    ASSUME EpollInv, NEW e \in Ready
    PROVE  /\ e \in EventType
           /\ e.who \in Clients => e.who \in Open /\ e = Event(e.who)
           /\ e.who \notin Clients =>
                e = [who |-> Listener, in |-> TRUE, rdhup |-> FALSE, out |-> FALSE]
  <1>1. CASE e \in {Event(c) : c \in Open}
    <2>1. PICK c \in Open : e = Event(c)
      BY <1>1
    <2>2. /\ e.who = c /\ c \in Clients /\ e.in = Readable(sock[c])
          /\ e.rdhup = Rdhup(sock[c]) /\ e.out = (c \in writers /\ Writable(sock[c]))
          /\ e = [who |-> c, in |-> Readable(sock[c]), rdhup |-> Rdhup(sock[c]),
                  out |-> c \in writers /\ Writable(sock[c])]
      BY <2>1 DEF Event, Open
    <2>3. /\ SockType(sock[c])
      BY <2>2 DEF EpollInv, Connections, ConnOK, PartsOK
    <2>4. Readable(sock[c]) \in BOOLEAN /\ Rdhup(sock[c]) \in BOOLEAN
          /\ Writable(sock[c]) \in BOOLEAN
      BY DEF Readable, Rdhup, Writable
    <2>5. e \in EventType
      BY <2>2, <2>4 DEF EventType
    <2> QED
      BY <2>1, <2>2, <2>5
  <1>2. CASE e = [who |-> Listener, in |-> TRUE, rdhup |-> FALSE, out |-> FALSE]
    BY <1>2, EpollAssumption DEF EventType
  <1> QED
    BY <1>1, <1>2 DEF Ready

\* epoll_wait.
LEMMA EpollWaitStep ==
    ASSUME EpollInv, EpollWait
    PROVE  EpollInv'
  <1> USE DEF EpollInv, EpollWait, peerVars
  <1>1. Maps'
    BY DEF Maps
  <1>2. Connections'
    BY NoConnection
  <1>3. Loop'
    <2>0. batch' \subseteq Ready /\ current' = current /\ phase' = phase /\ writers' = writers
      OBVIOUS
    <2>1. batch' \subseteq EventType
      BY <2>0, ReadyProps
    <2>2. BatchLive'
      <3>1. ASSUME NEW e \in batch', e.who \in Clients PROVE phase[e.who] = "served"
        BY <2>0, <3>1, ReadyProps DEF Open
      <3>2. ASSUME NEW e \in batch', NEW f \in batch', e.who = f.who PROVE e = f
        BY <2>0, <3>2, ReadyProps
      <3> QED
        BY <2>0, <3>1, <3>2 DEF BatchLive
    <2>3. Armed'
      <3>1. ASSUME NEW e \in batch', e.who \in Clients, e.out PROVE e.who \in writers
        <4>1. e = Event(e.who)
          BY <2>0, <3>1, ReadyProps
        <4>2. e.out = (e.who \in writers /\ Writable(sock[e.who]))
          BY <4>1 DEF Event
        <4> QED
          BY <3>1, <4>2
      <3> QED
        BY <2>0, <3>1 DEF Armed
    <2> QED
      BY <2>0, <2>1, <2>2, <2>3 DEF Loop
  <1>4. Counting'
    <2>1. Open' = Open /\ Failed' = Failed
      BY DEF Open, Failed
    <2> QED
      BY <2>1, CountingSame
  <1> QED
    BY <1>1, <1>2, <1>3, <1>4

\* Sets of connections are finite.
LEMMA OpenFinite ==
    /\ IsFiniteSet(Open) /\ IsFiniteSet(Failed)
    /\ Cardinality(Open) \in Nat /\ Cardinality(Failed) \in Nat
  <1>1. Open \subseteq Clients /\ Failed \subseteq Clients
    BY DEF Open, Failed
  <1>2. IsFiniteSet(Open) /\ IsFiniteSet(Failed)
    BY <1>1, EpollAssumption, FS_Subset
  <1> QED
    BY <1>2, FS_CardinalityType

\* The events that are left keep what is known of them when the event of the
\* listening socket is done.
LEMMA EventDone ==
    ASSUME Loop, NEW e \in batch, batch' = batch \ {e}, current' \in Clients \cup {Nobody},
           \A d \in Clients \ {e.who} : (phase[d] = "served" => phase'[d] = "served")
                                          /\ (d \in writers => d \in writers')
    PROVE  Loop'
  <1>1. batch' \subseteq EventType
    BY DEF Loop
  <1>2. \A f \in batch' : f \in batch /\ f.who # e.who
    BY DEF Loop, BatchLive
  <1>3. BatchLive'
    BY <1>2 DEF Loop, BatchLive
  <1>4. Armed'
    BY <1>2 DEF Loop, Armed
  <1> QED
    BY <1>1, <1>3, <1>4 DEF Loop

\* The event of the listening socket: accept.
LEMMA AcceptStep ==
    ASSUME EpollInv, NEW e \in batch, Accept(e)
    PROVE  EpollInv'
  <1> USE DEF EpollInv, Accept, Handle, peerVars
  <1>0. e.who \notin Clients /\ current' \in Clients \cup {Nobody}
    BY EpollAssumption DEF Loop
  <1>1. ASSUME NEW c \in Clients, phase[c] = "backlog", Refuse(c) PROVE EpollInv'
    <2>1. Maps'
      BY <1>1 DEF Maps, Refuse, Phases, Closed
    <2>2. phase'[c] = "refused" /\ \A d \in Clients \ {c} : phase'[d] = phase[d]
      BY <1>1 DEF Maps, Refuse
    <2>3. Connections'
      <3>1. \A d \in Clients \ {c} : SameConn(d)
        BY <1>1, <2>2 DEF SameConn, Refuse
      <3>2. ConnOK("backlog", client[c], sock[c], newlines[c], c \in writers, c \in overflowed)
        BY <1>1 DEF Connections
      <3>3. Conn(c)'
        BY <1>1, <2>2, <3>2 DEF Conn, ConnOK, Refuse
      <3> QED
        BY <3>1, <3>3, OneConnection
    <2>4. Loop'
      BY <1>0, <1>1, <2>2, EventDone
    <2>5. Counting'
      <3>1. Open' = Open /\ Failed' = Failed
        BY <1>1, <2>2 DEF Open, Failed
      <3> QED
        BY <1>1, <3>1, CountingSame DEF Refuse
    <2> QED
      BY <2>1, <2>3, <2>4, <2>5
  <1>2. ASSUME NEW c \in Clients, phase[c] = "backlog", Admit(c) PROVE EpollInv'
    <2>1. Maps'
      BY <1>2 DEF Maps, Admit, Phases
    <2>2. /\ phase'[c] = "served" /\ \A d \in Clients \ {c} : phase'[d] = phase[d]
          /\ client'[c] = NewClient /\ \A d \in Clients \ {c} : client'[d] = client[d]
      BY <1>2 DEF Maps, Admit
    <2>3. Connections'
      <3>1. \A d \in Clients \ {c} : SameConn(d)
        BY <1>2, <2>2 DEF SameConn, Admit
      <3>2. ConnOK("backlog", client[c], sock[c], newlines[c], c \in writers, c \in overflowed)
        BY <1>2 DEF Connections
      <3>3. Conn(c)'
        BY <1>2, <2>2, <3>2, NewParts DEF Conn, ConnOK, Admit
      <3> QED
        BY <3>1, <3>3, OneConnection
    <2>4. Loop'
      BY <1>0, <1>2, <2>2, EventDone
    <2>5. Counting'
      <3>1. Open' = Open \cup {c} /\ c \notin Open /\ Failed' = Failed
        BY <1>2, <2>2 DEF Open, Failed
      <3>2. Cardinality(Open') = Cardinality(Open) + 1
        BY <3>1, OpenFinite, FS_AddElement
      <3>3. conns' = conns + 1 /\ conns + 1 <= MAX_CONNECTIONS
        BY <1>2 DEF Admit
      <3>4. conns = Cardinality(Open) + Cardinality(Failed) /\ conns \in Nat
        BY DEF Counting, ConnsAccounting, Failed
      <3>5. /\ conns' = Cardinality(Open') + Cardinality(Failed')
            /\ conns' <= MAX_CONNECTIONS /\ conns' \in Nat
        BY <3>1, <3>2, <3>3, <3>4, OpenFinite
      <3> QED
        BY <3>5 DEF Counting, ConnsAccounting, Failed
    <2> QED
      BY <2>1, <2>3, <2>4, <2>5
  <1>3. ASSUME UNCHANGED <<connVars, client>> PROVE EpollInv'
    <2>0. phase' = phase /\ conns' = conns
      BY <1>3 DEF connVars
    <2>1. Maps'
      BY <1>3, <2>0 DEF Maps
    <2>2. Connections'
      BY <1>3, <2>0, NoConnection
    <2>3. Loop'
      BY <1>0, <2>0, EventDone
    <2>4. Counting'
      <3>1. Open' = Open /\ Failed' = Failed
        BY <2>0 DEF Open, Failed
      <3> QED
        BY <2>0, <3>1, CountingSame
    <2> QED
      BY <2>1, <2>2, <2>3, <2>4
  <1> QED
    BY <1>1, <1>2, <1>3

\* In version 2 no close is asked for where handle_recv returned 0.
LEMMA MarkedFor ==
    ASSUME NEW e, e.rdhup \in BOOLEAN, NEW ret
    PROVE  /\ MustClose(e, ret) \in BOOLEAN
           /\ Version = 2 /\ MustClose(e, ret) => ret # 0
  <1>1. /\ MustClose_v1(e, ret) \in BOOLEAN
        /\ MustClose_v2(e, ret) \in BOOLEAN
    BY DEF MustClose_v1, MustClose_v2
  <1>2. MustClose_v2(e, ret) => ret # 0
    BY DEF MustClose_v2
  <1>3. MustClose(e, ret) \in BOOLEAN
    BY <1>1 DEF MustClose
  <1>4. ASSUME Version = 2, MustClose(e, ret) PROVE ret # 0
    <2>1. Version # 1
      BY <1>4
    <2> QED
      BY <2>1, <1>2, <1>4, Zenon DEF MustClose
  <1> QED
    BY <1>3, <1>4

\* An event with EPOLLIN: handle_recv and what main does with its result.
LEMMA HandleRecvStep ==
    ASSUME EpollInv, NEW e \in batch, HandleRecv(e)
    PROVE  EpollInv'
  <1> DEFINE c == e.who
             k == client[c]
             s == sock[c]
  <1>1. /\ c \in Clients /\ e \in EventType /\ phase[c] = "served"
        /\ \A f \in batch : f.who = c => f = e
    BY DEF EpollInv, Loop, BatchLive, HandleRecv
  <1>2. PICK r \in Recv(s, RecvBuf) :
          LET h == Received(k, r, newlines[c], EofRet) IN
          /\ Mark(e, h)
          /\ writers' = IF r.ret = "data" /\ h.ret = 0 /\ Unsent(h.client) # <<>>
                         THEN writers \cup {c} ELSE writers
          /\ overflowed' = IF h.full THEN overflowed \cup {c} ELSE overflowed
          /\ sock' = [sock EXCEPT ![c] = AfterRecv(@, r)]
    BY DEF HandleRecv
  <1> DEFINE h == Received(k, r, newlines[c], EofRet)
             must == MustClose(e, h.ret)
             l == [h.client EXCEPT !.should_close = @ \/ must]
             t == AfterRecv(s, r)
             w == c \in writers
             o == c \in overflowed
             arm == r.ret = "data" /\ h.ret = 0 /\ Unsent(h.client) # <<>>
  <1>3. /\ client' = [client EXCEPT ![c] = l] /\ phase' = phase /\ conns' = conns
        /\ writers' = IF arm THEN writers \cup {c} ELSE writers
        /\ overflowed' = IF h.full THEN overflowed \cup {c} ELSE overflowed
        /\ sock' = [sock EXCEPT ![c] = t] /\ newlines' = newlines
    BY <1>2 DEF Mark, connVars, HandleRecv
  <1>4. must \in BOOLEAN /\ (Version = 2 /\ must => h.ret # 0)
    BY <1>1, MarkedFor DEF EventType
  <1>5. ConnOK("served", l, t, newlines[c], w \/ arm, o \/ h.full)
    <2>1. w \in BOOLEAN /\ o \in BOOLEAN
      OBVIOUS
    <2>2. ConnOK("served", k, s, newlines[c], w, o)
      BY <1>1 DEF EpollInv, Connections
    <2>3. h = Received(k, r, newlines[c], EofRet)
      OBVIOUS
    <2> HIDE DEF w, o, h, must, k, s, c
    <2> QED
      BY <2>1, <2>2, <2>3, <1>4, ConnReceived
  <1>6. h.full \in BOOLEAN
    <2>1. IsClient(k) /\ BufferType(k) /\ SockType(s) /\ IsSock(s)
      BY <1>1 DEF EpollInv, Connections, ConnOK, PartsOK
    <2>2. EofRet \in {-1, 1}
      BY DEF EofRet, EofRet_v1, EofRet_v2
    <2>3. AfterReceived(k, s, r, newlines[c], EofRet, h)
      <3> HIDE DEF k, s, c
      <3> QED
        BY <2>1, <2>2, ReceivedProps
    <2> QED
      BY <2>3 DEF AfterReceived
  <1> HIDE DEF h, must, l, t, arm, c
  <1>7. Maps'
    BY <1>1, <1>3 DEF EpollInv, Maps
  <1>8. Connections'
    <2>1. \A d \in Clients \ {c} : SameConn(d)
      BY <1>1, <1>3 DEF EpollInv, Maps, SameConn
    <2>2. /\ client'[c] = l /\ sock'[c] = t
          /\ c \in writers' <=> (w \/ arm)
          /\ c \in overflowed' <=> (o \/ h.full)
      BY <1>1, <1>3, <1>6 DEF EpollInv, Maps
    <2>3. Conn(c)'
      BY <1>1, <1>3, <1>5, <2>2 DEF Conn, ConnOK
    <2> QED
      BY <1>1, <2>1, <2>3, OneConnection DEF EpollInv
  <1>9. Loop'
    <2>1. \A d \in Clients : d \in writers => d \in writers'
      BY <1>3
    <2>2. CASE e.out
      <3>1. batch' = (batch \ {e}) \cup {[e EXCEPT !.in = FALSE]} /\ current' = e.who
        BY <2>2 DEF HandleRecv
      <3> DEFINE f == [e EXCEPT !.in = FALSE]
      <3>2. f \in EventType /\ f.who = e.who /\ f.out = e.out
        BY <1>1 DEF EventType
      <3> HIDE DEF f
      <3>3. batch' \subseteq EventType /\ current' \in Clients \cup {Nobody}
        BY <1>1, <3>1, <3>2 DEF EpollInv, Loop, f, c
      <3>4. BatchLive'
        BY <1>1, <1>3, <3>1, <3>2 DEF EpollInv, Loop, BatchLive, f, c
      <3>5. Armed'
        BY <2>1, <3>1, <3>2 DEF EpollInv, Loop, Armed, f
      <3> QED
        BY <3>3, <3>4, <3>5 DEF Loop
    <2>3. CASE ~e.out
      <3>1. batch' = batch \ {e} /\ current' = Nobody
        BY <2>3 DEF HandleRecv
      <3> QED
        BY <2>1, <3>1, <1>3, EventDone DEF EpollInv
    <2> QED
      BY <2>2, <2>3
  <1>10. Counting'
    <2>1. Open' = Open /\ Failed' = Failed
      BY <1>3 DEF Open, Failed
    <2> QED
      BY <2>1, <1>3, CountingSame DEF EpollInv
  <1> QED
    BY <1>7, <1>8, <1>9, <1>10 DEF EpollInv

\* One connection leaves Open, by a close that is counted or by one that is not.
LEMMA CountingClosed ==
    ASSUME Counting, NEW c \in Open, Open' = Open \ {c},
           \/ conns' = conns - 1 /\ Failed' = Failed
           \/ conns' = conns /\ Failed' = Failed \cup {c} /\ c \notin Failed
    PROVE  Counting'
  <1>1. /\ conns = Cardinality(Open) + Cardinality(Failed) /\ conns \in Nat
        /\ conns <= MAX_CONNECTIONS /\ MAX_CONNECTIONS \in Nat
    BY EpollAssumption DEF Counting, ConnsAccounting, Failed
  <1>2. Cardinality(Open') = Cardinality(Open) - 1 /\ Cardinality(Open) # 0
    <2>1. Cardinality(Open') = Cardinality(Open) - 1
      BY OpenFinite, FS_RemoveElement
    <2>2. Open # {}
      OBVIOUS
    <2> QED
      BY <2>1, <2>2, OpenFinite, FS_EmptySet
  <1>3. CASE conns' = conns - 1 /\ Failed' = Failed
    <2>1. /\ conns' = Cardinality(Open') + Cardinality(Failed')
          /\ conns' \in Nat /\ conns' <= MAX_CONNECTIONS
      BY <1>1, <1>2, <1>3, OpenFinite
    <2> QED
      BY <2>1 DEF Counting, ConnsAccounting, Failed
  <1>4. CASE conns' = conns /\ Failed' = Failed \cup {c} /\ c \notin Failed
    <2>1. Cardinality(Failed') = Cardinality(Failed) + 1
      BY <1>4, OpenFinite, FS_AddElement
    <2>2. conns' = Cardinality(Open') + Cardinality(Failed') /\ conns' <= MAX_CONNECTIONS
      BY <1>1, <1>2, <1>4, <2>1, OpenFinite
    <2> QED
      BY <1>1, <1>4, <2>2 DEF Counting, ConnsAccounting, Failed
  <1> QED
    BY <1>3, <1>4

\* An event with EPOLLOUT: handle_send.
LEMMA HandleSendStep ==
    ASSUME EpollInv, NEW e \in batch, HandleSend(e)
    PROVE  EpollInv'
  <1> DEFINE c == e.who
             k == client[c]
             s == sock[c]
             w == c \in writers
             o == c \in overflowed
  <1>1. /\ c \in Clients /\ e \in EventType /\ phase[c] = "served"
        /\ batch' = batch \ {e} /\ current' \in Clients \cup {Nobody}
        /\ newlines' = newlines /\ overflowed' = overflowed
    BY DEF EpollInv, Loop, BatchLive, HandleSend
  <1>2. ConnOK("served", k, s, newlines[c], w, o) /\ w \in BOOLEAN /\ o \in BOOLEAN
    BY <1>1 DEF EpollInv, Connections
  <1> HIDE DEF c
  <1>3. CASE SendNothing(c)
    <2>1. UNCHANGED <<phase, conns, client, writers, sock>>
      BY <1>3 DEF SendNothing, connVars
    <2>2. Maps'
      BY <1>1, <2>1 DEF EpollInv, Maps
    <2>3. Connections'
      BY <1>1, <2>1, NoConnection DEF EpollInv
    <2>4. Loop'
      BY <1>1, <2>1, EventDone DEF EpollInv
    <2>5. Counting'
      <3>1. Open' = Open /\ Failed' = Failed
        BY <2>1 DEF Open, Failed
      <3> QED
        BY <2>1, <3>1, CountingSame DEF EpollInv
    <2> QED
      BY <2>2, <2>3, <2>4, <2>5 DEF EpollInv
  <1>4. CASE SendSome(c)
    <2> DEFINE n == SendCount(s, Unsent(k))
               l == AfterSending(k, n)
               t == AfterSend(s, Unsent(k))
    <2>1. /\ ~s.rst /\ n > 0 /\ sock' = [sock EXCEPT ![c] = t]
          /\ client' = [client EXCEPT ![c] = l]
      BY <1>4 DEF SendSome
    <2>2. /\ n = Len(Unsent(k)) => Disarm(c) /\ CloseIfAsked(c)
          /\ n # Len(Unsent(k)) => UNCHANGED <<phase, conns, writers>>
      BY <1>4 DEF SendSome, connVars
    <2>3. /\ n = Len(Unsent(k)) =>
               ConnOK(IF k.should_close THEN "drained" ELSE "served", l, t, newlines[c],
                      FALSE, o)
          /\ n # Len(Unsent(k)) => ConnOK("served", l, t, newlines[c], w, o)
      <3>1. n = SendCount(s, Unsent(k))
        OBVIOUS
      <3> HIDE DEF k, s, w, o, n
      <3> QED
        BY <1>2, <2>1, <3>1, ConnSent
    <2>4. k.should_close \in BOOLEAN
      BY <1>2 DEF ConnOK, PartsOK
    <2> HIDE DEF n, l, t
    <2>5. CASE n = Len(Unsent(k)) /\ k.should_close
      <3>1. /\ phase' = [phase EXCEPT ![c] = "drained"] /\ conns' = conns - 1
            /\ writers' = writers \ {c}
        BY <2>2, <2>5 DEF Disarm, CloseIfAsked
      <3>2. Maps'
        BY <1>1, <2>1, <3>1 DEF EpollInv, Maps, Phases, Closed
      <3>3. Connections'
        <4>1. \A d \in Clients \ {c} : SameConn(d)
          BY <1>1, <2>1, <3>1 DEF EpollInv, Maps, SameConn
        <4>2. /\ client'[c] = l /\ sock'[c] = t /\ phase'[c] = "drained"
              /\ c \notin writers'
          BY <1>1, <2>1, <3>1 DEF EpollInv, Maps
        <4>3. ConnOK("drained", l, t, newlines[c], FALSE, o)
          BY <2>3, <2>5
        <4>4. Conn(c)'
          BY <1>1, <4>2, <4>3 DEF Conn, ConnOK
        <4> QED
          BY <1>1, <4>1, <4>4, OneConnection DEF EpollInv
      <3>4. Loop'
        BY <1>1, <3>1, EventDone DEF EpollInv, Maps, c
      <3>5. Counting'
        <4>1. c \in Open /\ Open' = Open \ {c} /\ Failed' = Failed
          BY <1>1, <3>1 DEF EpollInv, Maps, Open, Failed
        <4> QED
          BY <3>1, <4>1, CountingClosed DEF EpollInv
      <3> QED
        BY <3>2, <3>3, <3>4, <3>5 DEF EpollInv
    <2>6. CASE ~(n = Len(Unsent(k)) /\ k.should_close)
      <3>1. /\ phase' = phase /\ conns' = conns
            /\ n = Len(Unsent(k)) => writers' = writers \ {c}
            /\ n # Len(Unsent(k)) => writers' = writers
        BY <2>2, <2>4, <2>6 DEF Disarm, CloseIfAsked, connVars
      <3>2. Maps'
        BY <1>1, <2>1, <3>1 DEF EpollInv, Maps
      <3>3. Connections'
        <4>1. \A d \in Clients \ {c} : SameConn(d)
          BY <1>1, <2>1, <3>1 DEF EpollInv, Maps, SameConn
        <4>2. client'[c] = l /\ sock'[c] = t
          BY <1>1, <2>1 DEF EpollInv, Maps
        <4>3. ASSUME n = Len(Unsent(k)) PROVE Conn(c)'
          <5>1. ConnOK("served", l, t, newlines[c], FALSE, o)
            BY <2>3, <2>6, <4>3
          <5> QED
            BY <1>1, <3>1, <4>2, <4>3, <5>1 DEF Conn, ConnOK
        <4>4. ASSUME n # Len(Unsent(k)) PROVE Conn(c)'
          <5>1. ConnOK("served", l, t, newlines[c], w, o)
            BY <2>3, <4>4
          <5> QED
            BY <1>1, <3>1, <4>2, <4>4, <5>1 DEF Conn, ConnOK
        <4> QED
          BY <1>1, <4>1, <4>3, <4>4, OneConnection DEF EpollInv
      <3>4. Loop'
        BY <1>1, <3>1, EventDone DEF EpollInv, c
      <3>5. Counting'
        <4>1. Open' = Open /\ Failed' = Failed
          BY <3>1 DEF Open, Failed
        <4> QED
          BY <3>1, <4>1, CountingSame DEF EpollInv
      <3> QED
        BY <3>2, <3>3, <3>4, <3>5 DEF EpollInv
    <2> QED
      BY <2>5, <2>6
  <1>5. CASE SendFails(c)
    <2>1. /\ phase' = [phase EXCEPT ![c] = "send_failed"] /\ writers' = writers \ {c}
          /\ UNCHANGED <<client, conns, sock>>
      BY <1>5 DEF SendFails
    <2>2. Maps'
      BY <1>1, <2>1 DEF EpollInv, Maps, Phases, Closed
    <2>3. Connections'
      <3>1. \A d \in Clients \ {c} : SameConn(d)
        BY <1>1, <2>1 DEF EpollInv, Maps, SameConn
      <3>2. phase'[c] = "send_failed" /\ c \notin writers'
        BY <1>1, <2>1 DEF EpollInv, Maps
      <3>3. ConnOK("send_failed", k, s, newlines[c], FALSE, o)
        <4> HIDE DEF k, s, w, o
        <4> QED
          BY <1>2, ConnFailed
      <3>4. Conn(c)'
        BY <1>1, <2>1, <3>2, <3>3 DEF Conn, ConnOK
      <3> QED
        BY <1>1, <3>1, <3>4, OneConnection DEF EpollInv
    <2>4. Loop'
      BY <1>1, <2>1, EventDone DEF EpollInv, Maps, c
    <2>5. Counting'
      <3>1. /\ c \in Open /\ Open' = Open \ {c} /\ Failed' = Failed \cup {c}
            /\ c \notin Failed
        BY <1>1, <2>1 DEF EpollInv, Maps, Open, Failed
      <3> QED
        BY <2>1, <3>1, CountingClosed DEF EpollInv
    <2> QED
      BY <2>2, <2>3, <2>4, <2>5 DEF EpollInv
  <1> QED
    BY <1>3, <1>4, <1>5 DEF HandleSend, c

-----------------------------------------------------------------------------
(* The theorems.                                                           *)

\* Every step keeps the invariant.
LEMMA EpollNextInv == EpollInv /\ [Next]_vars => EpollInv'
  <1> SUFFICES ASSUME EpollInv, [Next]_vars PROVE EpollInv'
    OBVIOUS
  <1>1. ASSUME NEW c \in Clients, Connect(c) PROVE EpollInv'
    BY <1>1, ConnectStep
  <1>2. ASSUME NEW c \in Clients, Fin(c) \/ Reset(c) \/ Read(c) PROVE EpollInv'
    BY <1>2, PeersStep
  <1>3. ASSUME NEW c \in Clients, NEW n \in 1..MaxBytes, Send(c, n) PROVE EpollInv'
    BY <1>3, PeersStep
  <1>4. CASE EpollWait
    BY <1>4, EpollWaitStep
  <1>5. ASSUME NEW e \in batch, Accept(e) PROVE EpollInv'
    BY <1>5, AcceptStep
  <1>6. ASSUME NEW e \in batch, HandleRecv(e) PROVE EpollInv'
    BY <1>6, HandleRecvStep
  <1>7. ASSUME NEW e \in batch, HandleSend(e) PROVE EpollInv'
    BY <1>7, HandleSendStep
  <1>8. CASE UNCHANGED vars
    <2>1. Maps' /\ Loop'
      BY <1>8 DEF EpollInv, Maps, Loop, BatchLive, Armed, vars, loopVars, peerVars, connVars
    <2>2. Connections'
      BY <1>8, NoConnection DEF EpollInv, vars, loopVars, peerVars, connVars
    <2>3. Counting'
      <3>1. Open' = Open /\ Failed' = Failed /\ conns' = conns
        BY <1>8 DEF Open, Failed, vars, connVars
      <3> QED
        BY <3>1, CountingSame DEF EpollInv
    <2> QED
      BY <2>1, <2>2, <2>3 DEF EpollInv
  <1> QED
    BY <1>1, <1>2, <1>3, <1>4, <1>5, <1>6, <1>7, <1>8 DEF Next, Server

\* The inductive invariant holds in every reachable state of the server.
THEOREM EpollInvariant == Spec => []EpollInv
  BY EpollInitInv, EpollNextInv, PTL DEF Spec

\* Both buffers of every Client stay in their bounds, and EPOLLOUT is asked for
\* exactly while there is output (tcp_epoll_server_v2.c, lines 53-125).
THEOREM EpollInvTheorem == Spec => []Inv
  <1>1. EpollInv => Inv
    <2> SUFFICES ASSUME EpollInv PROVE Inv
      OBVIOUS
    <2>1. \A c \in Clients : PartsOK(client[c], sock[c])
      BY DEF EpollInv, Connections, ConnOK
    <2>2. conns \in 0..MAX_CONNECTIONS
      BY EpollAssumption DEF EpollInv, Counting, ConnsAccounting
    <2>3. TypeOK
      BY <2>1, <2>2 DEF EpollInv, Maps, Phases, PartsOK, Loop, EventType, TypeOK
    <2>4. WriteInterest
      BY DEF EpollInv, Connections, ConnOK, WriteInterest, Open
    <2> QED
      BY <2>3, <2>4 DEF Inv
  <1> QED
    BY <1>1, EpollInvariant, PTL

\* conns counts the connections that are served and those that handle_send closed,
\* and both together are never more than MAX_CONNECTIONS.
THEOREM ConnsTheorem == Spec => []ConnsAccounting
  <1>1. EpollInv => ConnsAccounting
    BY DEF EpollInv, Counting
  <1> QED
    BY <1>1, EpollInvariant, PTL

\* No event that is left in evs points to a Client that was freed, however many
\* connections end while the batch is handled.
THEOREM BatchTheorem == Spec => []BatchLive
  <1>1. EpollInv => BatchLive
    BY DEF EpollInv, Loop
  <1> QED
    BY <1>1, EpollInvariant, PTL

\* Moving lines, partial sends and the reuse of send_buf lose, repeat and reorder
\* nothing of a stream whose buffers were large enough.
THEOREM ConservedTheorem == Spec => []Conserved
  <1>1. EpollInv => Conserved
    BY DEF EpollInv, Connections, ConnOK, InOrder, Conserved, Open
  <1> QED
    BY <1>1, EpollInvariant, PTL

\* Version 2 closes a connection whose peer ended its stream only after all its
\* complete lines were sent back.  Version 1 does not, which a run shows.
THEOREM EchoedTheorem ==
    ASSUME Version = 2
    PROVE  Spec => []EchoedBeforeClose
  <1>1. EpollInv => EchoedBeforeClose
    BY DEF EpollInv, Connections, ConnOK, LinesEchoed, EchoedBeforeClose
  <1> QED
    BY <1>1, EpollInvariant, PTL

\* main closes a connection only in the EPOLLOUT branch, so one that has nothing to
\* send stays open whatever its peer does.
THEOREM ClosedTheorem == Spec => ClosedOnlyWhileWriting
  <1> DEFINE Stays == \A c \in Open : c \notin writers => phase'[c] = "served"
  <1>1. ASSUME EpollInv, [Next]_vars PROVE [Stays]_vars
    <2>1. SUFFICES ASSUME NEW c \in Open, c \notin writers, Next PROVE phase'[c] = "served"
      BY <1>1
    <2>2. c \in Clients /\ phase[c] = "served" /\ phase \in [Clients -> Phases]
      BY <1>1 DEF Open, EpollInv, Maps
    <2>3. ASSUME NEW d \in Clients, Connect(d) PROVE phase'[c] = "served"
      BY <2>2, <2>3 DEF Connect
    <2>4. ASSUME NEW d \in Clients, NEW t, Peer(d, t) PROVE phase'[c] = "served"
      BY <2>2, <2>4 DEF Peer
    <2>5. CASE EpollWait
      BY <2>2, <2>5 DEF EpollWait
    <2>6. ASSUME NEW e \in batch, Accept(e) PROVE phase'[c] = "served"
      BY <2>2, <2>6 DEF Accept, Refuse, Admit, connVars
    <2>7. ASSUME NEW e \in batch, HandleRecv(e) PROVE phase'[c] = "served"
      BY <2>2, <2>7 DEF HandleRecv, Mark, connVars
    <2>8. ASSUME NEW e \in batch, HandleSend(e) PROVE phase'[c] = "served"
      <3>1. e.who # c
        BY <1>1, <2>1, <2>2, <2>8 DEF EpollInv, Loop, Armed, HandleSend
      <3> QED
        BY <2>2, <2>8, <3>1
        DEF HandleSend, SendNothing, SendSome, SendFails, Disarm, CloseIfAsked, connVars
    <2> QED
      BY <2>1, <2>3, <2>4, <2>5, <2>6, <2>7, <2>8
      DEF Next, Server, Fin, Reset, Read, Send
  <1> QED
    BY <1>1, EpollInvariant, PTL DEF Spec, ClosedOnlyWhileWriting
==============================================================================
