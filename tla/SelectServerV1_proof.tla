------------------------- MODULE SelectServerV1_proof ------------------------
(***************************************************************************)
(* Proofs about SelectServerV1, for any sizes of the array and the         *)
(* buffers, any number of descriptors and of peers and whatever they send. *)
(*                                                                         *)
(* The inductive invariant SelectV1Inv adds to the properties that the     *)
(* runs check what makes them last: an entry of the array is free and      *)
(* empty, or its client, with what the present send took counted as sent,  *)
(* fits the socket of its descriptor (SlotOK); what select reported of the *)
(* descriptors that the loop has not passed is true of connections that    *)
(* are open, also while the server is blocked in send (Asked).             *)
(***************************************************************************)
EXTENDS SelectServerV1, EchoBuffers_proof

Array == 0..(MAX_CONNECTIONS - 1)

IsSlot(k) == IsClient(k) /\ DOMAIN k = SlotFields /\ BufferType(k)

Maps ==
    /\ client = [f \in Array |-> client[f]]
    /\ sock = [f \in Fds |-> sock[f]]
    /\ \A f \in Fds : IsSock(sock[f]) /\ SockType(sock[f])
    /\ newlines \in [Fds -> SUBSET (1..MaxBytes)]
    /\ overflowed \subseteq Fds

SlotGood(f) ==
    \/ client[f] = NoClient
    \/ /\ f \in Fds /\ client[f].client_fd = f /\ IsSlot(client[f])
       /\ SlotOK(Present(f), sock[f], newlines[f], f \in overflowed)

SlotsOK == \A f \in Array : SlotGood(f)

Sets ==
    /\ master_read \subseteq Fds \cup {server_fd} /\ readfds \subseteq Fds \cup {server_fd}
    /\ master_write \subseteq Fds /\ writefds \subseteq Fds
    /\ max_fds \in Fds \cup {server_fd}
    /\ SetsMatch

\* The loop has still to look at descriptor f.
Ahead(f) == f > i \/ (f = i /\ pc = "scan")

\* What select reported of f, but for what a recv in this turn has used up.
Reported(f) ==
    /\ f \in readfds => f \in Opened /\ (~(received /\ f = i) => Readable(sock[f]))
    /\ f \in writefds => f \in Opened /\ Unsent(client[f]) # <<>> /\ Writable(sock[f])

Asked == pc \in {"scan", "send"} => \A f \in Fds : Ahead(f) => Reported(f)

Loop ==
    /\ pc \in {"select", "scan", "send", "returned"} /\ received \in BOOLEAN
    /\ i \in 0..max_fds /\ taken \in Nat
    /\ peers \in 0..MaxPeers /\ backlog \in 0..peers
    /\ pc = "select" => readfds = master_read /\ writefds = master_write
    /\ pc = "scan" /\ i = server_fd /\ server_fd \in readfds => backlog > 0
    /\ pc # "send" => taken = 0
    /\ pc = "send" => i \in Opened /\ taken < Len(Unsent(client[i]))
    /\ Asked

SelectV1Inv == Sizes /\ Maps /\ SlotsOK /\ Sets /\ Loop

-----------------------------------------------------------------------------
(* A client of which the present send took some bytes.                     *)

\* Of client k the kernel took m bytes more than the offset says: p is a client as
\* before, with the other bytes unsent.
LEMMA TakenProps ==
    ASSUME NEW k, IsSlot(k), NEW m \in 0..Len(Unsent(k)), NEW p,
           p = [k EXCEPT !.send_offset = @ + m]
    PROVE  /\ IsSlot(p) /\ p.client_fd = k.client_fd
           /\ Unsent(p) = Rest(m, Unsent(k))
           /\ Len(Unsent(p)) = Len(Unsent(k)) - m
           /\ m = 0 => p = k
  <1>1. /\ k = [x \in SlotFields |-> k[x]] /\ BufferType(k)
        /\ p = [x \in SlotFields |-> p[x]] /\ DOMAIN p = SlotFields
    BY DEF IsSlot, IsClient
  <1>2. /\ p.send_offset = k.send_offset + m /\ p.send_buf = k.send_buf
        /\ p.recv_message = k.recv_message /\ p.client_fd = k.client_fd
    BY <1>1 DEF SlotFields
  <1>3. /\ k.send_buf \in Stream /\ k.send_offset \in 0..Len(k.send_buf)
        /\ Len(k.send_buf) \in Nat
        /\ Len(Unsent(k)) = Len(k.send_buf) - k.send_offset
    BY <1>1, UnsentProps DEF BufferType, Stream
  <1>4. p.send_offset \in 0..Len(p.send_buf)
    BY <1>2, <1>3
  <1>5. IsSlot(p)
    BY <1>1, <1>2, <1>4 DEF IsSlot, IsClient, BufferType, SlotFields
  <1>6. m \in 0..(Len(k.send_buf) - k.send_offset)
    BY <1>3
  <1>7. Rest(m, Rest(k.send_offset, k.send_buf)) = Rest(k.send_offset + m, k.send_buf)
    BY <1>3, <1>6, RestRest DEF Stream
  <1>8. Unsent(p) = Rest(m, Unsent(k))
    BY <1>2, <1>7 DEF Unsent
  <1>9. Len(Unsent(p)) = Len(Unsent(k)) - m
    <2>1. Len(Unsent(p)) = Len(p.send_buf) - p.send_offset
      BY <1>5, UnsentProps DEF IsSlot
    <2> QED
      BY <2>1, <1>2, <1>3
  <1>10. m = 0 => p = k
    BY <1>1, <1>2, <1>3
  <1> QED
    BY <1>2, <1>5, <1>8, <1>9, <1>10

\* The bytes that the kernel takes next: when none is left, the client is as if send
\* had taken them all at once.
LEMMA TakenMore ==
    ASSUME NEW k, IsSlot(k), NEW m \in 0..Len(Unsent(k)), NEW p,
           p = [k EXCEPT !.send_offset = @ + m], NEW n \in 0..Len(Unsent(p))
    PROVE  /\ n = Len(Unsent(p)) <=> m + n = Len(Unsent(k))
           /\ n = Len(Unsent(p)) => AfterSending(k, m + n) = AfterSending(p, n)
           /\ n # Len(Unsent(p)) =>
                 AfterSending(p, n) = [k EXCEPT !.send_offset = @ + (m + n)]
  <1>0. IsSlot(p) /\ Len(Unsent(p)) = Len(Unsent(k)) - m
    BY TakenProps
  <1>1. /\ k = [x \in SlotFields |-> k[x]] /\ p = [x \in SlotFields |-> p[x]]
        /\ Len(Unsent(p)) = Len(Unsent(k)) - m
        /\ Len(Unsent(k)) \in Nat /\ k.send_offset \in Nat
    BY <1>0, UnsentProps DEF IsSlot, IsClient
  <1>2. n = Len(Unsent(p)) <=> m + n = Len(Unsent(k))
    BY <1>1
  <1>3. ASSUME n = Len(Unsent(p)) PROVE AfterSending(k, m + n) = AfterSending(p, n)
    <2>1. AfterSending(k, m + n) = Emptied(k) /\ AfterSending(p, n) = Emptied(p)
      BY <1>2, <1>3 DEF AfterSending
    <2>2. Emptied(p) = Emptied(k)
      BY <1>1 DEF Emptied, SlotFields
    <2> QED
      BY <2>1, <2>2
  <1>4. ASSUME n # Len(Unsent(p))
        PROVE  AfterSending(p, n) = [k EXCEPT !.send_offset = @ + (m + n)]
    <2>1. AfterSending(p, n) = [p EXCEPT !.send_offset = @ + n]
      BY <1>4 DEF AfterSending
    <2>2. p.send_offset = k.send_offset + m
      BY <1>1 DEF SlotFields
    <2>3. (k.send_offset + m) + n = k.send_offset + (m + n)
      BY <1>1
    <2> QED
      BY <1>1, <2>1, <2>2, <2>3 DEF SlotFields
  <1> QED
    BY <1>2, <1>3, <1>4

\* What a peer does takes no room from a send.
LEMMA PeerWritable ==
    ASSUME NEW s, IsSock(s), SockType(s), NEW t,
           \/ \E n \in Nat : t = PeerSend(s, n)
           \/ t = PeerFin(s)
           \/ t = PeerReset(s)
           \/ t = PeerRead(s, Len(s.outq))
    PROVE  Writable(s) => Writable(t)
  <1>0. DOMAIN s = {"sent", "inq", "outq", "got", "fin", "rst"}
    BY DEF IsSock
  <1>1. ASSUME NEW n \in Nat, t = PeerSend(s, n) PROVE t.outq = s.outq /\ t.rst = s.rst
    BY <1>0, <1>1 DEF PeerSend, IsSock
  <1>2. ASSUME t = PeerFin(s) PROVE t.outq = s.outq /\ t.rst = s.rst
    BY <1>0, <1>2 DEF PeerFin, IsSock
  <1>3. ASSUME t = PeerReset(s) PROVE t.rst
    BY <1>0, <1>3 DEF PeerReset, IsSock
  <1>4. ASSUME t = PeerRead(s, Len(s.outq)) PROVE Room(t) > 0
    <2>1. t.outq = Rest(Len(s.outq), s.outq)
      BY <1>0, <1>4 DEF PeerRead, IsSock
    <2>2. t.outq = <<>>
      BY <2>1, SplitEnds DEF SockType
    <2>3. Len(t.outq) = 0
      BY <2>2, EmptySeq
    <2> QED
      BY <2>3, SockAssumption DEF Room
  <1> QED
    BY <1>1, <1>2, <1>3, <1>4 DEF Writable, Room

-----------------------------------------------------------------------------
(* The steps.                                                              *)

\* An entry has a descriptor, its own, exactly while it is in use; else it is empty.
LEMMA OpenedProps ==
    ASSUME Maps, SlotsOK
    PROVE  /\ Opened = {f \in Array : client[f] # NoClient}
           /\ \A f \in Opened :
                 /\ f \in Array /\ f \in Fds /\ client[f].client_fd = f /\ IsSlot(client[f])
                 /\ SlotOK(Present(f), sock[f], newlines[f], f \in overflowed)
           /\ DOMAIN client = Array
  <1>1. DOMAIN client = Array
    BY DEF Maps
  <1>2. NoClient.client_fd = -1
    BY DEF NoClient
  <1>3. \A f \in Fds : f # -1
    BY DEF Fds
  <1> QED
    BY <1>1, <1>2, <1>3 DEF SlotsOK, SlotGood, Opened

SameFd(f) ==
    /\ Present(f)' = Present(f) /\ sock'[f] = sock[f] /\ newlines'[f] = newlines[f]
    /\ f \in overflowed' <=> f \in overflowed

\* A step that touches one entry at most.
LEMMA OneSlot ==
    ASSUME Maps, SlotsOK, NEW t, t \in Array => SlotGood(t)',
           \A f \in Array \ {t} : client'[f] = client[f] /\ (f \in Opened => SameFd(f))
    PROVE  SlotsOK'
  <1> SUFFICES ASSUME NEW f \in Array PROVE SlotGood(f)'
    BY DEF SlotsOK, Array
  <1>1. CASE f = t
    BY <1>1
  <1>2. CASE f # t
    <2>1. client'[f] = client[f] /\ (f \in Opened => SameFd(f))
      BY <1>2
    <2>2. CASE f \in Opened
      <3>1. /\ f \in Fds /\ client[f].client_fd = f /\ IsSlot(client[f])
            /\ SlotOK(Present(f), sock[f], newlines[f], f \in overflowed)
        BY <2>2, OpenedProps
      <3>2. SlotOK(Present(f)', sock'[f], newlines'[f], f \in overflowed')
        BY <2>1, <2>2, <3>1 DEF SameFd, SlotOK
      <3> QED
        BY <2>1, <3>1, <3>2 DEF SlotGood, Fds
    <2>3. CASE f \notin Opened
      BY <2>1, <2>3, OpenedProps DEF SlotGood
    <2> QED
      BY <2>2, <2>3
  <1> QED
    BY <1>1, <1>2

\* A step that touches no client, and no descriptor.
LEMMA NoSlot ==
    ASSUME SelectV1Inv, UNCHANGED <<client, sock, newlines, overflowed>>,
           pc' # "send" \/ UNCHANGED <<pc, i, taken>>, pc # "send" \/ UNCHANGED <<pc, i, taken>>
    PROVE  Maps' /\ SlotsOK' /\ Opened' = Opened /\ Sizes'
  <1>1. \A f \in Array : Present(f)' = Present(f)
    BY DEF Present
  <1>2. Maps' /\ Opened' = Opened /\ Sizes'
    BY DEF SelectV1Inv, Maps, Opened, Sizes, Array, Fds
  <1>3. SlotsOK'
    <2>1. \A f \in Array : client'[f] = client[f] /\ (f \in Opened => SameFd(f))
      BY <1>1 DEF SameFd
    <2>2. -1 \notin Array
      BY DEF Array
    <2> QED
      BY <2>1, <2>2, OneSlot DEF SelectV1Inv
  <1> QED
    BY <1>2, <1>3

\* The first state.
LEMMA SelectV1InitInv == Sizes /\ Init => SelectV1Inv
  <1> SUFFICES ASSUME Sizes, Init PROVE SelectV1Inv
    OBVIOUS
  <1> USE DEF Init
  <1>1. \A f \in Array : client[f] = NoClient
    BY DEF Array
  <1>2. SlotsOK
    BY <1>1 DEF SlotsOK, SlotGood
  <1>3. Maps
    <2>1. IsSock(NewSock) /\ SockType(NewSock)
      <3>1. <<>> \in Seq(1..MaxBytes) /\ Len(<<>>) = 0
        BY EmptySeq
      <3> QED
        BY <3>1, SockAssumption DEF SockType, NewSock, IsSock
    <2>2. client = [f \in Array |-> client[f]] /\ sock = [f \in Fds |-> sock[f]]
      BY DEF Array
    <2> QED
      BY <2>1, <2>2 DEF Maps
  <1>4. Opened = {}
    BY <1>1, <1>2, <1>3, OpenedProps
  <1>5. Sets
    <2>1. server_fd < MAX_CONNECTIONS /\ server_fd <= server_fd
      BY DEF Sizes, server_fd
    <2>2. SetsMatch
      BY <1>4, <2>1 DEF SetsMatch
    <2> QED
      BY <2>2 DEF Sets
  <1>6. Loop
    <2>1. pc = "select" /\ pc # "scan" /\ pc # "send" /\ received = FALSE /\ taken = 0
      OBVIOUS
    <2>2. i \in 0..max_fds /\ peers \in 0..MaxPeers /\ backlog \in 0..peers /\ taken \in Nat
      BY DEF Sizes, server_fd
    <2>3. readfds = master_read /\ writefds = master_write
      OBVIOUS
    <2>4. Asked
      BY <2>1 DEF Asked
    <2> QED
      BY <2>1, <2>2, <2>3, <2>4 DEF Loop
  <1> QED
    BY <1>2, <1>3, <1>5, <1>6 DEF SelectV1Inv

\* A peer connects.
LEMMA ConnectStep ==
    ASSUME SelectV1Inv, Connect
    PROVE  SelectV1Inv'
  <1>0. /\ peers < MaxPeers /\ peers' = peers + 1 /\ backlog' = backlog + 1
        /\ UNCHANGED <<client, master_read, master_write, readfds, writefds, max_fds, pc, i,
                       received, taken, sock, newlines, overflowed>>
    BY DEF Connect, setVars, loopVars
  <1>1. Maps' /\ SlotsOK' /\ Opened' = Opened /\ Sizes'
    BY <1>0, NoSlot
  <1>2. Sets'
    BY <1>0, <1>1 DEF SelectV1Inv, Sets, SetsMatch, Fds, server_fd
  <1>3. peers' \in 0..MaxPeers /\ backlog' \in 0..peers' /\ (backlog > 0 => backlog' > 0)
    BY <1>0 DEF SelectV1Inv, Sizes, Loop
  <1>4. Asked'
    BY <1>0, <1>1 DEF SelectV1Inv, Loop, Asked, Ahead, Reported, Fds
  <1>5. Loop'
    BY <1>0, <1>1, <1>3, <1>4 DEF SelectV1Inv, Loop
  <1> QED
    BY <1>1, <1>2, <1>5 DEF SelectV1Inv

\* What the peer at f does to its socket.
LEMMA PeerStep ==
    ASSUME SelectV1Inv, NEW f \in Fds, NEW t, Peer(f, t),
           \/ \E n \in Nat : /\ CanSend(sock[f]) /\ sock[f].sent + n <= MaxBytes
                             /\ t = PeerSend(sock[f], n)
           \/ CanSend(sock[f]) /\ t = PeerFin(sock[f])
           \/ t = PeerReset(sock[f])
           \/ t = PeerRead(sock[f], Len(sock[f].outq))
    PROVE  SelectV1Inv'
  <1>0. /\ sock' = [sock EXCEPT ![f] = t] /\ f \in Opened
        /\ UNCHANGED <<client, master_read, master_write, readfds, writefds, max_fds, pc, i,
                       received, taken, peers, backlog, newlines, overflowed>>
    BY DEF Peer, setVars, loopVars
  <1>1. /\ IsSock(sock[f]) /\ SockType(sock[f])
        /\ sock'[f] = t /\ \A g \in Fds \ {f} : sock'[g] = sock[g]
        /\ sock' = [g \in Fds |-> sock'[g]]
    BY <1>0 DEF SelectV1Inv, Maps
  <1>2. IsSock(t) /\ SockType(t) /\ (Readable(sock[f]) => Readable(t))
    BY <1>1, SlotPeer
  <1>3. Writable(sock[f]) => Writable(t)
    BY <1>1, PeerWritable
  <1>4. ASSUME NEW k, NEW nl, NEW o \in BOOLEAN, SlotOK(k, sock[f], nl, o)
        PROVE  SlotOK(k, t, nl, o)
    BY <1>1, <1>4, SlotPeer
  <1>5. Maps' /\ Opened' = Opened /\ Sizes' /\ \A g \in Array : Present(g)' = Present(g)
    BY <1>0, <1>1, <1>2 DEF SelectV1Inv, Maps, Opened, Sizes, Array, Fds, Present
  <1>6. SlotsOK'
    <2>1. /\ f \in Array /\ client[f].client_fd = f /\ IsSlot(client[f])
          /\ SlotOK(Present(f), sock[f], newlines[f], f \in overflowed)
      BY <1>0, OpenedProps DEF SelectV1Inv
    <2>2. SlotOK(Present(f), t, newlines[f], f \in overflowed)
      <3> DEFINE o == f \in overflowed
      <3>1. o \in BOOLEAN /\ SlotOK(Present(f), sock[f], newlines[f], o)
        BY <2>1
      <3> HIDE DEF o
      <3>2. SlotOK(Present(f), t, newlines[f], o)
        BY <1>4, <3>1
      <3> QED
        BY <3>2 DEF o
    <2>3. SlotGood(f)'
      BY <1>0, <1>1, <1>5, <2>1, <2>2 DEF SlotGood, Fds
    <2>4. \A g \in Array \ {f} : client'[g] = client[g] /\ (g \in Opened => SameFd(g))
      BY <1>0, <1>1, <1>5, OpenedProps DEF SameFd, SelectV1Inv
    <2> QED
      BY <2>3, <2>4, OneSlot DEF SelectV1Inv
  <1>7. Sets'
    BY <1>0, <1>5 DEF SelectV1Inv, Sets, SetsMatch, Fds, server_fd
  <1>8. Asked'
    <2> SUFFICES ASSUME pc \in {"scan", "send"}, NEW g \in Fds, Ahead(g)
                 PROVE  Reported(g)'
      BY <1>0 DEF Asked, Ahead, Fds
    <2>1. Reported(g)
      BY DEF SelectV1Inv, Loop, Asked
    <2>2. (Readable(sock[g]) => Readable(sock'[g])) /\ (Writable(sock[g]) => Writable(sock'[g]))
      BY <1>1, <1>2, <1>3
    <2> QED
      BY <1>0, <1>5, <2>1, <2>2 DEF Reported
  <1>9. Loop'
    BY <1>0, <1>5, <1>8 DEF SelectV1Inv, Loop
  <1> QED
    BY <1>5, <1>6, <1>7, <1>9 DEF SelectV1Inv

\* The four things a peer does.
LEMMA PeersStep ==
    ASSUME SelectV1Inv, NEW f \in Fds
    PROVE  /\ Fin(f) => SelectV1Inv'
           /\ Reset(f) => SelectV1Inv'
           /\ Read(f) => SelectV1Inv'
           /\ \A n \in 1..MaxBytes : Send(f, n) => SelectV1Inv'
  <1>1. Fin(f) => SelectV1Inv'
    BY PeerStep DEF Fin
  <1>2. Reset(f) => SelectV1Inv'
    BY PeerStep DEF Reset
  <1>3. Read(f) => SelectV1Inv'
    BY PeerStep DEF Read
  <1>4. ASSUME NEW n \in 1..MaxBytes, Send(f, n) PROVE SelectV1Inv'
    <2>1. MaxSent[f] \in 0..MaxBytes /\ MaxBytes \in Nat
      BY SockAssumption DEF SelectV1Inv, Sizes
    <2>2. sock[f].sent \in Nat
      BY DEF SelectV1Inv, Maps, SockType
    <2>3. n \in Nat /\ sock[f].sent + n <= MaxBytes
      BY <1>4, <2>1, <2>2 DEF Send
    <2> QED
      BY <1>4, <2>3, PeerStep DEF Send
  <1> QED
    BY <1>1, <1>2, <1>3, <1>4

\* select's result is a part of what was asked for, and true of the sockets.
LEMMA SelectStep ==
    ASSUME SelectV1Inv, Select
    PROVE  SelectV1Inv'
  <1>0. /\ pc = "select" /\ pc' = "scan" /\ readfds = master_read /\ writefds = master_write
        /\ UNCHANGED <<client, master_read, master_write, max_fds, i, received, taken,
                       peers, backlog, sock, newlines, overflowed>>
    BY DEF SelectV1Inv, Loop, Select, peerVars
  <1>1. /\ readfds' = {f \in readfds : f <= max_fds /\ ReadReady(f)}
        /\ writefds' = {f \in writefds : f <= max_fds /\ Writable(sock[f])}
    BY DEF Select
  <1>2. Maps' /\ SlotsOK' /\ Opened' = Opened /\ Sizes'
    BY <1>0, NoSlot
  <1>3. SetsMatch
    BY <1>0 DEF SelectV1Inv, Sets
  <1>4. Sets'
    BY <1>0, <1>1, <1>2 DEF SelectV1Inv, Sets, SetsMatch, Fds, server_fd
  <1>5. Asked'
    <2> SUFFICES ASSUME NEW f \in Fds
                 PROVE  /\ f \in readfds' => f \in Opened /\ Readable(sock[f])
                        /\ f \in writefds' => /\ f \in Opened /\ Unsent(client[f]) # <<>>
                                              /\ Writable(sock[f])
      BY <1>0, <1>2 DEF Asked, Reported, Fds
    <2>1. f # server_fd
      BY DEF Fds, server_fd
    <2>2. f \in master_read => f \in Opened
      BY <1>0, <1>3, <2>1 DEF SetsMatch
    <2>3. f \in master_write => f \in Opened /\ Unsent(client[f]) # <<>>
      BY <1>0, <1>3 DEF SetsMatch
    <2> QED
      BY <1>0, <1>1, <2>1, <2>2, <2>3 DEF ReadReady
  <1>6. server_fd \in readfds' => backlog > 0
    BY <1>1 DEF ReadReady
  <1>7. Loop'
    BY <1>0, <1>2, <1>5, <1>6 DEF SelectV1Inv, Loop
  <1> QED
    BY <1>2, <1>4, <1>7 DEF SelectV1Inv

\* The program ends: every entry is freed.
LEMMA SelectFailsStep ==
    ASSUME SelectV1Inv, SelectFails
    PROVE  SelectV1Inv'
  <1>0. /\ pc' = "returned" /\ pc = "select" /\ client' = [f \in DOMAIN client |-> NoClient]
        /\ UNCHANGED <<master_read, master_write, readfds, writefds, max_fds, i, received, taken,
                       peers, backlog, sock, newlines, overflowed>>
    BY DEF SelectFails, setVars, peerVars
  <1>1. client' = [f \in Array |-> NoClient]
    BY <1>0 DEF SelectV1Inv, Maps
  <1>2. Maps' /\ SlotsOK' /\ Sizes'
    BY <1>0, <1>1 DEF SelectV1Inv, Maps, SlotsOK, SlotGood, Sizes, Array, Fds
  <1>3. Sets'
    BY <1>0 DEF SelectV1Inv, Sets, SetsMatch, Fds, server_fd
  <1>4. Loop'
    BY <1>0 DEF SelectV1Inv, Loop, Asked
  <1> QED
    BY <1>2, <1>3, <1>4 DEF SelectV1Inv

\* The loop goes on to the next descriptor, or back to select with copies of the
\* master sets: what it still has to look at is as it was.
LEMMA Advanced ==
    ASSUME SelectV1Inv, pc \in {"scan", "send"}, Advance,
           peers' \in 0..MaxPeers, backlog' \in 0..peers',
           master_read' \subseteq Fds \cup {server_fd}, master_write' \subseteq Fds,
           max_fds' \in Fds \cup {server_fd}, max_fds <= max_fds',
           \A f \in Opened : f > i => /\ f \in Opened' /\ client'[f] = client[f]
                                      /\ sock'[f] = sock[f]
    PROVE  /\ Loop' /\ pc' \in {"select", "scan"}
           /\ readfds' \subseteq Fds \cup {server_fd} /\ writefds' \subseteq Fds
  <1>0. /\ i \in Nat /\ max_fds' \in Nat /\ i <= max_fds' /\ received' = FALSE /\ taken' = 0
        /\ readfds \subseteq Fds \cup {server_fd} /\ writefds \subseteq Fds /\ Asked
    BY DEF SelectV1Inv, Loop, Sets, Sizes, Fds, server_fd, Advance
  <1>1. CASE i = max_fds'
    <2>1. i' = 0 /\ pc' = "select" /\ readfds' = master_read' /\ writefds' = master_write'
      BY <1>1 DEF Advance
    <2>2. Asked'
      BY <2>1 DEF Asked
    <2>3. i' \in 0..max_fds' /\ pc' # "scan" /\ pc' # "send"
      BY <1>0, <2>1
    <2>4. Loop'
      BY <1>0, <2>1, <2>2, <2>3 DEF Loop
    <2> QED
      BY <2>1, <2>4
  <1>2. CASE i # max_fds'
    <2>1. i' = i + 1 /\ pc' = "scan" /\ readfds' = readfds /\ writefds' = writefds
      BY <1>2 DEF Advance
    <2>2. Asked'
      <3> SUFFICES ASSUME NEW f \in Fds, f >= i + 1
                   PROVE  Reported(f)'
        BY <1>0, <2>1 DEF Asked, Ahead, Fds, SelectV1Inv, Sizes
      <3>1. f > i /\ f # i
        BY <1>0 DEF Fds, SelectV1Inv, Sizes
      <3>2. Reported(f)
        BY <1>0, <3>1 DEF Asked, Ahead
      <3>3. f \in Opened => f \in Opened' /\ client'[f] = client[f] /\ sock'[f] = sock[f]
        BY <3>1
      <3> QED
        BY <2>1, <3>1, <3>2, <3>3 DEF Reported
    <2>3. i' \in 0..max_fds' /\ i' # server_fd
      BY <1>0, <1>2, <2>1 DEF server_fd
    <2>4. i' # server_fd'
      BY <2>3 DEF server_fd
    <2>5. pc' # "select" /\ pc' # "send" /\ taken' \in Nat /\ received' \in BOOLEAN
      BY <1>0, <2>1
    <2>6. Loop'
      BY <1>0, <2>1, <2>2, <2>3, <2>4, <2>5 DEF Loop
    <2> QED
      BY <1>0, <2>1, <2>6
  <1> QED
    BY <1>1, <1>2

\* The loop goes on, and nothing else changes.
LEMMA PassedBy ==
    ASSUME SelectV1Inv, pc = "scan", Advance, backlog' \in 0..peers,
           UNCHANGED <<client, master_read, master_write, max_fds, peers, sock, newlines,
                       overflowed>>
    PROVE  SelectV1Inv'
  <1>1. /\ master_read' \subseteq Fds \cup {server_fd} /\ master_write' \subseteq Fds
        /\ max_fds' \in Fds \cup {server_fd} /\ max_fds <= max_fds'
        /\ peers' \in 0..MaxPeers /\ backlog' \in 0..peers' /\ Opened' = Opened
    BY DEF SelectV1Inv, Sets, Loop, Opened, Sizes, Fds, server_fd
  <1>2. /\ Loop' /\ pc' \in {"select", "scan"}
        /\ readfds' \subseteq Fds \cup {server_fd} /\ writefds' \subseteq Fds
    BY <1>1, Advanced
  <1>3. Maps' /\ SlotsOK' /\ Opened' = Opened /\ Sizes'
    BY <1>2, NoSlot
  <1>4. Sets'
    BY <1>1, <1>2, <1>3 DEF SelectV1Inv, Sets, SetsMatch, Fds, server_fd
  <1> QED
    BY <1>2, <1>3, <1>4 DEF SelectV1Inv

\* The descriptor was not reported, or accept failed.
LEMMA SkipStep ==
    ASSUME SelectV1Inv, Skip \/ AcceptFails
    PROVE  SelectV1Inv'
  <1>1. /\ pc = "scan" /\ Advance
        /\ UNCHANGED <<client, master_read, master_write, max_fds, peers, backlog, sock,
                       newlines, overflowed>>
    BY DEF Skip, AcceptFails, peerVars
  <1>2. backlog' \in 0..peers
    BY <1>1 DEF SelectV1Inv, Loop
  <1> QED
    BY <1>1, <1>2, PassedBy

\* accept returned a descriptor: its entry, which was free, is in neither set of
\* select's result; or it is closed at once, because the array has no entry for it.
LEMMA AcceptStep ==
    ASSUME SelectV1Inv, Accept
    PROVE  SelectV1Inv'
  <1>0. /\ pc = "scan" /\ i = server_fd /\ server_fd \in readfds /\ backlog' = backlog - 1
        /\ Fds \ Opened # {} /\ UNCHANGED <<master_write, peers>> /\ Advance
    BY DEF Accept
  <1>1. backlog' \in 0..peers
    BY <1>0 DEF SelectV1Inv, Loop, Sizes
  <1>2. PICK f : f = Min(Fds \ Opened)
    OBVIOUS
  <1>3. f \in Fds /\ f \notin Opened /\ f \in Nat /\ f # server_fd /\ f # -1
    <2>1. Fds \ Opened \in SUBSET Nat
      BY DEF Fds
    <2>2. f \in Fds \ Opened
      BY <1>0, <1>2, <2>1, MinNat
    <2> QED
      BY <2>2 DEF Fds, server_fd
  <1>4. CASE TooHigh(f)
    <2>1. UNCHANGED <<client, master_read, max_fds, sock, newlines, overflowed>>
      BY <1>2, <1>4 DEF Accept
    <2> QED
      BY <1>0, <1>1, <2>1, PassedBy
  <1>5. CASE ~TooHigh(f)
    <2>1. /\ client' = [client EXCEPT ![f].client_fd = f, ![f].recv_message = <<>>]
          /\ master_read' = master_read \cup {f}
          /\ max_fds' = Max({max_fds, f})
          /\ sock' = [sock EXCEPT ![f] = NewSock]
          /\ \E nl \in SUBSET (1..MaxSent[f]) : newlines' = [newlines EXCEPT ![f] = nl]
          /\ overflowed' = overflowed \ {f}
      BY <1>2, <1>5 DEF Accept, RaiseMaxFds
    <2>2. f \in Array /\ client[f] = NoClient
      BY <1>3, <1>5, OpenedProps DEF TooHigh, Array, SelectV1Inv, Sizes
    <2>3. PICK k : k = [client_fd |-> f, recv_message |-> <<>>, send_buf |-> <<>>,
                        send_offset |-> 0]
      OBVIOUS
    <2>4. /\ client'[f] = k /\ \A g \in Array \ {f} : client'[g] = client[g]
          /\ client' = [g \in Array |-> client'[g]]
      BY <2>1, <2>2, <2>3 DEF SelectV1Inv, Maps, NoClient
    <2>5. /\ SlotOK(k, NewSock, newlines'[f], FALSE) /\ Unsent(k) = <<>> /\ k.client_fd = f
          /\ IsSock(NewSock) /\ SockType(NewSock)
      BY <2>3, SlotAdmitted
    <2>6. /\ sock'[f] = NewSock /\ \A g \in Fds \ {f} : sock'[g] = sock[g]
          /\ sock' = [g \in Fds |-> sock'[g]]
          /\ \A g \in Fds \ {f} : newlines'[g] = newlines[g]
      BY <1>3, <2>1 DEF SelectV1Inv, Maps
    <2>7. newlines' \in [Fds -> SUBSET (1..MaxBytes)]
      <3>1. 1..MaxSent[f] \subseteq 1..MaxBytes
        <4>1. MaxSent[f] \in 0..MaxBytes /\ MaxBytes \in Nat
          BY <1>3, SockAssumption DEF SelectV1Inv, Sizes
        <4> QED
          BY <4>1
      <3>2. PICK nl \in SUBSET (1..MaxSent[f]) : newlines' = [newlines EXCEPT ![f] = nl]
        BY <2>1
      <3> QED
        BY <1>3, <3>1, <3>2 DEF SelectV1Inv, Maps
    <2>8. Maps' /\ Sizes'
      BY <2>1, <2>4, <2>5, <2>6, <2>7 DEF SelectV1Inv, Maps, Sizes, Array, Fds
    <2>9. pc' # "send"
      BY <1>0 DEF Advance
    <2>10. \A g \in Array : Present(g)' = client'[g] /\ Present(g) = client[g]
      BY <1>0, <2>9 DEF Present
    <2>11. SlotsOK'
      <3>1. SlotGood(f)'
        <4>1. IsSlot(k)
          BY <2>5 DEF IsSlot, SlotOK
        <4>2. f \notin overflowed'
          BY <2>1
        <4>3. SlotOK(Present(f)', sock'[f], newlines'[f], f \in overflowed')
          BY <2>2, <2>4, <2>5, <2>6, <2>10, <4>2 DEF SlotOK
        <4> QED
          BY <1>3, <2>4, <2>5, <4>1, <4>3 DEF SlotGood, Fds
      <3>2. \A g \in Array \ {f} : client'[g] = client[g] /\ (g \in Opened => SameFd(g))
        BY <2>1, <2>4, <2>6, <2>10, OpenedProps DEF SameFd, SelectV1Inv
      <3> QED
        BY <3>1, <3>2, OneSlot DEF SelectV1Inv
    <2>12. Opened' = Opened \cup {f}
      <3>1. DOMAIN client' = Array /\ DOMAIN client = Array
        BY <2>4 DEF SelectV1Inv, Maps
      <3> QED
        BY <1>3, <2>2, <2>4, <2>5, <3>1 DEF Opened
    <2>13. /\ max_fds' \in Fds \cup {server_fd} /\ max_fds <= max_fds' /\ f <= max_fds'
           /\ max_fds \in Nat /\ max_fds' \in Nat
      <3>1. max_fds \in Nat /\ {max_fds, f} \subseteq Nat /\ max_fds + f \in Nat
        BY <1>3 DEF SelectV1Inv, Sets, Fds, server_fd
      <3>2. \A x \in {max_fds, f} : x <= max_fds + f
        BY <1>3, <3>1
      <3>3. Max({max_fds, f}) \in {max_fds, f} /\ \A y \in {max_fds, f} : y <= Max({max_fds, f})
        BY <3>1, <3>2, MaxNat
      <3> QED
        BY <1>3, <2>1, <3>1, <3>3 DEF SelectV1Inv, Sets
    <2>14. /\ master_read' \subseteq Fds \cup {server_fd} /\ master_write' \subseteq Fds
           /\ peers' \in 0..MaxPeers /\ backlog' \in 0..peers'
      BY <1>0, <1>1, <1>3, <2>1 DEF SelectV1Inv, Sets, Loop
    <2>15. \A g \in Opened : /\ g \in Opened' /\ client'[g] = client[g] /\ sock'[g] = sock[g]
                             /\ g # f
      BY <1>3, <2>4, <2>6, <2>12, OpenedProps DEF SelectV1Inv
    <2>16. /\ Loop' /\ pc' \in {"select", "scan"}
           /\ readfds' \subseteq Fds \cup {server_fd} /\ writefds' \subseteq Fds
      BY <1>0, <2>13, <2>14, <2>15, Advanced
    <2>17. SetsMatch'
      <3>1. /\ master_read = Opened \cup {server_fd}
            /\ master_write = {g \in Opened : Unsent(client[g]) # <<>>}
            /\ \A g \in master_read : g <= max_fds /\ g < MAX_CONNECTIONS
        BY <1>0 DEF SelectV1Inv, Sets, SetsMatch
      <3>2. master_read' = Opened' \cup {server_fd}
        BY <2>1, <2>12, <3>1
      <3>3. master_write' = {g \in Opened' : Unsent(client'[g]) # <<>>}
        BY <1>0, <2>4, <2>5, <2>12, <2>15, <3>1
      <3>4. f < MAX_CONNECTIONS
        BY <1>3, <1>5 DEF TooHigh, SelectV1Inv, Sizes
      <3>5. \A g \in master_read' : g <= max_fds' /\ g < MAX_CONNECTIONS
        <4> TAKE g \in master_read'
        <4>1. g \in Nat
          BY <2>1, <1>3 DEF SelectV1Inv, Sets, Fds, server_fd
        <4> QED
          BY <2>1, <2>13, <3>1, <3>4, <4>1
      <3> QED
        BY <3>2, <3>3, <3>5 DEF SetsMatch
    <2>18. Sets'
      BY <2>13, <2>14, <2>16, <2>17 DEF Sets, Fds, server_fd
    <2> QED
      BY <2>8, <2>11, <2>16, <2>18 DEF SelectV1Inv
  <1> QED
    BY <1>4, <1>5

\* A call for descriptor i that returns: its client gets l and its socket t; o: a
\* buffer was too small.
Called(l, t, o) ==
    /\ client' = [client EXCEPT ![i] = l]
    /\ sock' = [sock EXCEPT ![i] = t]
    /\ overflowed' = IF o THEN overflowed \cup {i} ELSE overflowed
    /\ pc' # "send"
    /\ UNCHANGED <<max_fds, peers, backlog, newlines>>

\* What such a call leaves alone.
LEMMA CallLeaves ==
    ASSUME SelectV1Inv, i \in Opened, NEW l, NEW t, NEW o \in BOOLEAN,
           Called(l, t, o), IsSock(t), SockType(t)
    PROVE  /\ i \in Array /\ i \in Fds /\ client'[i] = l /\ sock'[i] = t
           /\ newlines' = newlines
           /\ i \in overflowed' <=> (i \in overflowed \/ o)
           /\ \A f \in Array \ {i} : client'[f] = client[f] /\ (f \in Opened => SameFd(f))
           /\ Maps' /\ Sizes' /\ DOMAIN client' = Array /\ DOMAIN client = Array
  <1>0. Maps /\ SlotsOK /\ Sizes
    BY DEF SelectV1Inv
  <1>1. /\ i \in Array /\ i \in Fds /\ DOMAIN client = Array
        /\ \A f \in Opened : f \in Fds
    BY <1>0, OpenedProps
  <1>2. /\ client'[i] = l /\ \A f \in Array \ {i} : client'[f] = client[f]
        /\ client' = [f \in Array |-> client'[f]]
    BY <1>0, <1>1 DEF Called, Maps
  <1>3. /\ sock'[i] = t /\ \A f \in Fds \ {i} : sock'[f] = sock[f]
        /\ sock' = [f \in Fds |-> sock'[f]]
    BY <1>0, <1>1 DEF Called, Maps
  <1>4. /\ newlines' = newlines /\ overflowed' \subseteq Fds
        /\ i \in overflowed' <=> (i \in overflowed \/ o)
        /\ \A f \in Array \ {i} : f \in overflowed' <=> f \in overflowed
    BY <1>0, <1>1 DEF Called, Maps
  <1>5. Maps' /\ Sizes'
    BY <1>0, <1>2, <1>3, <1>4 DEF Maps, Sizes, Array, Fds
  <1>6. \A f \in Array \ {i} : Present(f)' = Present(f)
    BY <1>2 DEF Present, Called
  <1>7. \A f \in Array \ {i} : f \in Opened => SameFd(f)
    BY <1>1, <1>3, <1>4, <1>6 DEF SameFd
  <1> QED
    BY <1>1, <1>2, <1>3, <1>4, <1>5, <1>7

\* The connection at i is closed: its entry, its number in the sets and the number
\* itself are free.
LEMMA CallCloses ==
    ASSUME SelectV1Inv, pc \in {"scan", "send"}, i \in Opened, NEW t, NEW o \in BOOLEAN,
           Called(NoClient, t, o), IsSock(t), SockType(t), Advance,
           master_read' = master_read \ {i}, master_write' = master_write \ {i}
    PROVE  SelectV1Inv'
  <1>1. /\ i \in Array /\ i \in Fds /\ client'[i] = NoClient /\ newlines' = newlines
        /\ \A f \in Array \ {i} : client'[f] = client[f] /\ (f \in Opened => SameFd(f))
        /\ Maps' /\ Sizes' /\ DOMAIN client' = Array /\ DOMAIN client = Array
    <2>1. PICK l : l = NoClient
      OBVIOUS
    <2>2. Called(l, t, o)
      BY <2>1
    <2>3. /\ i \in Array /\ i \in Fds /\ client'[i] = l /\ newlines' = newlines
          /\ \A f \in Array \ {i} : client'[f] = client[f] /\ (f \in Opened => SameFd(f))
          /\ Maps' /\ Sizes' /\ DOMAIN client' = Array /\ DOMAIN client = Array
      BY <2>2, CallLeaves
    <2> QED
      BY <2>1, <2>3
  <1>2. /\ max_fds' = max_fds /\ peers' = peers /\ backlog' = backlog
    BY DEF Called
  <1>3. SlotsOK'
    <2>1. PICK j : j = i
      OBVIOUS
    <2>2. SlotGood(j)'
      BY <1>1, <2>1 DEF SlotGood
    <2>3. \A f \in Array \ {j} : client'[f] = client[f] /\ (f \in Opened => SameFd(f))
      BY <1>1, <2>1
    <2> QED
      BY <2>2, <2>3, OneSlot DEF SelectV1Inv
  <1>4. Opened' = Opened \ {i}
    BY <1>1 DEF Opened, NoClient
  <1>5. /\ master_read' \subseteq Fds \cup {server_fd} /\ master_write' \subseteq Fds
        /\ max_fds' \in Fds \cup {server_fd} /\ max_fds <= max_fds'
        /\ peers' \in 0..MaxPeers /\ backlog' \in 0..peers'
    BY <1>2 DEF SelectV1Inv, Sets, Loop, Sizes, Fds, server_fd
  <1>6. \A f \in Opened : f # i => /\ f \in Opened' /\ client'[f] = client[f]
                                   /\ sock'[f] = sock[f]
    BY <1>1, <1>4 DEF SameFd, Opened
  <1>7. \A f \in Opened : f > i => f # i
    BY <1>1 DEF Fds, SelectV1Inv, Sizes
  <1>8. /\ Loop' /\ pc' \in {"select", "scan"}
        /\ readfds' \subseteq Fds \cup {server_fd} /\ writefds' \subseteq Fds
    BY <1>5, <1>6, <1>7, Advanced
  <1>9. SetsMatch'
    <2>0. /\ master_read = Opened \cup {server_fd}
          /\ master_write = {f \in Opened : Unsent(client[f]) # <<>>}
          /\ \A f \in master_read : f <= max_fds /\ f < MAX_CONNECTIONS
      BY DEF SelectV1Inv, Sets, SetsMatch
    <2>1. i # server_fd
      BY <1>1 DEF Fds, server_fd
    <2>2. master_read' = Opened' \cup {server_fd}
      BY <1>4, <2>0, <2>1
    <2>3. master_write' = {f \in Opened' : Unsent(client'[f]) # <<>>}
      BY <1>4, <1>6, <2>0
    <2>4. \A f \in master_read' : f <= max_fds' /\ f < MAX_CONNECTIONS
      BY <1>2, <2>0
    <2> QED
      BY <2>2, <2>3, <2>4 DEF SetsMatch
  <1>10. Sets'
    BY <1>5, <1>8, <1>9 DEF Sets, Fds, server_fd
  <1> QED
    BY <1>1, <1>3, <1>8, <1>10 DEF SelectV1Inv

\* A call that does not close: the client, the socket and master_write change
\* together.
LEMMA CallKeeps ==
    ASSUME SelectV1Inv, pc # "returned", i \in Opened, NEW l, NEW t, NEW o \in BOOLEAN,
           Called(l, t, o), UNCHANGED master_read, l.client_fd = i,
           master_write' = IF Unsent(l) # <<>> THEN master_write \cup {i}
                                               ELSE master_write \ {i},
           SlotOK(l, t, newlines[i], i \in overflowed \/ o)
    PROVE  /\ Maps' /\ SlotsOK' /\ SetsMatch' /\ Sizes' /\ Opened' = Opened
           /\ master_read' \subseteq Fds \cup {server_fd} /\ master_write' \subseteq Fds
           /\ max_fds' = max_fds /\ max_fds' \in Fds \cup {server_fd} /\ max_fds <= max_fds'
           /\ peers' \in 0..MaxPeers /\ backlog' \in 0..peers'
           /\ client'[i] = l /\ sock'[i] = t
           /\ \A f \in Opened \ {i} : client'[f] = client[f] /\ sock'[f] = sock[f]
  <1>1. /\ i \in Array /\ i \in Fds /\ client'[i] = l /\ sock'[i] = t
        /\ newlines' = newlines
        /\ i \in overflowed' <=> (i \in overflowed \/ o)
        /\ \A f \in Array \ {i} : client'[f] = client[f] /\ (f \in Opened => SameFd(f))
        /\ Maps' /\ Sizes' /\ DOMAIN client' = Array /\ DOMAIN client = Array
    <2>1. IsSock(t) /\ SockType(t)
      BY DEF SlotOK
    <2> QED
      BY <2>1, CallLeaves
  <1>2. PICK j : j = i
    OBVIOUS
  <1>3. SlotGood(j)'
    <2>1. IsSlot(l)
      BY DEF SlotOK, IsSlot
    <2>2. SlotOK(Present(j)', sock'[j], newlines'[j], j \in overflowed')
      <3>1. Present(j)' = l
        BY <1>1, <1>2 DEF Present, Called
      <3> QED
        BY <1>1, <1>2, <3>1 DEF SlotOK
    <2> QED
      BY <1>1, <1>2, <2>1, <2>2 DEF SlotGood, Fds
  <1>4. SlotsOK'
    <2>1. \A f \in Array \ {j} : client'[f] = client[f] /\ (f \in Opened => SameFd(f))
      BY <1>1, <1>2
    <2> QED
      BY <1>3, <2>1, OneSlot DEF SelectV1Inv
  <1>5. i # -1
    BY <1>1 DEF Fds
  <1>6. Opened' = Opened
    BY <1>1, <1>5 DEF Opened
  <1>7. /\ master_read' \subseteq Fds \cup {server_fd} /\ master_write' \subseteq Fds
        /\ max_fds' = max_fds /\ max_fds' \in Fds \cup {server_fd} /\ max_fds <= max_fds'
        /\ peers' \in 0..MaxPeers /\ backlog' \in 0..peers'
    BY <1>1 DEF Called, SelectV1Inv, Sets, Loop, Sizes, Fds, server_fd
  <1>8. \A f \in Opened \ {i} : client'[f] = client[f] /\ sock'[f] = sock[f]
    BY <1>1 DEF SameFd, Opened
  <1>9. SetsMatch'
    <2>0. /\ master_read = Opened \cup {server_fd}
          /\ master_write = {f \in Opened : Unsent(client[f]) # <<>>}
          /\ \A f \in master_read : f <= max_fds /\ f < MAX_CONNECTIONS
      BY DEF SelectV1Inv, Sets, SetsMatch
    <2>1. master_write' = {f \in Opened : Unsent(client'[f]) # <<>>}
      <3>1. CASE Unsent(l) # <<>>
        BY <3>1, <1>1, <1>8, <2>0
      <3>2. CASE Unsent(l) = <<>>
        BY <3>2, <1>1, <1>8, <2>0
      <3> QED
        BY <3>1, <3>2
    <2> QED
      BY <1>6, <1>7, <2>0, <2>1 DEF SetsMatch
  <1> QED
    BY <1>1, <1>4, <1>6, <1>7, <1>8, <1>9

\* The descriptor that the loop is at, if select reported it or the server is blocked
\* in its send, is that of an open connection.
LEMMA AtOpened ==
    ASSUME SelectV1Inv, \/ pc = "send"
                        \/ pc = "scan" /\ i # server_fd /\ i \in readfds \cup writefds
    PROVE  /\ i \in Opened /\ i \in Fds /\ client[i].client_fd = i /\ IsSlot(client[i])
           /\ SlotOK(Present(i), sock[i], newlines[i], i \in overflowed)
           /\ taken \in 0..Len(Unsent(client[i]))
           /\ Present(i) = IF pc = "send" THEN [client[i] EXCEPT !.send_offset = @ + taken]
                                          ELSE client[i]
  <1>1. i \in Opened
    <2>1. CASE pc = "send"
      BY <2>1 DEF SelectV1Inv, Loop
    <2>2. CASE pc = "scan" /\ i # server_fd /\ i \in readfds \cup writefds
      <3>1. i \in Fds
        BY <2>2 DEF SelectV1Inv, Sets
      <3>2. Reported(i)
        BY <2>2, <3>1 DEF SelectV1Inv, Loop, Asked, Ahead
      <3> QED
        BY <2>2, <3>2 DEF Reported
    <2> QED
      BY <2>1, <2>2
  <1>2. /\ i \in Fds /\ client[i].client_fd = i /\ IsSlot(client[i])
        /\ SlotOK(Present(i), sock[i], newlines[i], i \in overflowed)
    BY <1>1, OpenedProps DEF SelectV1Inv
  <1>3. taken \in 0..Len(Unsent(client[i]))
    <2>1. Len(Unsent(client[i])) \in Nat
      BY <1>2, UnsentProps DEF IsSlot
    <2> QED
      BY <2>1 DEF SelectV1Inv, Loop
  <1> QED
    BY <1>1, <1>2, <1>3 DEF Present

\* handle_recv, and the close after an error or at the end of the stream.
LEMMA HandleRecvStep ==
    ASSUME SelectV1Inv, HandleRecv
    PROVE  SelectV1Inv'
  <1>0. /\ pc = "scan" /\ i # server_fd /\ i \in readfds /\ ~received
        /\ UNCHANGED <<peers, backlog, newlines>>
    BY DEF HandleRecv
  <1>1. /\ i \in Opened /\ i \in Fds /\ client[i].client_fd = i /\ IsSlot(client[i])
        /\ SlotOK(client[i], sock[i], newlines[i], i \in overflowed)
    BY <1>0, AtOpened
  <1>2. PICK r \in Recv(sock[i], RecvBuf) :
          LET h == Received(client[i], r, newlines[i], -1)
          IN  /\ sock' = [sock EXCEPT ![i] = AfterRecv(@, r)]
              /\ overflowed' = IF h.full THEN overflowed \cup {i} ELSE overflowed
              /\ IF h.ret = -1
                 THEN CloseClient
                 ELSE /\ client' = [client EXCEPT ![i] = h.client]
                      /\ master_write' = IF Unsent(h.client) # <<>>
                                         THEN master_write \cup {i} ELSE master_write
                      /\ UNCHANGED master_read
              /\ max_fds' = max_fds
              /\ IF h.ret # -1 /\ i \in writefds
                 THEN received' = TRUE /\ UNCHANGED <<pc, i, taken, readfds, writefds>>
                 ELSE Advance
    BY DEF HandleRecv, RecvResults
  <1>3. PICK h : h = Received(client[i], r, newlines[i], -1)
    OBVIOUS
  <1>4. PICK t : t = AfterRecv(sock[i], r)
    OBVIOUS
  <1>5. /\ SlotOK(h.client, t, newlines[i], i \in overflowed \/ h.full)
        /\ h.full \in BOOLEAN
        /\ h.client.client_fd = client[i].client_fd
        /\ Unsent(client[i]) # <<>> => Unsent(h.client) # <<>>
        /\ IsSock(t) /\ SockType(t)
    <2> DEFINE o == i \in overflowed
    <2>1. o \in BOOLEAN /\ SlotOK(client[i], sock[i], newlines[i], o)
      BY <1>1
    <2> HIDE DEF o
    <2>2. /\ SlotOK(h.client, t, newlines[i], o \/ h.full)
          /\ h.full \in BOOLEAN
          /\ h.client.client_fd = client[i].client_fd
          /\ Unsent(client[i]) # <<>> => Unsent(h.client) # <<>>
          /\ IsSock(t) /\ SockType(t)
      BY <1>3, <1>4, <2>1, SlotReceived
    <2> QED
      BY <2>2 DEF o
  <1>6. /\ sock' = [sock EXCEPT ![i] = t] /\ max_fds' = max_fds
        /\ overflowed' = IF h.full THEN overflowed \cup {i} ELSE overflowed
        /\ h.ret = -1 => CloseClient /\ Advance
        /\ h.ret # -1 =>
              /\ client' = [client EXCEPT ![i] = h.client]
              /\ master_write' = IF Unsent(h.client) # <<>>
                                 THEN master_write \cup {i} ELSE master_write
              /\ UNCHANGED master_read
              /\ i \in writefds =>
                    received' = TRUE /\ UNCHANGED <<pc, i, taken, readfds, writefds>>
              /\ i \notin writefds => Advance
    BY <1>2, <1>3, <1>4
  <1>7. pc' # "send"
    BY <1>0, <1>6 DEF Advance
  <1>8. CASE h.ret = -1
    <2>1. /\ client' = [client EXCEPT ![i] = NoClient]
          /\ master_read' = master_read \ {i} /\ master_write' = master_write \ {i}
          /\ Advance
      BY <1>6, <1>8 DEF CloseClient, Freed
    <2>2. Called(NoClient, t, h.full)
      BY <1>0, <1>6, <1>7, <2>1 DEF Called
    <2> QED
      BY <1>0, <1>1, <1>5, <2>1, <2>2, CallCloses
  <1>9. CASE h.ret # -1
    <2>1. i \in master_write <=> Unsent(client[i]) # <<>>
      BY <1>0, <1>1 DEF SelectV1Inv, Sets, SetsMatch
    <2>2. master_write' = IF Unsent(h.client) # <<>> THEN master_write \cup {i}
                                                     ELSE master_write \ {i}
      BY <1>5, <1>6, <1>9, <2>1
    <2>3. PICK l : l = h.client
      OBVIOUS
    <2>4. Called(l, t, h.full)
      BY <1>0, <1>6, <1>7, <1>9, <2>3 DEF Called
    <2>5. /\ Maps' /\ SlotsOK' /\ SetsMatch' /\ Sizes' /\ Opened' = Opened
          /\ master_read' \subseteq Fds \cup {server_fd} /\ master_write' \subseteq Fds
          /\ max_fds' = max_fds /\ max_fds' \in Fds \cup {server_fd} /\ max_fds <= max_fds'
          /\ peers' \in 0..MaxPeers /\ backlog' \in 0..peers'
          /\ client'[i] = l /\ sock'[i] = t
          /\ \A f \in Opened \ {i} : client'[f] = client[f] /\ sock'[f] = sock[f]
      <3>1. UNCHANGED master_read /\ l.client_fd = i /\ pc # "returned"
        BY <1>0, <1>1, <1>5, <1>6, <1>9, <2>3
      <3>2. SlotOK(l, t, newlines[i], i \in overflowed \/ h.full)
        BY <1>5, <2>3
      <3> QED
        BY <1>1, <1>5, <2>2, <2>3, <2>4, <3>1, <3>2, CallKeeps
    <2>6. CASE i \in writefds
      <3>1. received' = TRUE /\ UNCHANGED <<pc, i, taken, readfds, writefds>>
        BY <1>6, <1>9, <2>6
      <3>2. Asked'
        <4> SUFFICES ASSUME NEW f \in Fds, Ahead(f)
                     PROVE  /\ f \in readfds => f \in Opened /\ (f # i => Readable(sock'[f]))
                            /\ f \in writefds => /\ f \in Opened /\ Unsent(client'[f]) # <<>>
                                                 /\ Writable(sock'[f])
          BY <2>5, <3>1 DEF Asked, Ahead, Reported, Fds
        <4>1. Reported(f)
          BY <1>0 DEF SelectV1Inv, Loop, Asked
        <4>2. CASE f = i
          <5>1. t.outq = sock[i].outq /\ t.rst = sock[i].rst
            <6>1. \A x \in DOMAIN sock[i] \ {"inq"} : t[x] = sock[i][x]
              <7>1. PICK s : s = sock[i]
                OBVIOUS
              <7>2. IsSock(s) /\ SockType(s) /\ r \in Recv(s, RecvBuf) /\ t = AfterRecv(s, r)
                BY <1>1, <1>2, <1>4, <7>1 DEF SlotOK
              <7>3. \A x \in DOMAIN s \ {"inq"} : AfterRecv(s, r)[x] = s[x]
                BY <7>2, RecvProps, RecvSize
              <7> QED
                BY <7>1, <7>2, <7>3
            <6>2. DOMAIN sock[i] = {"sent", "inq", "outq", "got", "fin", "rst"}
              BY <1>1 DEF SlotOK, IsSock
            <6> QED
              BY <6>1, <6>2
          <5> QED
            BY <1>1, <1>5, <2>3, <2>5, <4>1, <4>2, <5>1 DEF Reported, Writable, Room
        <4>3. CASE f # i
          BY <2>5, <4>1, <4>3 DEF Reported
        <4> QED
          BY <4>2, <4>3
      <3>3. Loop'
        BY <1>0, <2>5, <3>1, <3>2 DEF SelectV1Inv, Loop, server_fd
      <3>4. Sets'
        BY <2>5, <3>1 DEF SelectV1Inv, Sets, Fds, server_fd
      <3> QED
        BY <2>5, <3>3, <3>4 DEF SelectV1Inv
    <2>7. CASE i \notin writefds
      <3>1. Advance
        BY <1>6, <1>9, <2>7
      <3>2. \A f \in Opened : f > i => f # i
        BY <1>1 DEF Fds, SelectV1Inv, Sizes
      <3>3. /\ Loop' /\ pc' \in {"select", "scan"}
            /\ readfds' \subseteq Fds \cup {server_fd} /\ writefds' \subseteq Fds
        BY <1>0, <2>5, <3>1, <3>2, Advanced
      <3>4. Sets'
        BY <2>5, <3>3 DEF Sets, Fds, server_fd
      <3> QED
        BY <2>5, <3>3, <3>4 DEF SelectV1Inv
    <2> QED
      BY <2>6, <2>7
  <1> QED
    BY <1>8, <1>9

\* send returned n.
LEMMA SendReturnsStep ==
    ASSUME SelectV1Inv, AtSend, NEW n \in 0..Len(Unsent(client[i])), NEW t,
           SendReturns(n), sock' = [sock EXCEPT ![i] = t],
           UNCHANGED <<peers, backlog, newlines, overflowed>>,
           SlotOK(AfterSending(client[i], n), t, newlines[i], i \in overflowed)
    PROVE  SelectV1Inv'
  <1>0. pc \in {"scan", "send"} /\ pc # "returned"
    BY DEF AtSend
  <1>1. /\ i \in Opened /\ i \in Fds /\ client[i].client_fd = i /\ IsSlot(client[i])
    BY AtOpened DEF AtSend
  <1>2. PICK l : l = AfterSending(client[i], n)
    OBVIOUS
  <1>3. l.client_fd = i /\ (n = Len(Unsent(client[i])) <=> Unsent(l) = <<>>)
    <2>1. IsClient(client[i]) /\ BufferType(client[i]) /\ DOMAIN client[i] = SlotFields
      BY <1>1 DEF IsSlot
    <2>2. /\ SameOtherFields(client[i], l)
          /\ n = Len(Unsent(client[i])) <=> Unsent(l) = <<>>
      BY <1>2, <2>1, AfterSendingProps
    <2> QED
      BY <1>1, <2>1, <2>2 DEF SameOtherFields, SlotFields
  <1>4. /\ client' = [client EXCEPT ![i] = l] /\ master_read' = master_read
        /\ max_fds' = max_fds /\ Advance
        /\ n = Len(Unsent(client[i])) => master_write' = master_write \ {i}
        /\ n # Len(Unsent(client[i])) => master_write' = master_write
    BY <1>2 DEF SendReturns, Unwatch
  <1>5. master_write' = IF Unsent(l) # <<>> THEN master_write \cup {i} ELSE master_write \ {i}
    <2>1. i \in master_write <=> Unsent(client[i]) # <<>>
      BY <1>0, <1>1 DEF SelectV1Inv, Sets, SetsMatch
    <2>2. n # Len(Unsent(client[i])) => Unsent(client[i]) # <<>>
      BY <1>1, UnsentProps DEF IsSlot
    <2> QED
      BY <1>3, <1>4, <2>1, <2>2
  <1>6. Called(l, t, FALSE)
    BY <1>4 DEF Called, Advance
  <1>7. SlotOK(l, t, newlines[i], i \in overflowed \/ FALSE)
    BY <1>2 DEF SlotOK
  <1>8. /\ Maps' /\ SlotsOK' /\ SetsMatch' /\ Sizes' /\ Opened' = Opened
        /\ master_read' \subseteq Fds \cup {server_fd} /\ master_write' \subseteq Fds
        /\ max_fds' = max_fds /\ max_fds' \in Fds \cup {server_fd} /\ max_fds <= max_fds'
        /\ peers' \in 0..MaxPeers /\ backlog' \in 0..peers'
        /\ client'[i] = l /\ sock'[i] = t
        /\ \A f \in Opened \ {i} : client'[f] = client[f] /\ sock'[f] = sock[f]
    BY <1>0, <1>1, <1>3, <1>4, <1>5, <1>6, <1>7, CallKeeps
  <1>9. \A f \in Opened : f > i => f # i
    BY <1>1 DEF Fds, SelectV1Inv, Sizes
  <1>10. /\ Loop' /\ pc' \in {"select", "scan"}
         /\ readfds' \subseteq Fds \cup {server_fd} /\ writefds' \subseteq Fds
    BY <1>0, <1>4, <1>8, <1>9, Advanced
  <1>11. Sets'
    BY <1>8, <1>10 DEF Sets, Fds, server_fd
  <1> QED
    BY <1>8, <1>10, <1>11 DEF SelectV1Inv

\* What is left of the bytes that send was called with, and the client and the
\* socket after the kernel took n more of them.
LEMMA SendTakes ==
    ASSUME SelectV1Inv, AtSend, NEW k, k = client[i], NEW left,
           left = Rest(taken, Unsent(k)), NEW n, n = SendCount(sock[i], left),
           NEW l, l = AfterSending([k EXCEPT !.send_offset = @ + taken], n),
           NEW t, t = AfterSend(sock[i], left)
    PROVE  /\ SlotOK(l, t, newlines[i], i \in overflowed)
           /\ taken + n \in 0..Len(Unsent(k)) /\ taken + n \in Nat
           /\ n = Len(left) <=> taken + n = Len(Unsent(k))
           /\ n = Len(left) => AfterSending(k, taken + n) = l
           /\ n # Len(left) => [k EXCEPT !.send_offset = @ + (taken + n)] = l
  <1>1. /\ IsSlot(k) /\ taken \in 0..Len(Unsent(k))
        /\ SlotOK(Present(i), sock[i], newlines[i], i \in overflowed)
        /\ Present(i) = IF pc = "send" THEN [k EXCEPT !.send_offset = @ + taken] ELSE k
    BY AtOpened DEF AtSend
  <1>2. PICK p : p = [k EXCEPT !.send_offset = @ + taken]
    OBVIOUS
  <1>3. /\ IsSlot(p) /\ Unsent(p) = left /\ Len(left) = Len(Unsent(k)) - taken
        /\ taken = 0 => p = k
    BY <1>1, <1>2, TakenProps
  <1>4. Present(i) = p
    <2>1. pc # "send" => taken = 0
      BY DEF SelectV1Inv, Loop
    <2> QED
      BY <1>1, <1>2, <1>3, <2>1
  <1>5. PICK s : s = sock[i]
    OBVIOUS
  <1>6. n \in 0..Len(Unsent(p)) /\ n = SendCount(s, Unsent(p)) /\ t = AfterSend(s, Unsent(p))
    <2>1. left \in Stream
      BY <1>3, UnsentProps DEF IsSlot
    <2>2. SockType(s)
      BY <1>1, <1>5 DEF SlotOK
    <2> QED
      BY <1>3, <1>5, <2>1, <2>2, SendCountProps
  <1>7. SlotOK(l, t, newlines[i], i \in overflowed)
    <2> DEFINE o == i \in overflowed
    <2>1. o \in BOOLEAN /\ SlotOK(p, s, newlines[i], o)
      BY <1>1, <1>4, <1>5
    <2>2. l = AfterSending(p, n)
      BY <1>2
    <2> HIDE DEF o
    <2>3. SlotOK(AfterSending(p, n), AfterSend(s, Unsent(p)), newlines[i], o)
      BY <1>6, <2>1, SlotSent
    <2> QED
      BY <1>6, <2>2, <2>3 DEF o
  <1>8. /\ n = Len(Unsent(p)) <=> taken + n = Len(Unsent(k))
        /\ n = Len(Unsent(p)) => AfterSending(k, taken + n) = AfterSending(p, n)
        /\ n # Len(Unsent(p)) =>
              AfterSending(p, n) = [k EXCEPT !.send_offset = @ + (taken + n)]
    BY <1>1, <1>2, <1>6, TakenMore
  <1>9. Len(Unsent(k)) \in Nat
    BY <1>1, UnsentProps DEF IsSlot
  <1>10. taken + n \in 0..Len(Unsent(k)) /\ taken + n \in Nat
    BY <1>1, <1>3, <1>6, <1>9
  <1> QED
    BY <1>2, <1>3, <1>7, <1>8, <1>10

\* handle_send: send returns when the kernel has taken all that was left, or it
\* waits, and nothing but the socket and the count has changed.
LEMMA HandleSendStep ==
    ASSUME SelectV1Inv, HandleSend
    PROVE  SelectV1Inv'
  <1>0. AtSend /\ ~sock[i].rst /\ UNCHANGED <<peers, backlog, newlines, overflowed>>
    BY DEF HandleSend
  <1>1. PICK k : k = client[i]
    OBVIOUS
  <1>2. PICK left : left = Rest(taken, Unsent(k))
    OBVIOUS
  <1>3. PICK n : n = SendCount(sock[i], left)
    OBVIOUS
  <1>4. PICK m : m = taken + n
    OBVIOUS
  <1>5. PICK l : l = AfterSending([k EXCEPT !.send_offset = @ + taken], n)
    OBVIOUS
  <1>6. PICK t : t = AfterSend(sock[i], left)
    OBVIOUS
  <1>7. /\ sock' = [sock EXCEPT ![i] = t]
        /\ n = Len(left) => SendReturns(m)
        /\ n # Len(left) => /\ pc' = "send" /\ taken' = m
                            /\ UNCHANGED <<client, setVars, i, received>>
    BY <1>1, <1>2, <1>3, <1>4, <1>6 DEF HandleSend
  <1>8. /\ SlotOK(l, t, newlines[i], i \in overflowed)
        /\ m \in 0..Len(Unsent(k)) /\ m \in Nat
        /\ n = Len(left) <=> m = Len(Unsent(k))
        /\ n = Len(left) => AfterSending(k, m) = l
        /\ n # Len(left) => [k EXCEPT !.send_offset = @ + m] = l
    BY <1>0, <1>1, <1>2, <1>3, <1>4, <1>5, <1>6, SendTakes
  <1>9. CASE n = Len(left)
    <2>1. SlotOK(AfterSending(client[i], m), t, newlines[i], i \in overflowed)
      BY <1>1, <1>8, <1>9
    <2> QED
      BY <1>0, <1>1, <1>7, <1>8, <1>9, <2>1, SendReturnsStep
  <1>10. CASE n # Len(left)
    <2>1. /\ pc' = "send" /\ taken' = m /\ pc \in {"scan", "send"}
          /\ UNCHANGED <<client, master_read, master_write, readfds, writefds, max_fds, i,
                         received, peers, backlog, newlines, overflowed>>
      BY <1>0, <1>7, <1>10 DEF setVars, AtSend
    <2>2. /\ i \in Opened /\ i \in Fds /\ i \in Array /\ k.client_fd = i /\ IsSlot(k)
      <3>1. i \in Opened /\ i \in Fds /\ client[i].client_fd = i /\ IsSlot(client[i])
        BY <1>0, AtOpened DEF AtSend
      <3> QED
        BY <1>1, <3>1, OpenedProps DEF SelectV1Inv
    <2>3. /\ sock'[i] = t /\ \A f \in Fds \ {i} : sock'[f] = sock[f]
          /\ sock' = [f \in Fds |-> sock'[f]] /\ IsSock(t) /\ SockType(t)
      BY <1>7, <1>8, <2>2 DEF SelectV1Inv, Maps, SlotOK
    <2>4. Maps' /\ Sizes' /\ Opened' = Opened
      BY <2>1, <2>3 DEF SelectV1Inv, Maps, Sizes, Array, Fds, Opened
    <2>5. PICK j : j = i
      OBVIOUS
    <2>6. \A f \in Array \ {j} : client'[f] = client[f] /\ (f \in Opened => SameFd(f))
      <3>1. \A f \in Array \ {j} : Present(f)' = Present(f)
        BY <2>1, <2>5 DEF Present
      <3>2. \A f \in Opened : f \in Fds
        BY OpenedProps DEF SelectV1Inv
      <3> QED
        BY <2>1, <2>3, <2>5, <3>1, <3>2 DEF SameFd
    <2>7. SlotGood(j)'
      <3>1. Present(j)' = l
        <4>1. client'[j] = k /\ pc' = "send" /\ j = i' /\ taken' = m
          BY <1>1, <2>1, <2>5
        <4> QED
          BY <1>8, <1>10, <4>1 DEF Present
      <3>2. SlotOK(Present(j)', sock'[j], newlines'[j], j \in overflowed')
        BY <1>8, <2>1, <2>3, <2>5, <3>1 DEF SlotOK
      <3>3. client'[j] = k /\ j \in Fds' /\ k.client_fd = j
        BY <1>1, <2>1, <2>2, <2>5 DEF Fds
      <3> QED
        BY <2>2, <3>2, <3>3 DEF SlotGood
    <2>8. SlotsOK'
      BY <2>6, <2>7, OneSlot DEF SelectV1Inv
    <2>9. Sets'
      <3>1. SetsMatch
        BY <2>1 DEF SelectV1Inv, Sets, SetsMatch
      <3> QED
        BY <2>1, <2>4, <3>1 DEF SelectV1Inv, Sets, SetsMatch, Fds, server_fd
    <2>10. Asked'
      <3> SUFFICES ASSUME NEW f \in Fds, f > i
                   PROVE  Reported(f)'
        BY <2>1 DEF Asked, Ahead, Fds
      <3>1. Reported(f)
        BY <2>1 DEF SelectV1Inv, Loop, Asked, Ahead
      <3>2. f # i
        BY <2>2 DEF Fds, SelectV1Inv, Sizes
      <3> QED
        BY <2>1, <2>3, <2>4, <3>1, <3>2 DEF Reported
    <2>11. i' \in Opened' /\ taken' < Len(Unsent(client'[i']))
      <3>1. Len(Unsent(k)) \in Nat
        BY <2>2, UnsentProps DEF IsSlot
      <3>2. m < Len(Unsent(k))
        BY <1>8, <1>10, <3>1
      <3> QED
        BY <1>1, <2>1, <2>2, <2>4, <3>2
    <2>12. Loop'
      BY <1>8, <2>1, <2>10, <2>11 DEF SelectV1Inv, Loop
    <2> QED
      BY <2>4, <2>8, <2>9, <2>12 DEF SelectV1Inv
  <1> QED
    BY <1>9, <1>10

\* A send that finds the connection reset returns what was taken before it, or fails,
\* and the connection is closed.
LEMMA SendResetStep ==
    ASSUME SelectV1Inv, SendReset
    PROVE  SelectV1Inv'
  <1>0. /\ AtSend /\ sock[i].rst /\ pc \in {"scan", "send"}
        /\ UNCHANGED <<peers, backlog, sock, newlines, overflowed>>
    BY DEF SendReset, AtSend, peerVars
  <1>1. /\ i \in Opened /\ i \in Fds /\ client[i].client_fd = i /\ IsSlot(client[i])
        /\ SlotOK(Present(i), sock[i], newlines[i], i \in overflowed)
        /\ taken \in 0..Len(Unsent(client[i]))
        /\ Present(i) = IF pc = "send" THEN [client[i] EXCEPT !.send_offset = @ + taken]
                                        ELSE client[i]
    BY <1>0, AtOpened DEF AtSend
  <1>2. PICK t : t = sock[i]
    OBVIOUS
  <1>3. sock' = [sock EXCEPT ![i] = t] /\ IsSock(t) /\ SockType(t) /\ t.rst
    BY <1>0, <1>1, <1>2 DEF SelectV1Inv, Maps
  <1>4. CASE taken > 0
    <2>1. SendReturns(taken)
      BY <1>4 DEF SendReset
    <2>2. SlotOK(AfterSending(client[i], taken), t, newlines[i], i \in overflowed)
      <3>1. PICK k : k = client[i]
        OBVIOUS
      <3>2. /\ IsClient(k) /\ BufferType(k) /\ DOMAIN k = SlotFields
            /\ taken \in 0..Len(Unsent(k))
        BY <1>1, <3>1 DEF IsSlot
      <3>3. PICK l : l = AfterSending(k, taken)
        OBVIOUS
      <3>4. SameOtherFields(k, l) /\ BufferType(l) /\ l.recv_message = k.recv_message
        BY <3>2, <3>3, AfterSendingProps
      <3>5. i \notin overflowed => LineEnds(k.recv_message, newlines[i]) = {}
        <4>1. Present(i).recv_message = k.recv_message
          BY <1>1, <3>1, <3>2 DEF IsClient, SlotFields
        <4> QED
          BY <1>1, <4>1 DEF SlotOK
      <3> QED
        BY <1>3, <3>1, <3>2, <3>3, <3>4, <3>5 DEF SlotOK, SameOtherFields
    <2> QED
      BY <1>0, <1>1, <1>3, <2>1, <2>2, SendReturnsStep
  <1>5. CASE ~(taken > 0)
    <2>1. /\ client' = [client EXCEPT ![i] = NoClient] /\ master_read' = master_read \ {i}
          /\ master_write' = master_write \ {i} /\ max_fds' = max_fds /\ Advance
      BY <1>5 DEF SendReset, CloseClient, Freed
    <2>2. Called(NoClient, t, FALSE)
      BY <1>0, <1>3, <2>1 DEF Called, Advance
    <2> QED
      BY <1>0, <1>1, <1>3, <2>1, <2>2, CallCloses
  <1> QED
    BY <1>4, <1>5

-----------------------------------------------------------------------------
(* The theorems.                                                           *)

\* A step that changes nothing.
LEMMA StutterStep ==
    ASSUME SelectV1Inv, UNCHANGED vars
    PROVE  SelectV1Inv'
  <1>1. /\ UNCHANGED <<client, master_read, master_write, readfds, writefds, max_fds, pc, i,
                       received, taken, peers, backlog, sock, newlines, overflowed>>
    BY DEF vars, setVars, loopVars, peerVars
  <1>2. Maps' /\ SlotsOK' /\ Opened' = Opened /\ Sizes'
    BY <1>1, NoSlot
  <1>3. Sets'
    BY <1>1, <1>2 DEF SelectV1Inv, Sets, SetsMatch, Fds, server_fd
  <1>4. Asked'
    BY <1>1, <1>2 DEF SelectV1Inv, Loop, Asked, Ahead, Reported, Fds
  <1>5. Loop'
    BY <1>1, <1>2, <1>4 DEF SelectV1Inv, Loop
  <1> QED
    BY <1>2, <1>3, <1>5 DEF SelectV1Inv

\* Every step, of the server or of a peer, keeps the invariant.
LEMMA SelectV1NextInv == SelectV1Inv /\ [Next]_vars => SelectV1Inv'
  <1> SUFFICES ASSUME SelectV1Inv, [Next]_vars PROVE SelectV1Inv'
    OBVIOUS
  <1>1. CASE Connect
    BY <1>1, ConnectStep
  <1>2. ASSUME NEW f \in Fds, Fin(f) \/ Reset(f) \/ Read(f) PROVE SelectV1Inv'
    BY <1>2, PeersStep
  <1>3. ASSUME NEW f \in Fds, NEW n \in 1..MaxBytes, Send(f, n) PROVE SelectV1Inv'
    BY <1>3, PeersStep
  <1>4. CASE Server
    <2>1. CASE Select
      BY <2>1, SelectStep
    <2>2. CASE Accept
      BY <2>2, AcceptStep
    <2>3. CASE AcceptFails \/ Skip
      BY <2>3, SkipStep
    <2>4. CASE HandleRecv
      BY <2>4, HandleRecvStep
    <2>5. CASE HandleSend
      BY <2>5, HandleSendStep
    <2>6. CASE SendReset
      BY <2>6, SendResetStep
    <2> QED
      BY <1>4, <2>1, <2>2, <2>3, <2>4, <2>5, <2>6 DEF Server
  <1>5. CASE SelectFails
    BY <1>5, SelectFailsStep
  <1>6. CASE UNCHANGED vars
    BY <1>6, StutterStep
  <1> QED
    BY <1>1, <1>2, <1>3, <1>4, <1>5, <1>6 DEF Next

\* The invariant holds in every state, whatever the sizes are.
THEOREM SelectV1Invariant == ASSUME Sizes PROVE Spec => []SelectV1Inv
  <1>1. Init => SelectV1Inv
    BY SelectV1InitInv
  <1> QED
    BY <1>1, SelectV1NextInv, PTL DEF Spec

\* The invariant gives the properties that the run checks.
LEMMA SelectV1InvInv == SelectV1Inv => Inv
  <1> SUFFICES ASSUME SelectV1Inv PROVE Inv
    OBVIOUS
  <1>1. TypeOK
    <2>1. \A f \in DOMAIN client : BufferType(client[f]) /\ client[f].client_fd \in {-1, f}
      <3> SUFFICES ASSUME NEW f \in Array
                   PROVE  BufferType(client[f]) /\ client[f].client_fd \in {-1, f}
        BY OpenedProps DEF SelectV1Inv
      <3>1. BufferType(NoClient) /\ NoClient.client_fd = -1
        <4>1. <<>> \in Seq(1..MaxBytes) /\ Len(<<>>) = 0
          BY EmptySeq
        <4> QED
          BY <4>1, BufferAssumption DEF BufferType, NoClient
      <3> QED
        BY <3>1 DEF SelectV1Inv, SlotsOK, SlotGood, IsSlot
    <2>2. taken \in 0..SendCap
      <3>1. pc = "send" => taken < SendCap
        <4> SUFFICES ASSUME pc = "send" PROVE taken < SendCap
          OBVIOUS
        <4>1. BufferType(client[i]) /\ taken < Len(Unsent(client[i]))
          BY OpenedProps DEF SelectV1Inv, Loop, IsSlot
        <4>2. Len(Unsent(client[i])) <= SendCap
          <5>1. Len(client[i].send_buf) <= SendCap
            BY <4>1 DEF BufferType
          <5> QED
            BY <4>1, <5>1, UnsentProps, BufferAssumption
        <4>3. Len(Unsent(client[i])) \in Nat
          BY <4>1, UnsentProps
        <4> QED
          BY <4>1, <4>2, <4>3, BufferAssumption DEF SelectV1Inv, Loop
      <3> QED
        BY <3>1, BufferAssumption DEF SelectV1Inv, Loop
    <2>3. \A f \in Fds : SockType(sock[f])
      BY DEF SelectV1Inv, Maps
    <2> QED
      BY <2>1, <2>2, <2>3 DEF TypeOK, SelectV1Inv, Maps, Sets, Loop
  <1>2. SetsMatch
    BY DEF SelectV1Inv, Sets
  <1>3. StillReady
    <2> SUFFICES ASSUME pc = "scan", NEW f \in Opened, f >= i
                 PROVE  /\ f \in readfds /\ ~(received /\ f = i) => Readable(sock[f])
                        /\ f \in writefds => Unsent(client[f]) # <<>> /\ Writable(sock[f])
      BY DEF StillReady
    <2>1. f \in Fds
      BY OpenedProps DEF SelectV1Inv
    <2>2. Ahead(f)
      <3>1. f \in Int /\ i \in Int
        BY <2>1 DEF SelectV1Inv, Loop, Sizes, Sets, Fds, server_fd
      <3> QED
        BY <3>1 DEF Ahead
    <2> QED
      BY <2>1, <2>2 DEF SelectV1Inv, Loop, Asked, Reported
  <1> QED
    BY <1>1, <1>2, <1>3 DEF Inv

\* The buffers and indices stay in their bounds, the array, the sets and the bound of
\* the loop agree, and neither a recv nor a send of this server waits or fails
\* because accept handed out a number again in this turn (lines 40-125, 166-221).
THEOREM SelectV1InvTheorem == ASSUME Sizes PROVE Spec => []Inv
  BY SelectV1Invariant, SelectV1InvInv, PTL

\* Of a connection no byte is lost, doubled or out of order, also while a send has
\* handed only a part of them to the kernel and when a number comes back whose entry
\* accept does not clear (lines 40-88, 101-107, 176-177, 196-199).
LEMMA SelectV1InvConserved == SelectV1Inv => Conserved
  <1> SUFFICES ASSUME SelectV1Inv, NEW f \in Opened, f \notin overflowed, ~sock[f].rst
               PROVE  Trail(Present(f), sock[f]) = [b \in 1..sock[f].sent |-> b]
    BY DEF Conserved
  <1>1. SlotOK(Present(f), sock[f], newlines[f], f \in overflowed)
    BY OpenedProps DEF SelectV1Inv
  <1> QED
    BY <1>1 DEF SlotOK, InOrder

\* The same, in every state.
THEOREM SelectV1ConservedTheorem == ASSUME Sizes PROVE Spec => []Conserved
  BY SelectV1Invariant, SelectV1InvConserved, PTL
==============================================================================
