-------------------------- MODULE SelectServer_proof --------------------------
(***************************************************************************)
(* Proofs about SelectServer, for any sizes of the array and the buffers,  *)
(* any number of peers and whatever they send.                             *)
(*                                                                         *)
(* The inductive invariant SelectInv adds to the properties that the runs  *)
(* check what makes them last: a slot is free and empty, or its client and *)
(* the socket of its descriptor fit each other (SlotOK); at select the two *)
(* sets are copies of the master sets; and until accept returned, select's *)
(* result names only descriptors that are open.                            *)
(***************************************************************************)
EXTENDS SelectServer, EchoBuffers_proof

Maps ==
    /\ client = [s \in Slots |-> client[s]]
    /\ sock = [f \in Fds |-> sock[f]]
    /\ \A f \in Fds : IsSock(sock[f]) /\ SockType(sock[f])
    /\ newlines \in [Fds -> SUBSET (1..MaxBytes)]
    /\ overflowed \subseteq Fds

SlotsOK ==
    \A s \in Slots :
        \/ client[s] = NoClient
        \/ /\ Fd(s) \in Fds
           /\ SlotOK(client[s], sock[Fd(s)], newlines[Fd(s)], Fd(s) \in overflowed)

Sets ==
    /\ master_read \subseteq Fds \cup {server_fd} /\ readfds \subseteq Fds \cup {server_fd}
    /\ master_write \subseteq Fds /\ writefds \subseteq Fds
    /\ max_fd \in Fds \cup {server_fd}
    /\ SetsMatch

Loop ==
    /\ pc \in {"select", "accept", "clients", "returned"}
    /\ i \in Slots /\ received \in BOOLEAN
    /\ peers \in 0..MaxPeers /\ backlog \in 0..peers
    /\ pc \in {"select", "accept"} => i = 0 /\ ~received
    /\ pc = "select" => readfds = master_read /\ writefds = master_write
    /\ pc = "accept" => /\ readfds \subseteq Opened \cup {server_fd}
                        /\ writefds \subseteq Opened
                        /\ server_fd \in readfds => backlog > 0
    /\ pc = "returned" => Used = {}
    /\ StillReady

SelectInv == Maps /\ SlotsOK /\ Sets /\ Loop

-----------------------------------------------------------------------------
(* The steps.                                                              *)

\* A slot is in use exactly where it has a descriptor; else it is empty.
LEMMA UsedProps ==
    ASSUME SlotsOK, NEW s \in Slots
    PROVE  /\ s \in Used <=> client[s] # NoClient
           /\ s \in Used <=> Fd(s) \in Fds
           /\ s \in Used => SlotOK(client[s], sock[Fd(s)], newlines[Fd(s)], Fd(s) \in overflowed)
  <1>1. NoClient.client_fd = -1 /\ -1 \notin Fds
    BY SelectAssumption DEF NoClient, Fds
  <1> QED
    BY <1>1 DEF SlotsOK, Used, Fd

SlotGood(s) ==
    \/ client[s] = NoClient
    \/ /\ Fd(s) \in Fds
       /\ SlotOK(client[s], sock[Fd(s)], newlines[Fd(s)], Fd(s) \in overflowed)

SameFd(f) ==
    /\ sock'[f] = sock[f] /\ newlines'[f] = newlines[f]
    /\ f \in overflowed' <=> f \in overflowed

\* A step that touches one slot and its descriptor at most.
LEMMA OneSlot ==
    ASSUME SlotsOK, NEW t \in Slots, SlotGood(t)',
           \A s \in Slots \ {t} : /\ client'[s] = client[s]
                                  /\ s \in Used => SameFd(Fd(s))
    PROVE  SlotsOK'
  <1> SUFFICES ASSUME NEW s \in Slots PROVE SlotGood(s)'
    BY DEF SlotsOK, SlotGood
  <1>1. CASE s = t
    BY <1>1
  <1>2. CASE s # t
    <2>1. client'[s] = client[s] /\ (s \in Used => SameFd(Fd(s)))
      BY <1>2
    <2>2. CASE s \in Used
      <3>1. Fd(s) \in Fds /\ SlotOK(client[s], sock[Fd(s)], newlines[Fd(s)], Fd(s) \in overflowed)
        BY <2>2, UsedProps
      <3>2. Fd(s)' = Fd(s)
        BY <2>1 DEF Fd
      <3> QED
        BY <2>1, <2>2, <3>1, <3>2 DEF SlotGood, SlotOK, SameFd
    <2>3. CASE s \notin Used
      BY <2>1, <2>3, UsedProps DEF SlotGood
    <2> QED
      BY <2>2, <2>3
  <1> QED
    BY <1>1, <1>2

\* A step that touches no slot and no descriptor.
LEMMA NoSlot ==
    ASSUME SlotsOK, UNCHANGED <<client, sock, newlines, overflowed>>
    PROVE  SlotsOK'
  BY DEF SlotsOK, Fd

\* The first state.
LEMMA SelectInitInv == Init => SelectInv
  <1> SUFFICES ASSUME Init PROVE SelectInv
    OBVIOUS
  <1> USE DEF Init
  <1>1. \A s \in Slots : client[s] = NoClient
    OBVIOUS
  <1>2. SlotsOK
    BY <1>1 DEF SlotsOK
  <1>3. Used = {} /\ Opened = {}
    BY <1>1 DEF Used, Opened, NoClient
  <1>4. IsSock(NewSock) /\ SockType(NewSock)
    BY SlotAdmitted
  <1>5. Maps
    BY <1>4 DEF Maps
  <1>6. Sets
    BY <1>3, SelectAssumption DEF Sets, SetsMatch, server_fd
  <1>7. Loop
    <2>1. i \in Slots /\ peers \in 0..MaxPeers /\ backlog \in 0..peers
      BY SelectAssumption DEF Slots
    <2>2. pc = "select" /\ readfds = master_read /\ writefds = master_write /\ ~received
      OBVIOUS
    <2>3. pc # "accept" /\ pc # "clients" /\ pc # "returned" /\ received \in BOOLEAN /\ i = 0
      OBVIOUS
    <2>4. StillReady
      BY <2>3 DEF StillReady
    <2> QED
      BY <2>1, <2>2, <2>3, <2>4 DEF Loop
  <1> QED
    BY <1>2, <1>5, <1>6, <1>7 DEF SelectInv

\* A peer connects.
LEMMA ConnectStep ==
    ASSUME SelectInv, Connect
    PROVE  SelectInv'
  <1> USE DEF SelectInv, Connect, setVars, loopVars
  <1>1. Used' = Used /\ Opened' = Opened /\ \A s \in Slots : Fd(s)' = Fd(s)
    BY DEF Used, Opened, Fd
  <1>2. Maps' /\ SlotsOK'
    BY NoSlot DEF Maps
  <1>3. Sets'
    BY <1>1 DEF Sets, SetsMatch, Fd
  <1>4. peers' \in 0..MaxPeers /\ backlog' \in 0..peers'
    BY SelectAssumption DEF Loop
  <1>5. backlog > 0 => backlog' > 0
    BY DEF Loop
  <1>6. StillReady'
    BY <1>1 DEF Loop, StillReady, Fd
  <1>7. Loop'
    BY <1>1, <1>4, <1>5, <1>6 DEF Loop
  <1> QED
    BY <1>2, <1>3, <1>7

\* What the peer at f does to its socket.
LEMMA PeerStep ==
    ASSUME SelectInv, NEW f \in Fds, NEW t, Peer(f, t),
           \/ \E n \in Nat : /\ CanSend(sock[f]) /\ sock[f].sent + n <= MaxBytes
                             /\ t = PeerSend(sock[f], n)
           \/ CanSend(sock[f]) /\ t = PeerFin(sock[f])
           \/ t = PeerReset(sock[f])
           \/ t = PeerRead(sock[f], Len(sock[f].outq))
    PROVE  SelectInv'
  <1>0. /\ sock' = [sock EXCEPT ![f] = t] /\ f \in Opened
        /\ UNCHANGED <<client, master_read, master_write, readfds, writefds, max_fd,
                       pc, i, received, peers, backlog, newlines, overflowed>>
    BY DEF Peer, setVars, loopVars
  <1>1. /\ IsSock(sock[f]) /\ SockType(sock[f])
        /\ sock'[f] = t /\ \A g \in Fds \ {f} : sock'[g] = sock[g]
        /\ sock' = [g \in Fds |-> sock'[g]]
    BY <1>0 DEF SelectInv, Maps
  <1>2. IsSock(t) /\ SockType(t) /\ (Readable(sock[f]) => Readable(t))
    BY <1>1, SlotPeer
  <1>3. ASSUME NEW k, NEW nl, NEW o \in BOOLEAN, SlotOK(k, sock[f], nl, o)
        PROVE  SlotOK(k, t, nl, o)
    BY <1>1, <1>3, SlotPeer
  <1>4. Used' = Used /\ Opened' = Opened /\ \A s \in Slots : Fd(s)' = Fd(s)
    BY <1>0 DEF Used, Opened, Fd
  <1>5. Maps'
    BY <1>0, <1>1, <1>2 DEF SelectInv, Maps
  <1>6. SlotsOK'
    <2> SUFFICES ASSUME NEW s \in Slots, s \in Used PROVE SlotGood(s)'
      BY <1>0, UsedProps DEF SelectInv, SlotsOK, SlotGood, Fd
    <2> DEFINE o == Fd(s) \in overflowed
    <2>1. /\ Fd(s) \in Fds /\ SlotOK(client[s], sock[Fd(s)], newlines[Fd(s)], o)
          /\ o \in BOOLEAN
      BY UsedProps DEF SelectInv
    <2> HIDE DEF o
    <2>2. CASE Fd(s) = f
      <3>1. SlotOK(client[s], t, newlines[f], o)
        BY <1>3, <2>1, <2>2
      <3> QED
        BY <1>0, <1>1, <1>4, <2>1, <2>2, <3>1 DEF SlotGood, SlotOK, o
    <2>3. CASE Fd(s) # f
      <3>1. sock'[Fd(s)] = sock[Fd(s)]
        BY <1>1, <2>1, <2>3
      <3> QED
        BY <1>0, <1>4, <2>1, <3>1 DEF SlotGood, SlotOK, o
    <2> QED
      BY <2>2, <2>3
  <1>7. Sets'
    BY <1>0, <1>4 DEF SelectInv, Sets, SetsMatch, Fd
  <1>8. StillReady'
    <2> SUFFICES ASSUME pc \in {"accept", "clients"}, NEW s \in Used, s >= i
                 PROVE  /\ Fd(s) \in readfds /\ ~(received /\ s = i) => Readable(sock'[Fd(s)])
                        /\ Fd(s) \in writefds => Unsent(client[s]) # <<>>
      BY <1>0, <1>4 DEF StillReady, Fd
    <2>1. /\ Fd(s) \in readfds /\ ~(received /\ s = i) => Readable(sock[Fd(s)])
          /\ Fd(s) \in writefds => Unsent(client[s]) # <<>>
      BY DEF SelectInv, Loop, StillReady
    <2>2. Fd(s) \in Fds
      BY UsedProps DEF SelectInv, Used
    <2> QED
      BY <1>1, <1>2, <2>1, <2>2
  <1>9. Loop'
    BY <1>0, <1>4, <1>8 DEF SelectInv, Loop
  <1> QED
    BY <1>5, <1>6, <1>7, <1>9 DEF SelectInv

\* The four things a peer does.
LEMMA PeersStep ==
    ASSUME SelectInv, NEW f \in Fds
    PROVE  /\ Fin(f) => SelectInv'
           /\ Reset(f) => SelectInv'
           /\ Read(f) => SelectInv'
           /\ \A n \in 1..MaxBytes : Send(f, n) => SelectInv'
  <1>1. Fin(f) => SelectInv'
    BY PeerStep DEF Fin
  <1>2. Reset(f) => SelectInv'
    BY PeerStep DEF Reset
  <1>3. Read(f) => SelectInv'
    BY PeerStep DEF Read
  <1>4. ASSUME NEW n \in 1..MaxBytes, Send(f, n) PROVE SelectInv'
    <2>1. MaxSent[f] \in 0..MaxBytes /\ MaxBytes \in Nat
      BY SelectAssumption, SockAssumption DEF Fds
    <2>2. sock[f].sent \in Nat
      BY DEF SelectInv, Maps, SockType
    <2>3. n \in Nat /\ sock[f].sent + n <= MaxBytes
      BY <1>4, <2>1, <2>2 DEF Send
    <2> QED
      BY <1>4, <2>3, PeerStep DEF Send
  <1> QED
    BY <1>1, <1>2, <1>3, <1>4

\* select's result is a part of what was asked for, and true of the sockets.
LEMMA SelectStep ==
    ASSUME SelectInv, Select
    PROVE  SelectInv'
  <1>0. /\ pc = "select" /\ pc' = "accept" /\ i = 0 /\ ~received
        /\ readfds = master_read /\ writefds = master_write
        /\ UNCHANGED <<client, master_read, master_write, max_fd, i, received,
                       peers, backlog, sock, newlines, overflowed>>
    BY DEF SelectInv, Loop, Select, peerVars
  <1>1. /\ readfds' = {f \in readfds : f <= max_fd /\ ReadReady(f)}
        /\ writefds' = {f \in writefds : f <= max_fd /\ Writable(sock[f])}
    BY DEF Select
  <1>2. Used' = Used /\ Opened' = Opened /\ \A s \in Slots : Fd(s)' = Fd(s)
    BY <1>0 DEF Used, Opened, Fd
  <1>3. Maps' /\ SlotsOK'
    BY <1>0, NoSlot DEF SelectInv, Maps
  <1>4. Sets'
    BY <1>0, <1>1, <1>2 DEF SelectInv, Sets, SetsMatch, Fd
  <1>5. StillReady'
    <2> SUFFICES ASSUME NEW s \in Used
                 PROVE  /\ Fd(s) \in readfds' => Readable(sock[Fd(s)])
                        /\ Fd(s) \in writefds' => Unsent(client[s]) # <<>>
      BY <1>0, <1>2 DEF StillReady, Fd
    <2>1. Fd(s) # server_fd
      BY UsedProps DEF SelectInv, Used, Fds, server_fd
    <2>2. Fd(s) \in master_write => Unsent(client[s]) # <<>>
      BY <1>0 DEF SelectInv, Sets, SetsMatch
    <2> QED
      BY <1>0, <1>1, <2>1, <2>2 DEF ReadReady
  <1>6. readfds' \subseteq Opened \cup {server_fd}
    BY <1>0, <1>1 DEF SelectInv, Sets, SetsMatch
  <1>7. writefds' \subseteq Opened
    BY <1>0, <1>1 DEF SelectInv, Sets, SetsMatch, Opened
  <1>8. server_fd \in readfds' => backlog > 0
    BY <1>1 DEF ReadReady
  <1>9. Loop'
    BY <1>0, <1>2, <1>5, <1>6, <1>7, <1>8 DEF SelectInv, Loop
  <1> QED
    BY <1>3, <1>4, <1>9 DEF SelectInv

\* The program ends: every slot is freed.
LEMMA SelectFailsStep ==
    ASSUME SelectInv, SelectFails
    PROVE  SelectInv'
  <1>0. /\ pc' = "returned" /\ client' = [s \in Slots |-> NoClient] /\ pc = "select"
        /\ UNCHANGED <<master_read, master_write, readfds, writefds, max_fd, i, received,
                       peers, backlog, sock, newlines, overflowed>>
    BY DEF SelectFails, setVars, peerVars
  <1>1. Used' = {}
    BY <1>0 DEF Used, NoClient
  <1>2. Maps' /\ SlotsOK'
    BY <1>0 DEF SelectInv, Maps, SlotsOK
  <1>3. Sets'
    BY <1>0 DEF SelectInv, Sets, SetsMatch
  <1>4. StillReady'
    BY <1>0 DEF StillReady
  <1>5. Loop'
    BY <1>0, <1>1, <1>4 DEF SelectInv, Loop
  <1> QED
    BY <1>2, <1>3, <1>5 DEF SelectInv

\* Nothing was accepted, or what was is closed again: the slots are as they were.
LEMMA NothingAccepted ==
    ASSUME SelectInv, pc = "accept", pc' = "clients",
           UNCHANGED <<client, setVars, i, received, peers, sock, newlines, overflowed>>,
           backlog' \in 0..peers
    PROVE  SelectInv'
  <1>0. UNCHANGED <<master_read, master_write, readfds, writefds, max_fd>>
    BY DEF setVars
  <1>1. Used' = Used /\ Opened' = Opened /\ \A s \in Slots : Fd(s)' = Fd(s)
    BY DEF Used, Opened, Fd
  <1>2. Maps' /\ SlotsOK'
    BY NoSlot DEF SelectInv, Maps
  <1>3. Sets'
    BY <1>0, <1>1 DEF SelectInv, Sets, SetsMatch, Fd
  <1>4. StillReady'
    BY <1>0, <1>1 DEF SelectInv, Loop, StillReady, Fd
  <1>5. Loop'
    BY <1>0, <1>1, <1>4 DEF SelectInv, Loop
  <1> QED
    BY <1>2, <1>3, <1>5 DEF SelectInv

\* accept returned a descriptor: it goes to a free slot, where it is in neither set
\* of select's result, or it is closed at once.
LEMMA AcceptStep ==
    ASSUME SelectInv, Accept
    PROVE  SelectInv'
  <1>0. /\ pc = "accept" /\ pc' = "clients" /\ server_fd \in readfds /\ backlog' = backlog - 1
        /\ Fds \ Opened # {} /\ UNCHANGED <<master_write, writefds, i, received, peers>>
    BY DEF Accept
  <1>1. backlog' \in 0..peers
    BY <1>0, SelectAssumption DEF SelectInv, Loop
  <1>2. CASE Refuse
    BY <1>0, <1>1, <1>2, NothingAccepted DEF Refuse, setVars
  <1>3. CASE Admit
    <2>1. Min(Slots \ Used) \in Slots \ Used /\ Min(Fds \ Opened) \in Fds \ Opened
      <3>1. Slots \ Used \subseteq Nat /\ Fds \ Opened \subseteq Nat /\ Slots \ Used # {}
        BY <1>3 DEF Slots, Fds, Admit
      <3> QED
        BY <1>0, <3>1, MinNat
    <2>2. PICK s \in Slots \ Used, f \in Fds \ Opened :
             /\ client' = [client EXCEPT ![s].client_fd = f]
             /\ master_read' = master_read \cup {f} /\ readfds' = readfds
             /\ max_fd' = Max({max_fd, f})
             /\ sock' = [sock EXCEPT ![f] = NewSock]
             /\ \E nl \in SUBSET (1..MaxSent[f]) : newlines' = [newlines EXCEPT ![f] = nl]
             /\ overflowed' = overflowed \ {f}
      BY <1>3, <2>1 DEF Admit, Watch, RaiseMaxFd
    <2> DEFINE k == [NoClient EXCEPT !.client_fd = f]
    <2>3. client[s] = NoClient /\ f # server_fd /\ f \in Nat
      BY UsedProps DEF SelectInv, Fds, server_fd
    <2>4. /\ client'[s] = k /\ \A t \in Slots \ {s} : client'[t] = client[t]
          /\ client' = [t \in Slots |-> client'[t]]
      BY <2>2, <2>3 DEF SelectInv, Maps
    <2>k. k = [client_fd |-> f, recv_message |-> <<>>, send_buf |-> <<>>, send_offset |-> 0]
      BY DEF NoClient
    <2> HIDE DEF k
    <2>5. /\ SlotOK(k, NewSock, newlines'[f], FALSE) /\ Unsent(k) = <<>> /\ k.client_fd = f
          /\ IsSock(NewSock) /\ SockType(NewSock)
      BY <2>k, SlotAdmitted
    <2>6. /\ sock'[f] = NewSock /\ \A g \in Fds \ {f} : sock'[g] = sock[g]
          /\ sock' = [g \in Fds |-> sock'[g]]
          /\ \A g \in Fds \ {f} : newlines'[g] = newlines[g]
      BY <2>2 DEF SelectInv, Maps
    <2>7. newlines' \in [Fds -> SUBSET (1..MaxBytes)]
      <3>1. 1..MaxSent[f] \subseteq 1..MaxBytes
        BY SelectAssumption, SockAssumption DEF Fds
      <3>2. PICK nl \in SUBSET (1..MaxSent[f]) : newlines' = [newlines EXCEPT ![f] = nl]
        BY <2>2
      <3> QED
        BY <3>1, <3>2 DEF SelectInv, Maps
    <2>8. Maps'
      BY <2>2, <2>4, <2>5, <2>6, <2>7 DEF SelectInv, Maps
    <2>9. \A t \in Used : t # s /\ t \in Slots /\ Fd(t) # f /\ Fd(t) \in Fds /\ Fd(t)' = Fd(t)
      BY <2>4, UsedProps DEF SelectInv, Used, Opened, Fd
    <2>10. Fd(s)' = f
      BY <2>4, <2>5 DEF Fd
    <2>11. f # -1
      BY <2>3
    <2>12. Used' = Used \cup {s}
      BY <2>4, <2>5, <2>11 DEF Used
    <2>13. Opened' = Opened \cup {f}
      BY <2>9, <2>10, <2>12 DEF Opened
    <2>14. SlotsOK'
      <3>1. SlotGood(s)'
        BY <2>2, <2>4, <2>5, <2>6, <2>10 DEF SlotGood, SlotOK
      <3>2. \A t \in Slots \ {s} : client'[t] = client[t] /\ (t \in Used => SameFd(Fd(t)))
        BY <2>2, <2>4, <2>6, <2>9 DEF SameFd
      <3> QED
        BY <3>1, <3>2, OneSlot DEF SelectInv
    <2>15. /\ max_fd' \in Fds \cup {server_fd} /\ max_fd' >= max_fd /\ max_fd' >= f
           /\ max_fd \in Nat /\ max_fd' \in Nat
      <3>1. max_fd \in Nat /\ {max_fd, f} \subseteq Nat
        BY <2>3 DEF SelectInv, Sets, Fds, server_fd
      <3>2. \A x \in {max_fd, f} : x <= max_fd + f
        BY <3>1
      <3>3. Max({max_fd, f}) \in {max_fd, f} /\ \A y \in {max_fd, f} : y <= Max({max_fd, f})
        BY <3>1, <3>2, MaxNat
      <3> QED
        BY <2>2, <3>1, <3>3 DEF SelectInv, Sets
    <2>16. /\ \A t, u \in Used : Fd(t) = Fd(u) => t = u
           /\ master_read = Opened \cup {server_fd}
           /\ master_write = {Fd(t) : t \in {u \in Used : Unsent(client[u]) # <<>>}}
           /\ \A g \in master_read : g <= max_fd
      BY <1>0 DEF SelectInv, Sets, SetsMatch
    <2>17. SetsMatch'
      <3>1. \A t, u \in Used' : Fd(t)' = Fd(u)' => t = u
        BY <2>9, <2>10, <2>12, <2>16
      <3>2. master_read' = Opened' \cup {server_fd}
        BY <2>2, <2>13, <2>16
      <3>3. \A g \in master_read' : g <= max_fd'
        <4> TAKE g \in master_read'
        <4>1. g \in Nat
          BY <2>2, <2>3 DEF SelectInv, Sets, Fds, server_fd
        <4> QED
          BY <2>2, <2>15, <2>16, <4>1
      <3>4. {t \in Used' : Unsent(client'[t]) # <<>>} = {t \in Used : Unsent(client[t]) # <<>>}
        BY <2>4, <2>5, <2>9, <2>12
      <3>5. {Fd(t)' : t \in {u \in Used' : Unsent(client'[u]) # <<>>}}
               = {Fd(t) : t \in {u \in Used : Unsent(client[u]) # <<>>}}
        BY <2>9, <3>4
      <3>6. master_write' = {Fd(t)' : t \in {u \in Used' : Unsent(client'[u]) # <<>>}}
        BY <1>0, <2>16, <3>5
      <3> QED
        BY <3>1, <3>2, <3>3, <3>6 DEF SetsMatch
    <2>18. Sets'
      BY <1>0, <2>2, <2>15, <2>17 DEF SelectInv, Sets
    <2>19. StillReady'
      <3>1. /\ readfds \subseteq Opened \cup {server_fd} /\ writefds \subseteq Opened
            /\ StillReady
        BY <1>0 DEF SelectInv, Loop
      <3>2. f \notin readfds /\ f \notin writefds
        BY <2>3, <3>1
      <3>3. ASSUME NEW t \in Used, t >= i
            PROVE  /\ Fd(t) \in readfds /\ ~(received /\ t = i) => Readable(sock'[Fd(t)])
                   /\ Fd(t) \in writefds => Unsent(client'[t]) # <<>>
        <4>1. sock'[Fd(t)] = sock[Fd(t)] /\ client'[t] = client[t]
          BY <2>4, <2>6, <2>9
        <4> QED
          BY <1>0, <3>1, <3>3, <4>1 DEF StillReady
      <3>4. \A t \in Used : Fd(t)' = Fd(t)
        BY <2>9
      <3>5. ASSUME NEW t \in Used', t >= i
            PROVE  /\ Fd(t)' \in readfds /\ ~(received /\ t = i) => Readable(sock'[Fd(t)'])
                   /\ Fd(t)' \in writefds => Unsent(client'[t]) # <<>>
        BY <2>10, <2>12, <3>2, <3>3, <3>4, <3>5
      <3> QED
        BY <1>0, <2>2, <3>5 DEF StillReady
    <2>20. Loop'
      BY <1>0, <1>1, <2>19 DEF SelectInv, Loop
    <2> QED
      BY <2>8, <2>14, <2>18, <2>20 DEF SelectInv
  <1> QED
    BY <1>2, <1>3 DEF Accept

\* There was nothing to accept.
LEMMA AcceptNoneStep ==
    ASSUME SelectInv, AcceptNone
    PROVE  SelectInv'
  <1>1. backlog' \in 0..peers
    BY DEF SelectInv, Loop, AcceptNone, peerVars
  <1> QED
    BY <1>1, NothingAccepted DEF AcceptNone, peerVars

\* The loop goes on to the next slot, or back to select with copies of the master
\* sets: what it still has to look at is as it was.
LEMMA Advanced ==
    ASSUME SelectInv, pc = "clients", Advance(master_read', master_write'),
           UNCHANGED <<peers, backlog>>,
           master_read' \subseteq Fds \cup {server_fd}, master_write' \subseteq Fds,
           \A s \in Used' \ {i} : /\ s \in Used /\ client'[s] = client[s]
                                  /\ sock'[Fd(s)] = sock[Fd(s)]
    PROVE  /\ Loop' /\ pc' \in {"select", "clients"}
           /\ readfds' \subseteq Fds \cup {server_fd} /\ writefds' \subseteq Fds
  <1>0. /\ MAX_CONNECTIONS \in Nat /\ i \in Slots /\ received' = FALSE
        /\ peers' \in 0..MaxPeers /\ backlog' \in 0..peers' /\ StillReady
    BY SelectAssumption DEF SelectInv, Loop, Advance
  <1>1. CASE i + 1 = MAX_CONNECTIONS
    <2>1. /\ i' = 0 /\ pc' = "select" /\ readfds' = master_read' /\ writefds' = master_write'
      BY <1>1 DEF Advance
    <2>2. 0 \in Slots
      BY SelectAssumption DEF Slots
    <2>3. StillReady'
      BY <2>1 DEF StillReady
    <2>4. Loop'
      BY <1>0, <2>1, <2>2, <2>3 DEF Loop
    <2> QED
      BY <2>1, <2>4
  <1>2. CASE i + 1 # MAX_CONNECTIONS
    <2>1. i' = i + 1 /\ pc' = "clients" /\ readfds' = readfds /\ writefds' = writefds
      BY <1>2 DEF Advance
    <2>2. i' \in Slots
      BY <1>0, <1>2, <2>1 DEF Slots
    <2>3. StillReady'
      <3> SUFFICES ASSUME NEW s \in Used', s >= i + 1
                   PROVE  /\ Fd(s)' \in readfds => Readable(sock'[Fd(s)'])
                          /\ Fd(s)' \in writefds => Unsent(client'[s]) # <<>>
        BY <2>1 DEF StillReady
      <3>1. s \in Nat /\ i \in Nat
        BY <1>0 DEF Used, Slots
      <3>2. s # i /\ s >= i
        BY <3>1
      <3>3. s \in Used /\ client'[s] = client[s] /\ sock'[Fd(s)] = sock[Fd(s)] /\ Fd(s)' = Fd(s)
        BY <3>2 DEF Fd
      <3> QED
        BY <1>0, <3>2, <3>3 DEF StillReady
    <2>4. Loop'
      BY <1>0, <2>1, <2>2, <2>3 DEF Loop
    <2> QED
      BY <2>1, <2>4 DEF SelectInv, Sets
  <1> QED
    BY <1>1, <1>2

\* Slot i is free, or its descriptor is in neither set.
LEMMA SkipStep ==
    ASSUME SelectInv, Skip
    PROVE  SelectInv'
  <1>0. /\ pc = "clients" /\ Advance(master_read, master_write)
        /\ UNCHANGED <<client, master_read, master_write, max_fd,
                       peers, backlog, sock, newlines, overflowed>>
    BY DEF Skip, peerVars
  <1>1. Used' = Used /\ Opened' = Opened /\ \A s \in Slots : Fd(s)' = Fd(s)
    BY <1>0 DEF Used, Opened, Fd
  <1>2. Maps' /\ SlotsOK'
    BY <1>0, NoSlot DEF SelectInv, Maps
  <1>3. Advance(master_read', master_write')
    BY <1>0 DEF Advance
  <1>4. /\ Loop' /\ pc' \in {"select", "clients"}
        /\ readfds' \subseteq Fds \cup {server_fd} /\ writefds' \subseteq Fds
    <2>1. /\ master_read' \subseteq Fds \cup {server_fd} /\ master_write' \subseteq Fds
          /\ \A s \in Used' \ {i} : /\ s \in Used /\ client'[s] = client[s]
                                    /\ sock'[Fd(s)] = sock[Fd(s)]
      BY <1>0, <1>1 DEF SelectInv, Sets
    <2> QED
      BY <1>0, <1>3, <2>1, Advanced
  <1>5. Sets'
    BY <1>0, <1>1, <1>4 DEF SelectInv, Sets, SetsMatch, Fd
  <1> QED
    BY <1>2, <1>4, <1>5 DEF SelectInv

\* A call for slot i, which gets client l, while the socket gets t; o: a buffer was
\* too small.
SlotCall(l, t, o) ==
    /\ client' = [client EXCEPT ![i] = l]
    /\ sock' = [sock EXCEPT ![Fd(i)] = t]
    /\ overflowed' = IF o THEN overflowed \cup {Fd(i)} ELSE overflowed
    /\ UNCHANGED <<max_fd, peers, backlog, newlines>>

\* What such a call leaves alone.
LEMMA SlotCalled ==
    ASSUME SelectInv, pc = "clients", i \in Used, NEW l, NEW t, NEW o \in BOOLEAN,
           SlotCall(l, t, o), IsSock(t), SockType(t)
    PROVE  /\ i \in Slots /\ Fd(i) \in Fds
           /\ \A s \in Used \ {i} : /\ Fd(s) # Fd(i) /\ Fd(s) \in Fds /\ s \in Slots
                                    /\ client'[s] = client[s] /\ Fd(s)' = Fd(s)
                                    /\ SameFd(Fd(s)) /\ sock'[Fd(s)] = sock[Fd(s)]
           /\ client'[i] = l /\ sock'[Fd(i)] = t
           /\ \A s \in Slots \ {i} : client'[s] = client[s]
           /\ newlines' = newlines
           /\ Fd(i) \in overflowed' <=> (o \/ Fd(i) \in overflowed)
           /\ Maps'
  <1>1. i \in Slots /\ Fd(i) \in Fds
    BY UsedProps DEF SelectInv, Loop
  <1>2. /\ client'[i] = l /\ \A s \in Slots \ {i} : client'[s] = client[s]
        /\ client' = [s \in Slots |-> client'[s]]
    BY <1>1 DEF SlotCall, SelectInv, Maps
  <1>3. /\ sock'[Fd(i)] = t /\ \A f \in Fds \ {Fd(i)} : sock'[f] = sock[f]
        /\ sock' = [f \in Fds |-> sock'[f]]
    BY <1>1 DEF SlotCall, SelectInv, Maps
  <1>4. /\ overflowed' \subseteq Fds /\ newlines' = newlines
        /\ \A f \in Fds \ {Fd(i)} : f \in overflowed' <=> f \in overflowed
        /\ Fd(i) \in overflowed' <=> (o \/ Fd(i) \in overflowed)
    BY <1>1 DEF SlotCall, SelectInv, Maps
  <1>5. Maps'
    BY <1>1, <1>2, <1>3, <1>4 DEF SelectInv, Maps
  <1>6. ASSUME NEW s \in Used \ {i}
        PROVE  /\ Fd(s) # Fd(i) /\ Fd(s) \in Fds /\ s \in Slots
               /\ client'[s] = client[s] /\ Fd(s)' = Fd(s)
               /\ SameFd(Fd(s)) /\ sock'[Fd(s)] = sock[Fd(s)]
    <2>1. s \in Slots /\ Fd(s) \in Fds /\ client'[s] = client[s] /\ Fd(s)' = Fd(s)
      BY <1>2, UsedProps DEF SelectInv, Used, Fd
    <2>2. Fd(s) # Fd(i)
      BY DEF SelectInv, Sets, SetsMatch
    <2> QED
      BY <1>3, <1>4, <2>1, <2>2 DEF SameFd
  <1> QED
    BY <1>1, <1>2, <1>3, <1>4, <1>5, <1>6

\* The connection of slot i is closed: the slot, its number in the sets and the
\* number itself are free.
LEMMA SlotClosed ==
    ASSUME SelectInv, pc = "clients", i \in Used, NEW t, NEW o \in BOOLEAN,
           SlotCall(NoClient, t, o), IsSock(t), SockType(t),
           master_read' = master_read \ {Fd(i)}, master_write' = master_write \ {Fd(i)},
           Advance(master_read', master_write')
    PROVE  SelectInv'
  <1>1. /\ i \in Slots /\ Fd(i) \in Fds
        /\ \A s \in Used \ {i} : /\ Fd(s) # Fd(i) /\ Fd(s) \in Fds /\ s \in Slots
                                 /\ client'[s] = client[s] /\ Fd(s)' = Fd(s)
                                 /\ SameFd(Fd(s)) /\ sock'[Fd(s)] = sock[Fd(s)]
        /\ client'[i] = NoClient /\ sock'[Fd(i)] = t /\ newlines' = newlines
        /\ \A s \in Slots \ {i} : client'[s] = client[s]
        /\ Maps'
    BY SlotCalled
  <1>2. /\ master_write' = master_write \ {Fd(i)} /\ max_fd' = max_fd
        /\ peers' = peers /\ backlog' = backlog
    BY DEF SlotCall
  <1>3. Used' = Used \ {i}
    BY <1>1 DEF Used, NoClient
  <1>4. Opened' = Opened \ {Fd(i)}
    BY <1>1, <1>3 DEF Opened
  <1>5. SlotsOK'
    <2>1. PICK j \in Slots : j = i
      BY <1>1
    <2>2. SlotGood(j)'
      BY <1>1, <2>1 DEF SlotGood
    <2>3. \A s \in Slots \ {j} : client'[s] = client[s] /\ (s \in Used => SameFd(Fd(s)))
      BY <1>1, <2>1
    <2> QED
      BY <2>2, <2>3, OneSlot DEF SelectInv
  <1>6. /\ Loop' /\ pc' \in {"select", "clients"}
        /\ readfds' \subseteq Fds \cup {server_fd} /\ writefds' \subseteq Fds
    <2>1. /\ master_read' \subseteq Fds \cup {server_fd} /\ master_write' \subseteq Fds
          /\ \A s \in Used' \ {i} : /\ s \in Used /\ client'[s] = client[s]
                                    /\ sock'[Fd(s)] = sock[Fd(s)]
      BY <1>1, <1>2, <1>3 DEF SelectInv, Sets
    <2> QED
      BY <1>2, <2>1, Advanced
  <1>7. SetsMatch'
    <2>0. /\ \A s, u \in Used : Fd(s) = Fd(u) => s = u
          /\ master_read = Opened \cup {server_fd} /\ \A g \in master_read : g <= max_fd
          /\ master_write = {Fd(s) : s \in {u \in Used : Unsent(client[u]) # <<>>}}
      BY DEF SelectInv, Sets, SetsMatch
    <2>1. Fd(i) # server_fd
      BY <1>1 DEF Fds, server_fd
    <2>2. master_read' = Opened' \cup {server_fd}
      BY <1>4, <2>0, <2>1
    <2>3. master_write' = {Fd(s)' : s \in {u \in Used' : Unsent(client'[u]) # <<>>}}
      BY <1>1, <1>2, <1>3, <2>0
    <2>4. \A s, u \in Used' : Fd(s)' = Fd(u)' => s = u
      BY <1>1, <1>3, <2>0
    <2>5. \A g \in master_read' : g <= max_fd'
      BY <1>2, <2>0
    <2> QED
      BY <2>2, <2>3, <2>4, <2>5 DEF SetsMatch
  <1>8. Sets'
    BY <1>2, <1>6, <1>7 DEF SelectInv, Sets
  <1> QED
    BY <1>1, <1>5, <1>6, <1>8 DEF SelectInv

\* A call for slot i that does not close it: the client, the socket and master_write
\* change together.
LEMMA SlotKept ==
    ASSUME SelectInv, pc = "clients", i \in Used, NEW l, NEW t, NEW o \in BOOLEAN,
           SlotCall(l, t, o), UNCHANGED master_read,
           master_write' = IF Unsent(l) # <<>> THEN master_write \cup {Fd(i)}
                                               ELSE master_write \ {Fd(i)}, l.client_fd = Fd(i),
           SlotOK(l, t, newlines[Fd(i)], Fd(i) \in overflowed \/ o)
    PROVE  /\ Maps' /\ SlotsOK' /\ SetsMatch' /\ Used' = Used /\ Opened' = Opened
           /\ master_read' \subseteq Fds \cup {server_fd} /\ master_write' \subseteq Fds
           /\ max_fd' \in Fds \cup {server_fd}
           /\ \A s \in Used : Fd(s)' = Fd(s)
           /\ \A s \in Used' \ {i} : /\ s \in Used /\ client'[s] = client[s]
                                     /\ sock'[Fd(s)] = sock[Fd(s)]
  <1>1. /\ i \in Slots /\ Fd(i) \in Fds
        /\ \A s \in Used \ {i} : /\ Fd(s) # Fd(i) /\ Fd(s) \in Fds /\ s \in Slots
                                 /\ client'[s] = client[s] /\ Fd(s)' = Fd(s)
                                 /\ SameFd(Fd(s)) /\ sock'[Fd(s)] = sock[Fd(s)]
        /\ client'[i] = l /\ sock'[Fd(i)] = t /\ newlines' = newlines
        /\ \A s \in Slots \ {i} : client'[s] = client[s]
        /\ Fd(i) \in overflowed' <=> (o \/ Fd(i) \in overflowed)
        /\ Maps'
    <2>1. IsSock(t) /\ SockType(t)
      BY DEF SlotOK
    <2> QED
      BY <2>1, SlotCalled
  <1>2. PICK j \in Slots : j = i
    BY <1>1
  <1>3. Fd(j)' = Fd(j)
    BY <1>1, <1>2 DEF Fd
  <1>4. Used' = Used
    BY <1>1, <1>2, <1>3 DEF Used, Fd
  <1>5. \A s \in Used : Fd(s)' = Fd(s)
    BY <1>1, <1>2, <1>3
  <1>6. Opened' = Opened
    BY <1>4, <1>5 DEF Opened
  <1>7. SlotsOK'
    <2>1. SlotGood(j)'
      BY <1>1, <1>2, <1>3 DEF SlotGood, SlotOK
    <2>2. \A s \in Slots \ {j} : client'[s] = client[s] /\ (s \in Used => SameFd(Fd(s)))
      BY <1>1, <1>2
    <2> QED
      BY <2>1, <2>2, OneSlot DEF SelectInv
  <1>8. /\ master_read' \subseteq Fds \cup {server_fd} /\ master_write' \subseteq Fds
        /\ max_fd' \in Fds \cup {server_fd}
    BY <1>1 DEF SlotCall, SelectInv, Sets
  <1>9. SetsMatch'
    <2>0. /\ \A s, u \in Used : Fd(s) = Fd(u) => s = u
          /\ master_read = Opened \cup {server_fd} /\ \A g \in master_read : g <= max_fd
          /\ master_write = {Fd(s) : s \in {u \in Used : Unsent(client[u]) # <<>>}}
      BY DEF SelectInv, Sets, SetsMatch
    <2>1. master_write' = {Fd(s) : s \in {u \in Used : Unsent(client'[u]) # <<>>}}
      <3>1. CASE Unsent(l) # <<>>
        BY <3>1, <1>1, <2>0
      <3>2. CASE Unsent(l) = <<>>
        BY <3>2, <1>1, <2>0
      <3> QED
        BY <3>1, <3>2
    <2>2. master_write' = {Fd(s)' : s \in {u \in Used' : Unsent(client'[u]) # <<>>}}
      BY <1>4, <1>5, <2>1
    <2>3. \A s, u \in Used' : Fd(s)' = Fd(u)' => s = u
      BY <1>4, <1>5, <2>0
    <2>4. master_read' = Opened' \cup {server_fd} /\ \A g \in master_read' : g <= max_fd'
      BY <1>6, <2>0 DEF SlotCall
    <2> QED
      BY <2>2, <2>3, <2>4 DEF SetsMatch
  <1> QED
    BY <1>1, <1>4, <1>5, <1>6, <1>7, <1>8, <1>9

\* handle_recv for slot i, and the close after an error.
LEMMA HandleRecvStep ==
    ASSUME SelectInv, HandleRecv
    PROVE  SelectInv'
  <1>0. /\ pc = "clients" /\ i \in Used /\ i \in Slots /\ Fd(i) \in Fds
        /\ UNCHANGED <<max_fd, peers, backlog, newlines>>
        /\ SlotOK(client[i], sock[Fd(i)], newlines[Fd(i)], Fd(i) \in overflowed)
    BY UsedProps DEF HandleRecv, Used, SelectInv
  <1>1. PICK r \in Recv(sock[Fd(i)], RecvBuf) :
          LET f == Fd(i)
              h == AfterReceiving(client[i], r, newlines[f])
          IN  /\ sock' = [sock EXCEPT ![f] = AfterRecv(@, r)]
              /\ overflowed' = IF h.full THEN overflowed \cup {f} ELSE overflowed
              /\ IF h.ret = -1
                 THEN CloseSlot
                 ELSE /\ client' = [client EXCEPT ![i] = h.client]
                      /\ master_write' = IF Unsent(h.client) # <<>>
                                         THEN master_write \cup {f} ELSE master_write
                      /\ UNCHANGED master_read
                      /\ IF f \in writefds
                         THEN received' = TRUE /\ UNCHANGED <<pc, i, readfds, writefds>>
                         ELSE Advance(master_read, master_write')
    BY DEF HandleRecv
  <1>2. PICK h : h = AfterReceiving(client[i], r, newlines[Fd(i)])
    OBVIOUS
  <1>3. PICK t : t = AfterRecv(sock[Fd(i)], r)
    OBVIOUS
  <1>4. /\ SlotOK(h.client, t, newlines[Fd(i)], Fd(i) \in overflowed \/ h.full)
        /\ h.full \in BOOLEAN
        /\ h.client.client_fd = client[i].client_fd
        /\ Unsent(client[i]) # <<>> => Unsent(h.client) # <<>>
        /\ IsSock(t) /\ SockType(t)
    <2> DEFINE o == Fd(i) \in overflowed
    <2>1. o \in BOOLEAN /\ SlotOK(client[i], sock[Fd(i)], newlines[Fd(i)], o)
      BY <1>0
    <2> HIDE DEF o
    <2>2. /\ SlotOK(h.client, t, newlines[Fd(i)], o \/ h.full)
          /\ h.full \in BOOLEAN
          /\ h.client.client_fd = client[i].client_fd
          /\ Unsent(client[i]) # <<>> => Unsent(h.client) # <<>>
          /\ IsSock(t) /\ SockType(t)
      BY <1>2, <1>3, <2>1, SlotReceived DEF AfterReceiving
    <2> QED
      BY <2>2 DEF o
  <1>5. /\ sock' = [sock EXCEPT ![Fd(i)] = t]
        /\ overflowed' = IF h.full THEN overflowed \cup {Fd(i)} ELSE overflowed
        /\ h.ret = -1 => CloseSlot
        /\ h.ret # -1 =>
              /\ client' = [client EXCEPT ![i] = h.client]
              /\ master_write' = IF Unsent(h.client) # <<>>
                                 THEN master_write \cup {Fd(i)} ELSE master_write
              /\ UNCHANGED master_read
              /\ Fd(i) \in writefds =>
                    received' = TRUE /\ UNCHANGED <<pc, i, readfds, writefds>>
              /\ Fd(i) \notin writefds => Advance(master_read, master_write')
    BY <1>1, <1>2, <1>3
  <1>6. CASE h.ret = -1
    <2>1. /\ client' = [client EXCEPT ![i] = NoClient]
          /\ master_read' = master_read \ {Fd(i)} /\ master_write' = master_write \ {Fd(i)}
          /\ Advance(master_read', master_write')
      BY <1>5, <1>6 DEF CloseSlot, Freed
    <2>2. SlotCall(NoClient, t, h.full)
      BY <1>0, <1>5, <2>1 DEF SlotCall
    <2> QED
      BY <1>0, <1>4, <2>1, <2>2, SlotClosed
  <1>7. CASE h.ret # -1
    <2>1. Fd(i) \in master_write <=> Unsent(client[i]) # <<>>
      BY <1>0 DEF SelectInv, Sets, SetsMatch
    <2>2. master_write' = IF Unsent(h.client) # <<>> THEN master_write \cup {Fd(i)}
                                                     ELSE master_write \ {Fd(i)}
      BY <1>4, <1>5, <1>7, <2>1
    <2>3. SlotCall(h.client, t, h.full)
      BY <1>0, <1>5, <1>7 DEF SlotCall
    <2>4. /\ Maps' /\ SlotsOK' /\ SetsMatch' /\ Used' = Used /\ Opened' = Opened
          /\ master_read' \subseteq Fds \cup {server_fd} /\ master_write' \subseteq Fds
          /\ max_fd' \in Fds \cup {server_fd}
          /\ \A s \in Used : Fd(s)' = Fd(s)
          /\ \A s \in Used' \ {i} : /\ s \in Used /\ client'[s] = client[s]
                                    /\ sock'[Fd(s)] = sock[Fd(s)]
      <3>1. master_read' = master_read /\ h.client.client_fd = Fd(i)
        BY <1>4, <1>5, <1>7 DEF Fd
      <3> QED
        BY <1>0, <1>4, <2>2, <2>3, <3>1, SlotKept
    <2>5. CASE Fd(i) \in writefds
      <3>1. received' = TRUE /\ UNCHANGED <<pc, i, readfds, writefds>>
        BY <1>5, <1>7, <2>5
      <3>2. StillReady'
        <4> SUFFICES ASSUME NEW s \in Used, s >= i
                     PROVE  /\ Fd(s) \in readfds /\ s # i => Readable(sock'[Fd(s)])
                            /\ Fd(s) \in writefds => Unsent(client'[s]) # <<>>
          BY <2>4, <3>1 DEF StillReady
        <4>1. /\ Fd(s) \in readfds /\ ~(received /\ s = i) => Readable(sock[Fd(s)])
              /\ Fd(s) \in writefds => Unsent(client[s]) # <<>>
          BY <1>0 DEF SelectInv, Loop, StillReady
        <4>2. CASE s = i
          <5>1. client'[i] = h.client
            BY <1>0, <1>5, <1>7 DEF SelectInv, Maps
          <5> QED
            BY <1>4, <4>1, <4>2, <5>1
        <4>3. CASE s # i
          BY <2>4, <4>1, <4>3
        <4> QED
          BY <4>2, <4>3
      <3>3. Loop'
        BY <1>0, <2>4, <3>1, <3>2 DEF SelectInv, Loop
      <3>4. Sets'
        BY <1>0, <2>4, <3>1 DEF SelectInv, Sets
      <3> QED
        BY <2>4, <3>3, <3>4 DEF SelectInv
    <2>6. CASE Fd(i) \notin writefds
      <3>1. Advance(master_read', master_write')
        BY <1>5, <1>7, <2>6
      <3>2. /\ Loop' /\ pc' \in {"select", "clients"}
            /\ readfds' \subseteq Fds \cup {server_fd} /\ writefds' \subseteq Fds
        BY <1>0, <2>4, <3>1, Advanced
      <3>3. Sets'
        BY <1>0, <2>4, <3>2 DEF SelectInv, Sets
      <3> QED
        BY <2>4, <3>2, <3>3 DEF SelectInv
    <2> QED
      BY <2>5, <2>6
  <1> QED
    BY <1>6, <1>7

\* handle_send for slot i, and the close after an error.
LEMMA HandleSendStep ==
    ASSUME SelectInv, HandleSend
    PROVE  SelectInv'
  <1>0. /\ pc = "clients" /\ i \in Used /\ i \in Slots /\ Fd(i) \in Fds
        /\ UNCHANGED <<max_fd, peers, backlog, newlines, overflowed>>
        /\ SlotOK(client[i], sock[Fd(i)], newlines[Fd(i)], Fd(i) \in overflowed)
    BY UsedProps DEF HandleSend, Used, SelectInv
  <1>1. PICK n : n = SendCount(sock[Fd(i)], Unsent(client[i]))
    OBVIOUS
  <1>2. PICK l : l = AfterSending(client[i], n)
    OBVIOUS
  <1>3. PICK t : t = AfterSend(sock[Fd(i)], Unsent(client[i]))
    OBVIOUS
  <1>4. /\ SlotOK(l, t, newlines[Fd(i)], Fd(i) \in overflowed)
        /\ l.client_fd = client[i].client_fd
        /\ n = Len(Unsent(client[i])) <=> Unsent(l) = <<>>
        /\ IsSock(t) /\ SockType(t)
    <2> DEFINE o == Fd(i) \in overflowed
    <2>1. o \in BOOLEAN /\ SlotOK(client[i], sock[Fd(i)], newlines[Fd(i)], o)
      BY <1>0
    <2> HIDE DEF o
    <2>2. /\ SlotOK(l, t, newlines[Fd(i)], o)
          /\ l.client_fd = client[i].client_fd
          /\ n = Len(Unsent(client[i])) <=> Unsent(l) = <<>>
          /\ IsSock(t) /\ SockType(t)
      BY <1>1, <1>2, <1>3, <2>1, SlotSent
    <2> QED
      BY <2>2 DEF o
  <1>5. CASE sock[Fd(i)].rst
    <2>1. /\ client' = [client EXCEPT ![i] = NoClient]
          /\ master_read' = master_read \ {Fd(i)} /\ master_write' = master_write \ {Fd(i)}
          /\ Advance(master_read', master_write') /\ sock' = sock
      BY <1>5 DEF HandleSend, CloseSlot, Freed
    <2>2. PICK u : u = sock[Fd(i)]
      OBVIOUS
    <2>3. SlotCall(NoClient, u, FALSE) /\ IsSock(u) /\ SockType(u)
      BY <1>0, <2>1, <2>2 DEF SlotCall, SelectInv, Maps
    <2> QED
      BY <1>0, <2>1, <2>3, SlotClosed
  <1>6. CASE ~sock[Fd(i)].rst
    <2>1. /\ client' = [client EXCEPT ![i] = l] /\ sock' = [sock EXCEPT ![Fd(i)] = t]
          /\ n = Len(Unsent(client[i])) => master_write' = master_write \ {Fd(i)}
          /\ n # Len(Unsent(client[i])) => master_write' = master_write
          /\ master_read' = master_read /\ Advance(master_read, master_write')
      BY <1>1, <1>2, <1>3, <1>6 DEF HandleSend, Unwatch
    <2>2. Fd(i) \in master_write <=> Unsent(client[i]) # <<>>
      BY <1>0 DEF SelectInv, Sets, SetsMatch
    <2>3. n # Len(Unsent(client[i])) => Unsent(client[i]) # <<>>
      BY <1>0, <1>1, UnsentProps, SendCountProps DEF SlotOK
    <2>4. master_write' = IF Unsent(l) # <<>> THEN master_write \cup {Fd(i)}
                                              ELSE master_write \ {Fd(i)}
      BY <1>4, <2>1, <2>2, <2>3
    <2>5. SlotCall(l, t, FALSE)
      BY <1>0, <2>1 DEF SlotCall
    <2>6. /\ Maps' /\ SlotsOK' /\ SetsMatch' /\ Used' = Used /\ Opened' = Opened
          /\ master_read' \subseteq Fds \cup {server_fd} /\ master_write' \subseteq Fds
          /\ max_fd' \in Fds \cup {server_fd}
          /\ \A s \in Used' \ {i} : /\ s \in Used /\ client'[s] = client[s]
                                    /\ sock'[Fd(s)] = sock[Fd(s)]
      <3>1. l.client_fd = Fd(i)
        BY <1>4 DEF Fd
      <3>2. SlotOK(l, t, newlines[Fd(i)], Fd(i) \in overflowed \/ FALSE)
        BY <1>4 DEF SlotOK
      <3> QED
        BY <1>0, <2>1, <2>4, <2>5, <3>1, <3>2, SlotKept
    <2>7. Advance(master_read', master_write')
      BY <2>1
    <2>8. /\ Loop' /\ pc' \in {"select", "clients"}
          /\ readfds' \subseteq Fds \cup {server_fd} /\ writefds' \subseteq Fds
      BY <1>0, <2>6, <2>7, Advanced
    <2>9. Sets'
      BY <2>6, <2>8 DEF SelectInv, Sets
    <2> QED
      BY <2>6, <2>8, <2>9 DEF SelectInv
  <1> QED
    BY <1>5, <1>6

-----------------------------------------------------------------------------
(* The theorems.                                                           *)

\* Every step keeps the invariant.
LEMMA SelectNextInv == SelectInv /\ [Next]_vars => SelectInv'
  <1> SUFFICES ASSUME SelectInv, [Next]_vars PROVE SelectInv'
    OBVIOUS
  <1>1. CASE Connect
    BY <1>1, ConnectStep
  <1>2. ASSUME NEW f \in Fds, Fin(f) \/ Reset(f) \/ Read(f) PROVE SelectInv'
    BY <1>2, PeersStep
  <1>3. ASSUME NEW f \in Fds, NEW n \in 1..MaxBytes, Send(f, n) PROVE SelectInv'
    BY <1>3, PeersStep
  <1>4. CASE Select
    BY <1>4, SelectStep
  <1>5. CASE Accept
    BY <1>5, AcceptStep
  <1>6. CASE AcceptNone
    BY <1>6, AcceptNoneStep
  <1>7. CASE Skip
    BY <1>7, SkipStep
  <1>8. CASE HandleRecv
    BY <1>8, HandleRecvStep
  <1>9. CASE HandleSend
    BY <1>9, HandleSendStep
  <1>10. CASE SelectFails
    BY <1>10, SelectFailsStep
  <1>11. CASE UNCHANGED vars
    <2>0. UNCHANGED <<client, master_read, master_write, readfds, writefds, max_fd,
                      pc, i, received, peers, backlog, sock, newlines, overflowed>>
      BY <1>11 DEF vars, setVars, loopVars, peerVars
    <2>1. Used' = Used /\ Opened' = Opened /\ \A s \in Slots : Fd(s)' = Fd(s)
      BY <2>0 DEF Used, Opened, Fd
    <2>2. Maps' /\ SlotsOK'
      BY <2>0, NoSlot DEF SelectInv, Maps
    <2>3. Sets'
      BY <2>0, <2>1 DEF SelectInv, Sets, SetsMatch, Fd
    <2>4. StillReady'
      BY <2>0, <2>1 DEF SelectInv, Loop, StillReady, Fd
    <2>5. Loop'
      BY <2>0, <2>1, <2>4 DEF SelectInv, Loop
    <2> QED
      BY <2>2, <2>3, <2>5 DEF SelectInv
  <1> QED
    BY <1>1, <1>2, <1>3, <1>4, <1>5, <1>6, <1>7, <1>8, <1>9, <1>10, <1>11 DEF Next, Server

\* The inductive invariant holds in every reachable state of the server.
THEOREM SelectInvariant == Spec => []SelectInv
  BY SelectInitInv, SelectNextInv, PTL DEF Spec

\* The buffers, the array, the sets and max_fd agree, and what select reported stays
\* true of the slots not yet looked at, whatever number was closed and accepted again
\* (tcp_select_server_v2.c, lines 45-53 and 192-263).
THEOREM SelectInvTheorem == Spec => []Inv
  <1>1. SelectInv => Inv
    <2> SUFFICES ASSUME SelectInv PROVE Inv
      OBVIOUS
    <2>1. \A s \in Slots : BufferType(client[s]) /\ Fd(s) \in Fds \cup {-1}
      <3> TAKE s \in Slots
      <3>1. CASE client[s] = NoClient
        <4>1. BufferType(NoClient) /\ NoClient.client_fd = -1
          <5>1. <<>> \in Seq(1..MaxBytes) /\ Len(<<>>) = 0 /\ MsgCap \in Nat /\ SendCap \in Nat
            BY EmptySeq, BufferAssumption
          <5> QED
            BY <5>1 DEF NoClient, BufferType
        <4> QED
          BY <3>1, <4>1 DEF Fd
      <3>2. CASE client[s] # NoClient
        BY <3>2 DEF SelectInv, SlotsOK, SlotOK
      <3> QED
        BY <3>1, <3>2
    <2>2. TypeOK
      BY <2>1 DEF SelectInv, Maps, Sets, Loop, TypeOK
    <2> QED
      BY <2>2 DEF SelectInv, Sets, Loop, Inv
  <1> QED
    BY <1>1, SelectInvariant, PTL

\* A slot that is used again has nothing of the connection before, and moving lines,
\* partial sends and the reuse of send_buf lose, repeat and reorder nothing of a
\* stream whose buffers were large enough.
THEOREM SelectConservedTheorem == Spec => []Conserved
  <1>1. SelectInv => Conserved
    <2> SUFFICES ASSUME SelectInv, NEW s \in Used, Fd(s) \notin overflowed, ~sock[Fd(s)].rst
                 PROVE  Trail(client[s], sock[Fd(s)]) = [b \in 1..sock[Fd(s)].sent |-> b]
      BY DEF Conserved
    <2>1. s \in Slots
      BY DEF Used
    <2>2. SlotOK(client[s], sock[Fd(s)], newlines[Fd(s)], Fd(s) \in overflowed)
      BY <2>1, UsedProps DEF SelectInv
    <2> QED
      BY <2>2 DEF SlotOK, InOrder
  <1> QED
    BY <1>1, SelectInvariant, PTL

\* handle_recv and handle_send close a connection only after a reset, after a buffer
\* was too small, or when its stream has ended, all of it was received and all its
\* complete lines were taken for the echo.
THEOREM ClosedAtTheEndTheorem == Spec => ClosedAtTheEnd
  <1> DEFINE End(s) ==
               client'[s].client_fd = -1 =>
                 LET f == Fd(s) IN
                 \/ sock[f].rst \/ f \in overflowed'
                 \/ /\ sock[f].fin /\ sock[f].inq = <<>>
                    /\ LineEnds(client[s].recv_message, newlines[f]) = {}
             A == pc # "select" => \A s \in Used : End(s)
  <1>1. ASSUME SelectInv, [Next]_vars PROVE [A]_vars
    <2>1. SUFFICES ASSUME Next, pc # "select", NEW s \in Used, client'[s].client_fd = -1,
                          ~sock[Fd(s)].rst, Fd(s) \notin overflowed'
                   PROVE  /\ sock[Fd(s)].fin /\ sock[Fd(s)].inq = <<>>
                          /\ LineEnds(client[s].recv_message, newlines[Fd(s)]) = {}
      BY <1>1
    <2>2. /\ s \in Slots /\ Fd(s) \in Fds /\ client[s].client_fd # -1 /\ client'[s] # client[s]
          /\ SlotOK(client[s], sock[Fd(s)], newlines[Fd(s)], Fd(s) \in overflowed)
      BY <1>1, <2>1, UsedProps DEF SelectInv, Used
    <2>3. client = [t \in Slots |-> client[t]]
      BY <1>1 DEF SelectInv, Maps
    <2>4. CASE Connect
      BY <2>2, <2>4 DEF Connect
    <2>5. ASSUME NEW f \in Fds, NEW t, Peer(f, t) PROVE FALSE
      BY <2>2, <2>5 DEF Peer
    <2>6. CASE Select \/ SelectFails
      BY <2>1, <2>6 DEF Select, SelectFails
    <2>7. CASE Accept
      <3>1. CASE Refuse
        BY <2>2, <3>1 DEF Refuse
      <3>2. CASE Admit
        <4>1. Min(Slots \ Used) \in Slots \ Used
          <5>1. Slots \ Used \subseteq Nat /\ Slots \ Used # {}
            BY <3>2 DEF Slots, Admit
          <5> QED
            BY <5>1, MinNat
        <4>2. PICK u \in Slots \ Used : \E f : client' = [client EXCEPT ![u].client_fd = f]
          BY <3>2, <4>1 DEF Admit
        <4> QED
          BY <2>1, <2>2, <2>3, <4>2
      <3> QED
        BY <2>7, <3>1, <3>2 DEF Accept
    <2>8. CASE AcceptNone
      BY <2>2, <2>8 DEF AcceptNone
    <2>9. CASE Skip
      BY <2>2, <2>9 DEF Skip
    <2>10. CASE HandleRecv
      <3>1. PICK r \in Recv(sock[Fd(i)], RecvBuf) :
              LET f == Fd(i)
                  h == AfterReceiving(client[i], r, newlines[f])
              IN  /\ overflowed' = IF h.full THEN overflowed \cup {f} ELSE overflowed
                  /\ IF h.ret = -1
                     THEN CloseSlot
                     ELSE client' = [client EXCEPT ![i] = h.client]
        BY <2>10 DEF HandleRecv
      <3>2. s = i
        BY <2>2, <2>3, <3>1 DEF CloseSlot
      <3>3. PICK h : h = AfterReceiving(client[s], r, newlines[Fd(s)])
        OBVIOUS
      <3>4. /\ overflowed' = IF h.full THEN overflowed \cup {Fd(s)} ELSE overflowed
            /\ h.ret # -1 => client'[s] = h.client
        BY <2>2, <2>3, <3>1, <3>2, <3>3
      <3>5. /\ h.client.client_fd = client[s].client_fd
            /\ h.ret = -1 => sock[Fd(s)].rst \/ h.full
                               \/ (sock[Fd(s)].fin /\ sock[Fd(s)].inq = <<>>)
        <4> DEFINE o == Fd(s) \in overflowed
        <4>1. o \in BOOLEAN /\ SlotOK(client[s], sock[Fd(s)], newlines[Fd(s)], o)
          BY <2>2
        <4> HIDE DEF o
        <4> QED
          BY <3>1, <3>2, <3>3, <4>1, SlotReceived DEF AfterReceiving
      <3>6. h.ret = -1 /\ ~h.full
        BY <2>1, <2>2, <3>4, <3>5
      <3>7. LineEnds(client[s].recv_message, newlines[Fd(s)]) = {}
        BY <2>1, <2>2, <3>4, <3>6 DEF SlotOK
      <3> QED
        BY <2>1, <3>5, <3>6, <3>7
    <2>11. CASE HandleSend
      <3>1. CASE s = i
        <4>1. client' = [client EXCEPT ![s] = AfterSending(client[s],
                                                SendCount(sock[Fd(s)], Unsent(client[s])))]
          BY <2>1, <2>11, <3>1 DEF HandleSend
        <4>2. PICK n : n = SendCount(sock[Fd(s)], Unsent(client[s]))
          OBVIOUS
        <4>3. PICK l : l = AfterSending(client[s], n)
          OBVIOUS
        <4>4. l.client_fd = client[s].client_fd
          <5>1. IsClient(client[s]) /\ BufferType(client[s]) /\ DOMAIN client[s] = SlotFields
            BY <2>2 DEF SlotOK
          <5>2. n \in 0..Len(Unsent(client[s]))
            BY <2>2, <4>2, <5>1, UnsentProps, SendCountProps DEF SlotOK
          <5>3. SameOtherFields(client[s], l)
            BY <4>3, <5>1, <5>2, AfterSendingProps
          <5> QED
            BY <5>1, <5>3 DEF SameOtherFields, SlotFields
        <4>5. client'[s] = l
          BY <2>2, <2>3, <4>1, <4>2, <4>3
        <4> QED
          BY <2>1, <2>2, <4>4, <4>5
      <3>2. CASE s # i
        BY <2>2, <2>3, <2>11, <3>2 DEF HandleSend, CloseSlot
      <3> QED
        BY <3>1, <3>2
    <2> QED
      BY <2>1, <2>4, <2>5, <2>6, <2>7, <2>8, <2>9, <2>10, <2>11
      DEF Next, Server, Fin, Reset, Read, Send
  <1> QED
    BY <1>1, SelectInvariant, PTL DEF Spec, ClosedAtTheEnd
==============================================================================
