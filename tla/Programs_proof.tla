--------------------------- MODULE Programs_proof ----------------------------
(***************************************************************************)
(* Proofs about the programs of MCPrograms: the session of the thread-pool *)
(* server, for any sizes of buf and message and whatever the peer sends,   *)
(* reads and cuts off, and the programs under thread_test and process_test *)
(* for any number of threads, rounds, slots, messages and bytes.           *)
(*                                                                         *)
(* Every program has an inductive invariant and three lemmas: its first    *)
(* state has it, each of its steps keeps it, and it implies the program's  *)
(* properties.  A step of ProgramsNext is a step of one program and none   *)
(* of the others, so that all invariants hold together.                    *)
(***************************************************************************)
EXTENDS MCPrograms, EchoBuffers_proof, FiniteSetTheorems

-----------------------------------------------------------------------------
(* The session.  The inductive invariant SessionInv says where each byte   *)
(* of the peer's stream is: line, message and the kernel's queue hold      *)
(* consecutive bytes, one after the other, which end with the last byte    *)
(* sent, and the bytes before them are echoed or dropped.  What is in line *)
(* ends with a '\n', so what is dropped goes on to the end of its line.    *)

\* The bytes behind a, one after the other.
Run(q, a) == q \in Stream /\ \A i \in 1..Len(q) : q[i] = a + i

\* How many bytes are echoed or dropped.
Done == sock.sent - (Len(line) + Len(message) + Len(sock.inq))

Places ==
    pc # "too_long" =>
        /\ Done \in Nat
        /\ Run(line, Done)
        /\ Run(message, Done + Len(line))
        /\ Run(sock.inq, Done + Len(line) + Len(message))

EchoedBack ==
    ~sock.rst /\ pc # "too_long" =>
        /\ Increasing(Echoed)
        /\ Bytes(Echoed) \cup dropped = 1..Done
        /\ Bytes(Echoed) \cap dropped = {}

Framing ==
    /\ pc \in {"fcntl", "recv", "frame"} => line = <<>>
    /\ pc = "send_all" => line # <<>> /\ line[Len(line)] \in newlines
    /\ pc = "fcntl" => message = <<>>
    /\ pc = "recv" => MessageEnds = {}

\* What is dropped goes on to a '\n'.
DroppedToLineEnd ==
    \A i \in dropped : \E e \in newlines : i <= e /\ i..e \subseteq dropped

SessionInv ==
    /\ TypeOK /\ IsSock(sock)
    /\ Places /\ EchoedBack /\ Framing /\ DroppedToLineEnd /\ ShortLinesAccepted

-----------------------------------------------------------------------------
(* Consecutive bytes.                                                      *)

\* A run that is cut is two runs.
LEMMA RunSplit ==
    ASSUME NEW q, NEW a \in Nat, Run(q, a), NEW n \in 0..Len(q)
    PROVE  /\ Run(First(n, q), a) /\ Run(Rest(n, q), a + n)
           /\ First(n, q) \o Rest(n, q) = q
           /\ Len(First(n, q)) = n /\ Len(Rest(n, q)) = Len(q) - n /\ Len(q) \in Nat
           /\ \A i \in 1..n : First(n, q)[i] = q[i]
           /\ \A i \in 1..(Len(q) - n) : Rest(n, q)[i] = q[n + i]
  <1>1. q \in Seq(1..MaxBytes) /\ Len(q) \in Nat /\ \A i \in 1..Len(q) : q[i] = a + i
    BY DEF Run, Stream
  <1>2. /\ First(n, q) \in Seq(1..MaxBytes) /\ Len(First(n, q)) = n
        /\ \A i \in 1..n : First(n, q)[i] = q[i]
        /\ Rest(n, q) \in Seq(1..MaxBytes) /\ Len(Rest(n, q)) = Len(q) - n
        /\ \A i \in 1..(Len(q) - n) : Rest(n, q)[i] = q[n + i]
        /\ First(n, q) \o Rest(n, q) = q
    BY <1>1, Split
  <1>3. \A i \in 1..n : First(n, q)[i] = a + i
    BY <1>1, <1>2
  <1>4. \A i \in 1..(Len(q) - n) : Rest(n, q)[i] = (a + n) + i
    BY <1>1, <1>2
  <1> QED
    BY <1>1, <1>2, <1>3, <1>4 DEF Run, Stream

\* Two runs, the one behind the other, are one.
LEMMA RunConcat ==
    ASSUME NEW p, NEW q, NEW a \in Nat, Run(p, a), Run(q, a + Len(p))
    PROVE  Run(p \o q, a) /\ Len(p \o q) = Len(p) + Len(q) /\ Len(p) \in Nat /\ Len(q) \in Nat
  <1>1. /\ p \in Seq(1..MaxBytes) /\ Len(p) \in Nat /\ \A i \in 1..Len(p) : p[i] = a + i
        /\ q \in Seq(1..MaxBytes) /\ Len(q) \in Nat
        /\ \A i \in 1..Len(q) : q[i] = a + Len(p) + i
    BY DEF Run, Stream
  <1>2. /\ p \o q \in Seq(1..MaxBytes) /\ Len(p \o q) = Len(p) + Len(q)
        /\ \A i \in 1..(Len(p) + Len(q)) :
              (p \o q)[i] = IF i <= Len(p) THEN p[i] ELSE q[i - Len(p)]
    BY <1>1, ConcatProperties
  <1>3. \A i \in 1..(Len(p) + Len(q)) : (p \o q)[i] = a + i
    BY <1>1, <1>2
  <1> QED
    BY <1>1, <1>2, <1>3 DEF Run, Stream

\* Echoing the bytes behind the first d ones keeps the echo in order.
LEMMA EchoGrows ==
    ASSUME NEW e \in Stream, Increasing(e), NEW d \in Nat, Bytes(e) \subseteq 1..d,
           NEW q, Run(q, d)
    PROVE  /\ Increasing(e \o q)
           /\ Bytes(e \o q) = Bytes(e) \cup (d + 1)..(d + Len(q))
  <1>1. /\ e \in Seq(1..MaxBytes) /\ Len(e) \in Nat
        /\ q \in Seq(1..MaxBytes) /\ Len(q) \in Nat /\ \A i \in 1..Len(q) : q[i] = d + i
    BY DEF Run, Stream
  <1>2. /\ Len(e \o q) = Len(e) + Len(q)
        /\ \A i \in 1..(Len(e) + Len(q)) :
              (e \o q)[i] = IF i <= Len(e) THEN e[i] ELSE q[i - Len(e)]
    BY <1>1, ConcatProperties
  <1>3. \A i \in 1..Len(e) : e[i] \in 1..d
    BY DEF Bytes
  <1>4. Increasing(e \o q)
    <2> SUFFICES ASSUME NEW i \in 1..(Len(e) + Len(q)), NEW j \in 1..(Len(e) + Len(q)), i < j
                 PROVE  (e \o q)[i] < (e \o q)[j]
      BY <1>2 DEF Increasing
    <2>1. CASE j <= Len(e)
      <3>1. i \in 1..Len(e) /\ j \in 1..Len(e)
        BY <1>1, <2>1
      <3>2. e[i] < e[j]
        BY <3>1 DEF Increasing
      <3> QED
        BY <1>2, <2>1, <3>1, <3>2
    <2>2. CASE ~(j <= Len(e))
      <3>1. j - Len(e) \in 1..Len(q)
        BY <1>1, <2>2
      <3>2. (e \o q)[j] = d + (j - Len(e))
        BY <1>1, <1>2, <2>2, <3>1
      <3>3. CASE i <= Len(e)
        <4>1. (e \o q)[i] = e[i] /\ e[i] \in 1..d
          BY <1>1, <1>2, <1>3, <3>3
        <4> QED
          BY <1>1, <3>1, <3>2, <4>1
      <3>4. CASE ~(i <= Len(e))
        <4>1. i - Len(e) \in 1..Len(q)
          BY <1>1, <3>4
        <4>2. (e \o q)[i] = d + (i - Len(e))
          BY <1>1, <1>2, <3>4, <4>1
        <4> QED
          BY <1>1, <3>2, <4>2
      <3> QED
        BY <3>3, <3>4
    <2> QED
      BY <2>1, <2>2
  <1>5. Bytes(e \o q) \subseteq Bytes(e) \cup (d + 1)..(d + Len(q))
    <2> SUFFICES ASSUME NEW i \in 1..(Len(e) + Len(q))
                 PROVE  (e \o q)[i] \in Bytes(e) \cup (d + 1)..(d + Len(q))
      BY <1>2 DEF Bytes
    <2>1. CASE i <= Len(e)
      BY <1>1, <1>2, <2>1 DEF Bytes
    <2>2. CASE ~(i <= Len(e))
      <3>1. i - Len(e) \in 1..Len(q)
        BY <1>1, <2>2
      <3> QED
        BY <1>1, <1>2, <2>2, <3>1
    <2> QED
      BY <2>1, <2>2
  <1>6. Bytes(e) \subseteq Bytes(e \o q)
    <2> SUFFICES ASSUME NEW i \in 1..Len(e) PROVE e[i] \in Bytes(e \o q)
      BY DEF Bytes
    <2>1. i \in 1..(Len(e) + Len(q)) /\ (e \o q)[i] = e[i]
      BY <1>1, <1>2
    <2> QED
      BY <1>2, <2>1 DEF Bytes
  <1>7. (d + 1)..(d + Len(q)) \subseteq Bytes(e \o q)
    <2> SUFFICES ASSUME NEW b \in (d + 1)..(d + Len(q)) PROVE b \in Bytes(e \o q)
      OBVIOUS
    <2>1. b - d \in 1..Len(q) /\ q[b - d] = b
      BY <1>1
    <2>2. Len(e) + (b - d) \in 1..(Len(e) + Len(q))
      BY <1>1, <2>1
    <2>3. (e \o q)[Len(e) + (b - d)] = b
      BY <1>1, <1>2, <2>1, <2>2
    <2> QED
      BY <1>2, <2>2, <2>3 DEF Bytes
  <1> QED
    BY <1>4, <1>5, <1>6, <1>7

\* The parts of a run are runs.
LEMMA RunParts ==
    ASSUME NEW p \in Stream, NEW q \in Stream, NEW a \in Nat, Run(p \o q, a)
    PROVE  /\ Run(p, a) /\ Run(q, a + Len(p))
           /\ Len(p \o q) = Len(p) + Len(q) /\ Len(p) \in Nat /\ Len(q) \in Nat
  <1>1. p \in Seq(1..MaxBytes) /\ Len(p) \in Nat /\ q \in Seq(1..MaxBytes) /\ Len(q) \in Nat
    BY DEF Stream
  <1>2. /\ Len(p \o q) = Len(p) + Len(q)
        /\ \A i \in 1..(Len(p) + Len(q)) :
              (p \o q)[i] = IF i <= Len(p) THEN p[i] ELSE q[i - Len(p)]
    BY <1>1, ConcatProperties
  <1>3. \A i \in 1..(Len(p) + Len(q)) : (p \o q)[i] = a + i
    BY <1>2 DEF Run
  <1>4. \A i \in 1..Len(p) : p[i] = a + i
    <2> TAKE i \in 1..Len(p)
    <2>1. i \in 1..(Len(p) + Len(q)) /\ i <= Len(p)
      BY <1>1
    <2> QED
      BY <1>2, <1>3, <2>1
  <1>5. \A i \in 1..Len(q) : q[i] = a + Len(p) + i
    <2> TAKE i \in 1..Len(q)
    <2>1. Len(p) + i \in 1..(Len(p) + Len(q)) /\ ~(Len(p) + i <= Len(p)) /\ (Len(p) + i) - Len(p) = i
      BY <1>1
    <2>2. (p \o q)[Len(p) + i] = q[i]
      BY <1>2, <2>1
    <2>3. (p \o q)[Len(p) + i] = a + (Len(p) + i)
      BY <1>3, <2>1
    <2> QED
      BY <1>1, <2>2, <2>3
  <1> QED
    BY <1>1, <1>2, <1>4, <1>5 DEF Run

\* No bytes are a run, wherever.
LEMMA RunEmpty == \A a \in Nat : Run(<<>>, a) /\ Len(<<>>) = 0
  BY EmptySeq DEF Run, Stream

-----------------------------------------------------------------------------
(* The steps.                                                              *)

\* The first state.
LEMMA SessionInitInv == Init => SessionInv
  <1> SUFFICES ASSUME Init PROVE SessionInv
    OBVIOUS
  <1>1. /\ sock = NewSock /\ newlines \subseteq 1..MaxBytes /\ nonblock = FALSE
        /\ message = <<>> /\ line = <<>> /\ dropped = {} /\ pc = "fcntl"
    BY DEF Init
  <1>2. <<>> \in Seq(1..MaxBytes) /\ Len(<<>>) = 0
    BY EmptySeq
  <1>3. IsSock(sock) /\ SockType(sock)
    BY <1>1, <1>2, SockAssumption DEF SockType, NewSock, IsSock
  <1>4. TypeOK
    <2>1. message \in Seq(1..MaxBytes) /\ line \in Seq(1..MaxBytes) /\ Len(message) <= MessageSize
      BY <1>1, <1>2, SessionAssumption
    <2>2. nonblock \in BOOLEAN /\ dropped \subseteq 1..MaxBytes /\ pc \in {"fcntl"}
      BY <1>1
    <2> QED
      BY <1>1, <1>3, <2>1, <2>2 DEF TypeOK
  <1>5. Done = 0
    BY <1>1, <1>2 DEF Done, NewSock
  <1>6. Places
    BY <1>1, <1>2, <1>5, RunEmpty DEF Places, NewSock
  <1>7. EchoedBack
    <2>1. Echoed = <<>>
      BY <1>1, <1>2, ConcatEmptySeq DEF Echoed, NewSock
    <2>2. Bytes(<<>>) = {} /\ Increasing(<<>>)
      BY <1>2 DEF Bytes, Increasing
    <2> QED
      BY <1>1, <1>5, <2>1, <2>2 DEF EchoedBack
  <1>8. Framing /\ DroppedToLineEnd /\ ShortLinesAccepted
    BY <1>1 DEF Framing, DroppedToLineEnd, ShortLinesAccepted
  <1> QED
    BY <1>3, <1>4, <1>6, <1>7, <1>8 DEF SessionInv

\* Where the kernel's queue grows by what the peer sent, and what is echoed stays
\* or the connection is reset, each byte still is in its place.
LEMMA PeerKeeps ==
    ASSUME SessionInv, pc \notin Ends, NEW s, Peer(s), IsSock(s), SockType(s),
           NEW n \in Nat, s.sent = sock.sent + n, Len(s.inq) = Len(sock.inq) + n,
           Run(s.inq, Done + Len(line) + Len(message)),
           s.rst \/ (s.rst = sock.rst /\ s.got \o s.outq = Echoed)
    PROVE  SessionInv'
  <1>0. /\ sock' = s /\ UNCHANGED <<newlines, nonblock, message, line, dropped, pc>>
        /\ pc # "too_long"
    BY DEF Peer, Ends
  <1>1. Done' = Done
    <2>1. sock.sent \in Nat /\ Len(line) \in Nat /\ Len(message) \in Nat /\ Len(sock.inq) \in Nat
      BY DEF SessionInv, TypeOK, SockType
    <2>2. Done' = (sock.sent + n) - (Len(line) + Len(message) + (Len(sock.inq) + n))
      BY <1>0 DEF Done
    <2>3. PICK a \in Nat, b \in Nat, c \in Nat, d \in Nat :
            a = sock.sent /\ b = Len(line) /\ c = Len(message) /\ d = Len(sock.inq)
      BY <2>1
    <2>4. Done' = (a + n) - (b + c + (d + n)) /\ Done = a - (b + c + d)
      BY <2>2, <2>3 DEF Done
    <2>5. (a + n) - (b + c + (d + n)) = a - (b + c + d)
      OBVIOUS
    <2> QED
      BY <2>4, <2>5
  <1>2. TypeOK' /\ IsSock(sock)'
    BY <1>0 DEF SessionInv, TypeOK
  <1>3. Places'
    BY <1>0, <1>1 DEF SessionInv, Places
  <1>4. EchoedBack'
    BY <1>0, <1>1 DEF SessionInv, EchoedBack, Echoed
  <1>5. Framing' /\ DroppedToLineEnd' /\ ShortLinesAccepted'
    BY <1>0 DEF SessionInv, Framing, MessageEnds, DroppedToLineEnd, ShortLinesAccepted
  <1> QED
    BY <1>2, <1>3, <1>4, <1>5 DEF SessionInv

\* What a peer does.
LEMMA PeerStep ==
    ASSUME SessionInv, pc \notin Ends,
           Fin \/ Reset \/ \E n \in 1..MaxBytes : Send(n) \/ Read(n)
    PROVE  SessionInv'
  <1>1. /\ IsSock(sock) /\ SockType(sock) /\ sock.sent \in Nat /\ Len(sock.inq) \in Nat
        /\ Len(line) \in Nat /\ Len(message) \in Nat /\ pc # "too_long"
        /\ sock.inq \in Stream
    BY DEF SessionInv, TypeOK, SockType, Ends, Stream
  <1>2. /\ Done \in Nat /\ Run(sock.inq, Done + Len(line) + Len(message))
        /\ Done + Len(line) + Len(message) + Len(sock.inq) = sock.sent
    <2>1. Done \in Nat /\ Run(sock.inq, Done + Len(line) + Len(message))
      BY <1>1 DEF SessionInv, Places
    <2>2. PICK a \in Nat, b \in Nat, c \in Nat, d \in Nat :
            a = sock.sent /\ b = Len(line) /\ c = Len(message) /\ d = Len(sock.inq)
      BY <1>1
    <2>3. Done = a - (b + c + d)
      BY <2>2 DEF Done
    <2>4. a - (b + c + d) + b + c + d = a
      OBVIOUS
    <2>5. Done + b + c + d = a
      BY <2>3, <2>4
    <2> QED
      BY <2>1, <2>2, <2>5
  <1>3. CASE Fin
    <2> DEFINE s == PeerFin(sock)
    <2>1. IsSock(s) /\ SockType(s) /\ \A x \in DOMAIN sock \ {"fin"} : s[x] = sock[x]
      BY <1>1, PeerEndProps
    <2>2. DOMAIN sock = {"sent", "inq", "outq", "got", "fin", "rst"} /\ Peer(s)
      BY <1>1, <1>3 DEF IsSock, Fin
    <2> HIDE DEF s
    <2>3. /\ s.sent = sock.sent /\ s.inq = sock.inq /\ s.rst = sock.rst
          /\ s.got = sock.got /\ s.outq = sock.outq
      BY <2>1, <2>2
    <2>4. s.sent = sock.sent + 0 /\ Len(s.inq) = Len(sock.inq) + 0
      BY <1>1, <2>3
    <2> QED
      BY <1>2, <2>1, <2>2, <2>3, <2>4, PeerKeeps DEF Echoed
  <1>4. CASE Reset
    <2> DEFINE s == PeerReset(sock)
    <2>1. /\ IsSock(s) /\ SockType(s) /\ s.rst
          /\ \A x \in DOMAIN sock \ {"rst", "outq"} : s[x] = sock[x]
      BY <1>1, PeerEndProps
    <2>2. DOMAIN sock = {"sent", "inq", "outq", "got", "fin", "rst"} /\ Peer(s)
      BY <1>1, <1>4 DEF IsSock, Reset
    <2> HIDE DEF s
    <2>3. s.sent = sock.sent /\ s.inq = sock.inq
      BY <2>1, <2>2
    <2>4. s.sent = sock.sent + 0 /\ Len(s.inq) = Len(sock.inq) + 0
      BY <1>1, <2>3
    <2> QED
      BY <1>2, <2>1, <2>2, <2>3, <2>4, PeerKeeps
  <1>5. ASSUME NEW n \in 1..MaxBytes, Send(n) PROVE SessionInv'
    <2> DEFINE s == PeerSend(sock, n)
               b == [i \in 1..n |-> sock.sent + i]
    <2>1. n \in Nat /\ sock.sent + n <= MaxBytes /\ Peer(s)
      BY <1>5 DEF Send
    <2>2. /\ IsSock(s) /\ SockType(s) /\ s.sent = sock.sent + n /\ s.inq = sock.inq \o b
          /\ s.outq = sock.outq /\ s.got = sock.got /\ s.rst = sock.rst
      BY <1>1, <2>1, PeerSendProps
    <2>3. b \in Stream /\ Len(b) = n /\ \A i \in 1..n : b[i] = sock.sent + i
      BY <1>1, <2>1, NextBytes
    <2> HIDE DEF s, b
    <2>4. Run(b, Done + Len(line) + Len(message) + Len(sock.inq))
      BY <1>2, <2>3 DEF Run
    <2>5. Run(s.inq, Done + Len(line) + Len(message)) /\ Len(s.inq) = Len(sock.inq) + n
      <3>1. Done + Len(line) + Len(message) \in Nat
        BY <1>1, <1>2
      <3> QED
        BY <1>2, <2>2, <2>3, <2>4, <3>1, RunConcat
    <2> QED
      BY <2>1, <2>2, <2>5, PeerKeeps DEF Echoed
  <1>6. ASSUME NEW n \in 1..MaxBytes, Read(n) PROVE SessionInv'
    <2> DEFINE s == PeerRead(sock, n)
    <2>1. n \in 0..Len(sock.outq) /\ Peer(s)
      BY <1>1, <1>6 DEF Read, SockType
    <2>2. /\ IsSock(s) /\ SockType(s) /\ s.got \o s.outq = sock.got \o sock.outq
          /\ s.sent = sock.sent /\ s.inq = sock.inq /\ s.rst = sock.rst
      BY <1>1, <2>1, PeerReadProps
    <2> HIDE DEF s
    <2>3. s.sent = sock.sent + 0 /\ Len(s.inq) = Len(sock.inq) + 0
      BY <1>1, <2>2
    <2> QED
      BY <1>2, <2>1, <2>2, <2>3, PeerKeeps DEF Echoed
  <1> QED
    BY <1>3, <1>4, <1>5, <1>6

\* recv returned data: it moves from the kernel's queue to message, or ends the
\* session, and then a line was too long for what the peer kept to.
LEMMA ReceiveStep ==
    ASSUME SessionInv, Receive
    PROVE  SessionInv'
  <1>0. /\ pc = "recv" /\ UNCHANGED <<newlines, nonblock, line, dropped>>
        /\ line = <<>> /\ MessageEnds = {}
    BY DEF Receive, SessionInv, Framing
  <1>1. PICK r \in Recv(sock, BufSize - 1) :
          /\ r.ret = "data" /\ sock' = AfterRecv(sock, r)
          /\ IF TooLong(Len(r.bytes))
             THEN pc' = "too_long" /\ UNCHANGED message
             ELSE pc' = "frame" /\ message' = message \o r.bytes
    BY DEF Receive
  <1>2. /\ IsSock(sock) /\ SockType(sock) /\ message \in Seq(1..MaxBytes) /\ Len(message) \in Nat
        /\ Len(line) = 0 /\ sock.sent \in Nat /\ BufSize \in Nat /\ MessageSize \in Nat
        /\ BufSize - 1 \in Nat \ {0}
    BY <1>0, EmptySeq, SessionAssumption DEF SessionInv, TypeOK, SockType
  <1>3. /\ r.bytes \in Seq(1..MaxBytes) /\ Len(r.bytes) <= BufSize - 1
        /\ IsSock(AfterRecv(sock, r)) /\ SockType(AfterRecv(sock, r))
        /\ \A x \in DOMAIN sock \ {"inq"} : AfterRecv(sock, r)[x] = sock[x]
        /\ r.bytes \o AfterRecv(sock, r).inq = sock.inq
    <2>1. PICK max \in Nat \ {0} : max = BufSize - 1
      BY <1>2
    <2>2. r \in Recv(sock, max)
      BY <1>1, <2>1
    <2>3. /\ r.bytes \in Seq(1..MaxBytes) /\ Len(r.bytes) <= max
          /\ IsSock(AfterRecv(sock, r)) /\ SockType(AfterRecv(sock, r))
          /\ \A x \in DOMAIN sock \ {"inq"} : AfterRecv(sock, r)[x] = sock[x]
          /\ r.bytes \o AfterRecv(sock, r).inq = sock.inq
      <3>1. IsSock(sock) /\ SockType(sock)
        BY <1>2
      <3> QED
        BY <3>1, <2>2, RecvProps
    <2> QED
      BY <2>1, <2>3
  <1>4. /\ IsSock(sock') /\ SockType(sock') /\ r.bytes \o sock'.inq = sock.inq
        /\ sock'.sent = sock.sent /\ sock'.got = sock.got /\ sock'.outq = sock.outq
        /\ sock'.rst = sock.rst
    <2>1. DOMAIN sock = {"sent", "inq", "outq", "got", "fin", "rst"}
      BY <1>2 DEF IsSock
    <2> QED
      BY <1>1, <1>3, <2>1
  <1>5. /\ Done \in Nat /\ Done = sock.sent - (Len(message) + Len(sock.inq))
        /\ Run(message, Done) /\ Run(sock.inq, Done + Len(message))
    <2>1. /\ Done \in Nat /\ Run(message, Done + Len(line))
          /\ Run(sock.inq, Done + Len(line) + Len(message))
      BY <1>0 DEF SessionInv, Places
    <2>2. Done + Len(line) = Done /\ Len(sock.inq) \in Nat
      BY <1>2, <2>1 DEF SockType
    <2>3. Done = sock.sent - (0 + Len(message) + Len(sock.inq))
      BY <1>2 DEF Done
    <2> QED
      BY <1>2, <2>1, <2>2, <2>3
  <1>6. /\ Run(r.bytes, Done + Len(message))
        /\ Run(sock'.inq, Done + Len(message) + Len(r.bytes))
        /\ Len(sock.inq) = Len(r.bytes) + Len(sock'.inq)
        /\ Len(r.bytes) \in Nat /\ Len(sock'.inq) \in Nat
    <2>1. r.bytes \in Stream /\ sock'.inq \in Stream /\ Done + Len(message) \in Nat
      <3>1. r.bytes \in Stream
        BY <1>3 DEF Stream
      <3>2. sock'.inq \in Stream
        BY <1>4 DEF SockType, Stream
      <3>3. Done + Len(message) \in Nat
        BY <1>2, <1>5
      <3> QED
        BY <3>1, <3>2, <3>3
    <2>2. Run(r.bytes \o sock'.inq, Done + Len(message))
      BY <1>4, <1>5
    <2> QED
      BY <1>4, <2>1, <2>2, RunParts
  <1>n. PICK d \in Nat, a \in Nat, b \in Nat, c \in Nat, k \in Nat :
          /\ d = Done /\ a = sock.sent /\ b = Len(message) /\ c = Len(r.bytes)
          /\ k = Len(sock'.inq)
    BY <1>2, <1>5, <1>6
  <1>m. d = a - (b + (c + k))
    BY <1>5, <1>6, <1>n
  <1>s. d + b + c + k = a
    BY <1>m
  <1>7. DroppedToLineEnd'
    BY <1>0 DEF SessionInv, DroppedToLineEnd
  <1>8. CASE TooLong(Len(r.bytes))
    <2>1. pc' = "too_long" /\ message' = message
      BY <1>1, <1>8
    <2>2. TypeOK'
      BY <1>0, <1>4, <2>1 DEF SessionInv, TypeOK, Ends
    <2>3. Places' /\ EchoedBack' /\ Framing'
      BY <2>1 DEF Places, EchoedBack, Framing
    <2>4. ASSUME MessageSize + 2 > BufSize, LinesWithin(MessageSize + 2 - BufSize)' PROVE FALSE
      <3> DEFINE n == MessageSize + 2 - BufSize
      <3>1. n \in Nat /\ n > 0 /\ n <= b
        BY <1>2, <1>3, <1>n, <1>8, <2>4 DEF TooLong
      <3>2. Done \in 0..sock.sent /\ Done + n <= sock.sent
        <4> HIDE DEF n
        <4>1. d \in 0..a /\ d + n <= a
          BY <1>s, <3>1
        <4> QED
          BY <1>n, <4>1
      <3>3. PICK j \in (Done + 1)..(Done + n) : j \in newlines
        <4>1. \A i \in 0..sock'.sent : i + n <= sock'.sent =>
                 \E j \in (i + 1)..(i + n) : j \in newlines'
          BY <2>4 DEF LinesWithin
        <4> HIDE DEF n
        <4> QED
          BY <1>0, <1>4, <3>2, <4>1
      <3>4. j - Done \in 1..Len(message) /\ message[j - Done] = j
        <4>1. j - Done \in 1..Len(message) /\ Done + (j - Done) = j
          <5> HIDE DEF n
          <5>1. j \in (d + 1)..(d + n) /\ n <= b
            BY <1>n, <3>1, <3>3
          <5>2. j - d \in 1..b /\ d + (j - d) = j
            BY <3>1, <5>1
          <5> QED
            BY <1>n, <5>2
        <4> QED
          BY <1>5, <4>1 DEF Run
      <3> QED
        BY <1>0, <3>3, <3>4 DEF MessageEnds
    <2>5. ShortLinesAccepted'
      BY <2>4 DEF ShortLinesAccepted
    <2> QED
      BY <1>4, <1>7, <2>2, <2>3, <2>5 DEF SessionInv
  <1>9. CASE ~TooLong(Len(r.bytes))
    <2>1. pc' = "frame" /\ message' = message \o r.bytes
      BY <1>1, <1>9
    <2>2. /\ Run(message', Done) /\ Len(message') = Len(message) + Len(r.bytes)
      BY <1>5, <1>6, <2>1, RunConcat
    <2>3. message' \in Seq(1..MaxBytes) /\ Len(message') <= MessageSize
      BY <1>2, <1>6, <1>9, <2>2 DEF TooLong, Run, Stream
    <2>4. Done' = Done
      <3>1. Done' = sock'.sent - (Len(line) + Len(message') + Len(sock'.inq))
        BY <1>0 DEF Done
      <3>2. Done' = a - (0 + (b + c) + k)
        BY <1>0, <1>2, <1>4, <1>n, <2>2, <3>1
      <3>3. a - (0 + (b + c) + k) = d
        BY <1>m
      <3> QED
        BY <1>n, <3>2, <3>3
    <2>5. TypeOK'
      BY <1>0, <1>4, <2>1, <2>3 DEF SessionInv, TypeOK
    <2>6. Places'
      <3>1. Run(line', Done')
        BY <1>0, <1>5, <2>4, RunEmpty
      <3>2. Run(message', Done' + Len(line'))
        BY <1>0, <1>2, <1>5, <2>2, <2>4
      <3>3. Run(sock'.inq, Done' + Len(line') + Len(message'))
        <4>1. Done' + Len(line') + Len(message') = d + 0 + (b + c)
          BY <1>0, <1>2, <1>n, <2>2, <2>4
        <4>2. d + 0 + (b + c) = d + b + c
          OBVIOUS
        <4>3. Run(sock'.inq, d + b + c)
          BY <1>6, <1>n
        <4> QED
          BY <4>1, <4>2, <4>3
      <3> QED
        BY <1>5, <2>4, <3>1, <3>2, <3>3 DEF Places
    <2>7. EchoedBack'
      BY <1>0, <1>4, <2>4 DEF SessionInv, EchoedBack, Echoed
    <2>8. Framing' /\ ShortLinesAccepted'
      BY <1>0, <2>1 DEF Framing, ShortLinesAccepted
    <2> QED
      BY <1>4, <1>7, <2>5, <2>6, <2>7, <2>8 DEF SessionInv
  <1> QED
    BY <1>8, <1>9

\* The steps that move no byte.
LEMMA QuietStep ==
    ASSUME SessionInv, SetNonblock \/ ReceiveEnd \/ ReceiveAgain \/ FrameNone \/ SendKills
    PROVE  SessionInv'
  <1>0. /\ UNCHANGED <<sock, newlines, message, line, dropped>> /\ nonblock' \in BOOLEAN
        /\ pc \in {"fcntl", "recv", "frame", "send_all"}
        /\ pc' \in {"recv", "frame", "eof", "recv_error", "sigpipe"}
        /\ pc' = "recv" => pc = "fcntl" \/ MessageEnds = {}
        /\ pc' \in {"recv", "frame"} => pc # "send_all"
    BY DEF SessionInv, TypeOK, SetNonblock, ReceiveEnd, ReceiveAgain, FrameNone, SendKills
  <1>1. Done' = Done
    BY <1>0 DEF Done
  <1>2. TypeOK'
    BY <1>0 DEF SessionInv, TypeOK, Ends
  <1>3. Places' /\ EchoedBack' /\ DroppedToLineEnd' /\ ShortLinesAccepted'
    BY <1>0, <1>1
    DEF SessionInv, Places, EchoedBack, Echoed, DroppedToLineEnd, ShortLinesAccepted
  <1>4. Framing'
    <2>1. pc = "fcntl" => MessageEnds = {}
      BY EmptySeq DEF SessionInv, Framing, MessageEnds
    <2> QED
      BY <1>0, <2>1 DEF SessionInv, Framing, MessageEnds
  <1> QED
    BY <1>0, <1>2, <1>3, <1>4 DEF SessionInv

\* A line moves from message to send_all.
LEMMA FrameLineStep ==
    ASSUME SessionInv, FrameLine
    PROVE  SessionInv'
  <1>0. /\ pc = "frame" /\ pc' = "send_all" /\ MessageEnds # {} /\ line = <<>>
        /\ UNCHANGED <<sock, newlines, nonblock, dropped>>
    BY DEF FrameLine, SessionInv, Framing
  <1>1. PICK n : n = Min(MessageEnds)
    OBVIOUS
  <1>2. line' = First(n, message) /\ message' = Rest(n, message)
    BY <1>1 DEF FrameLine
  <1>3. /\ n \in 1..Len(message) /\ message[n] \in newlines
        /\ message \in Seq(1..MaxBytes) /\ Len(message) \in Nat /\ Len(message) <= MessageSize
        /\ Len(line) = 0 /\ Len(sock.inq) \in Nat /\ sock.sent \in Nat
    <2>1. message \in Seq(1..MaxBytes) /\ Len(message) \in Nat
      BY DEF SessionInv, TypeOK
    <2>2. MessageEnds \subseteq Nat
      BY <2>1 DEF MessageEnds
    <2>3. n \in MessageEnds
      BY <1>0, <1>1, <2>2, MinNat
    <2> QED
      BY <1>0, <2>1, <2>3, EmptySeq DEF MessageEnds, SessionInv, TypeOK, SockType
  <1>4. /\ Done \in Nat /\ Run(message, Done)
        /\ Run(sock.inq, Done + Len(message))
        /\ Done = sock.sent - (Len(message) + Len(sock.inq))
    <2>1. /\ Done \in Nat /\ Run(message, Done + Len(line))
          /\ Run(sock.inq, Done + Len(line) + Len(message))
      BY <1>0 DEF SessionInv, Places
    <2>2. Done + Len(line) = Done
      BY <1>3, <2>1
    <2>3. Done = sock.sent - (0 + Len(message) + Len(sock.inq))
      BY <1>3 DEF Done
    <2> QED
      BY <1>3, <2>1, <2>2, <2>3
  <1>5. /\ Run(line', Done) /\ Run(message', Done + n) /\ Len(line') = n
        /\ Len(message') = Len(message) - n /\ line'[n] = message[n]
    <2>1. n \in 0..Len(message) /\ n \in 1..n
      BY <1>3
    <2> QED
      BY <1>2, <1>4, <2>1, RunSplit
  <1>6. Done' = Done
    <2>1. Done' = sock.sent - (Len(line') + Len(message') + Len(sock.inq))
      BY <1>0 DEF Done
    <2> QED
      BY <1>3, <1>4, <1>5, <2>1
  <1>7. TypeOK'
    <2>1. line' \in Seq(1..MaxBytes) /\ message' \in Seq(1..MaxBytes) /\ Len(message') <= MessageSize
      BY <1>3, <1>5, SessionAssumption DEF Run, Stream
    <2> QED
      BY <1>0, <2>1 DEF SessionInv, TypeOK
  <1>8. Places'
    <2>1. Done + Len(line') + Len(message') = Done + Len(message)
      BY <1>3, <1>4, <1>5
    <2> QED
      BY <1>0, <1>4, <1>5, <1>6, <2>1 DEF Places
  <1>9. EchoedBack'
    BY <1>0, <1>6 DEF SessionInv, EchoedBack, Echoed
  <1>10. Framing'
    <2>1. line' # <<>>
      BY <1>3, <1>5, EmptySeq
    <2> QED
      BY <1>0, <1>3, <1>5, <2>1 DEF Framing
  <1>11. DroppedToLineEnd' /\ ShortLinesAccepted'
    BY <1>0 DEF SessionInv, DroppedToLineEnd, ShortLinesAccepted
  <1> QED
    BY <1>0, <1>7, <1>8, <1>9, <1>10, <1>11 DEF SessionInv

\* send takes the first bytes of the line: they join what is echoed.
LEMMA SendSomeStep ==
    ASSUME SessionInv, SendSome
    PROVE  SessionInv'
  <1>0. /\ pc = "send_all" /\ ~sock.rst /\ SendCount(sock, line) > 0
        /\ sock' = AfterSend(sock, line) /\ line' = Rest(SendCount(sock, line), line)
        /\ pc' = IF line' = <<>> THEN "frame" ELSE "send_all"
        /\ UNCHANGED <<newlines, nonblock, message, dropped>>
    BY DEF SendSome
  <1>1. /\ IsSock(sock) /\ SockType(sock) /\ line \in Stream
        /\ sock.sent \in Nat /\ Len(sock.inq) \in Nat /\ Len(line) \in Nat /\ Len(message) \in Nat
        /\ sock.got \in Stream /\ sock.outq \in Stream
        /\ line # <<>> /\ line[Len(line)] \in newlines
    BY <1>0 DEF SessionInv, TypeOK, SockType, Stream, Framing
  <1>2. PICK n : n = SendCount(sock, line)
    OBVIOUS
  <1>3. n \in 1..Len(line) /\ n \in 0..Len(line)
    <2>1. n \in 0..Len(line) /\ n > 0
      BY <1>0, <1>1, <1>2, SendCountProps
    <2> QED
      BY <1>1, <2>1
  <1>4. PICK f, l : f = First(n, line) /\ l = Rest(n, line)
    OBVIOUS
  <1>5. /\ IsSock(sock') /\ SockType(sock') /\ sock'.outq = sock.outq \o f
        /\ sock'.sent = sock.sent /\ sock'.inq = sock.inq /\ sock'.got = sock.got
        /\ sock'.rst = sock.rst
    BY <1>0, <1>1, <1>2, <1>4, AfterSendProps
  <1>6. /\ Done \in Nat /\ Run(line, Done) /\ Run(message, Done + Len(line))
        /\ Run(sock.inq, Done + Len(line) + Len(message))
        /\ Increasing(Echoed) /\ Bytes(Echoed) \cup dropped = 1..Done
        /\ Bytes(Echoed) \cap dropped = {}
    BY <1>0 DEF SessionInv, Places, EchoedBack
  <1>7. /\ Run(f, Done) /\ Run(l, Done + n) /\ Len(f) = n /\ Len(l) = Len(line) - n
        /\ \A i \in 1..(Len(line) - n) : l[i] = line[n + i]
    BY <1>3, <1>4, <1>6, RunSplit
  <1>8. line' = l
    BY <1>0, <1>2, <1>4
  <1>n. PICK d \in Nat, a \in Nat, x \in Nat, b \in Nat, k \in Nat, m \in Nat :
          /\ d = Done /\ a = sock.sent /\ x = Len(line) /\ b = Len(message)
          /\ k = Len(sock.inq) /\ m = n
    <2>1. n \in Nat
      BY <1>1, <1>3
    <2> QED
      BY <1>1, <1>6, <2>1
  <1>m. m <= x
    BY <1>1, <1>3, <1>n
  <1>9. Done' = Done + n
    <2>1. Done = a - (x + b + k)
      BY <1>n DEF Done
    <2>2. Done' = a - ((x - m) + b + k)
      <3>1. Done' = sock'.sent - (Len(l) + Len(message) + Len(sock'.inq))
        BY <1>0, <1>8 DEF Done
      <3> QED
        BY <1>5, <1>7, <1>n, <3>1
    <2>3. a - ((x - m) + b + k) = a - (x + b + k) + m
      BY <1>m
    <2>4. Done' = Done + m
      BY <2>1, <2>2, <2>3
    <2> QED
      BY <1>n, <2>4
  <1>10. Places'
    <2>1. d + m \in Nat /\ d + m + (x - m) = d + x /\ d + m + (x - m) + b = d + x + b
      BY <1>m
    <2>2. Done' = d + m /\ Len(line') = x - m
      BY <1>7, <1>8, <1>9, <1>n
    <2>3. Run(line', Done')
      BY <1>7, <1>8, <1>9
    <2>4. Run(message', Done' + Len(line'))
      <3>1. Done' + Len(line') = d + x
        BY <2>1, <2>2
      <3> QED
        BY <1>0, <1>6, <1>n, <3>1
    <2>5. Run(sock'.inq, Done' + Len(line') + Len(message'))
      <3>1. Done' + Len(line') + Len(message') = d + x + b
        BY <1>0, <1>n, <2>1, <2>2
      <3> QED
        BY <1>5, <1>6, <1>n, <3>1
    <2> QED
      BY <2>1, <2>2, <2>3, <2>4, <2>5 DEF Places
  <1>11. EchoedBack'
    <2>1. f \in Stream
      BY <1>7 DEF Run
    <2>2. sock.got \o (sock.outq \o f) = (sock.got \o sock.outq) \o f
      BY <1>1, <2>1, StreamAssoc, Zenon
    <2>3. Echoed' = Echoed \o f
      <3>1. Echoed' = sock'.got \o sock'.outq
        BY DEF Echoed
      <3> QED
        BY <1>5, <2>2, <3>1 DEF Echoed
    <2>4. Echoed \in Stream
      BY <1>1, StreamConcat DEF Echoed
    <2>5. PICK e : e = Echoed
      OBVIOUS
    <2>6. Increasing(e \o f) /\ Bytes(e \o f) = Bytes(e) \cup (d + 1)..(d + m)
      <3>1. e \in Stream /\ Increasing(e) /\ Bytes(e) \subseteq 1..d /\ Run(f, d) /\ Len(f) = m
        BY <1>6, <1>7, <1>n, <2>4, <2>5
      <3> QED
        BY <3>1, EchoGrows
    <2>7. Bytes(e) \cup dropped = 1..d /\ Bytes(e) \cap dropped = {}
      BY <1>6, <1>n, <2>5
    <2>8. 1..(d + m) = (1..d) \cup (d + 1)..(d + m) /\ (1..d) \cap ((d + 1)..(d + m)) = {}
      OBVIOUS
    <2>9. /\ Bytes(e \o f) \cup dropped = 1..(d + m)
          /\ Bytes(e \o f) \cap dropped = {}
      BY <2>6, <2>7, <2>8
    <2>10. Echoed' = e \o f /\ Done' = d + m
      BY <1>9, <1>n, <2>3, <2>5
    <2> QED
      BY <1>0, <2>6, <2>9, <2>10 DEF EchoedBack
  <1>12. TypeOK'
    <2>1. line' \in Seq(1..MaxBytes)
      BY <1>7, <1>8 DEF Run, Stream
    <2> QED
      BY <1>0, <1>5, <2>1 DEF SessionInv, TypeOK
  <1>13. Framing'
    <2>1. CASE line' = <<>>
      BY <1>0, <2>1 DEF Framing
    <2>2. CASE line' # <<>>
      <3>1. Len(l) # 0 /\ l \in Seq(1..MaxBytes)
        BY <1>7, <1>8, <2>2, EmptySeq DEF Run, Stream
      <3>2. x - m \in 1..(x - m) /\ m + (x - m) = x
        <4>1. x - m # 0
          BY <1>7, <1>n, <3>1
        <4> QED
          BY <1>m, <4>1
      <3>3. l[x - m] = line[x]
        BY <1>7, <1>n, <3>2
      <3>4. line'[Len(line')] \in newlines
        BY <1>1, <1>7, <1>8, <1>n, <3>3
      <3> QED
        BY <1>0, <2>2, <3>4 DEF Framing
    <2> QED
      BY <2>1, <2>2
  <1>14. DroppedToLineEnd' /\ ShortLinesAccepted'
    BY <1>0 DEF SessionInv, DroppedToLineEnd, ShortLinesAccepted
  <1> QED
    BY <1>5, <1>10, <1>11, <1>12, <1>13, <1>14 DEF SessionInv

\* send fails: what is left of the line is dropped, its '\n' included.
LEMMA SendGivesUpStep ==
    ASSUME SessionInv, SendGivesUp
    PROVE  SessionInv'
  <1>0. /\ pc = "send_all" /\ pc' = "frame" /\ line' = <<>>
        /\ dropped' = dropped \cup {line[i] : i \in 1..Len(line)}
        /\ UNCHANGED <<sock, newlines, nonblock, message>>
    BY DEF SendGivesUp
  <1>1. /\ line \in Seq(1..MaxBytes) /\ sock.sent \in Nat /\ Len(sock.inq) \in Nat
        /\ Len(line) \in Nat /\ Len(message) \in Nat /\ dropped \subseteq 1..MaxBytes
        /\ line # <<>> /\ line[Len(line)] \in newlines /\ Len(line') = 0
    BY <1>0, EmptySeq DEF SessionInv, TypeOK, SockType, Framing
  <1>2. /\ Done \in Nat /\ Run(line, Done) /\ Run(message, Done + Len(line))
        /\ Run(sock.inq, Done + Len(line) + Len(message))
    BY <1>0 DEF SessionInv, Places
  <1>n. PICK d \in Nat, a \in Nat, x \in Nat, b \in Nat, k \in Nat :
          /\ d = Done /\ a = sock.sent /\ x = Len(line) /\ b = Len(message)
          /\ k = Len(sock.inq)
    BY <1>1, <1>2
  <1>3. \A i \in 1..x : line[i] = d + i
    BY <1>2, <1>n DEF Run
  <1>4. x > 0 /\ x \in 1..x
    <2>1. Len(line) # 0
      BY <1>1, EmptySeq
    <2>2. x # 0
      BY <1>n, <2>1
    <2> QED
      BY <2>2
  <1>5. dropped' = dropped \cup (d + 1)..(d + x)
    <2>1. {line[i] : i \in 1..x} \subseteq (d + 1)..(d + x)
      BY <1>3
    <2>2. ASSUME NEW j \in (d + 1)..(d + x) PROVE j \in {line[i] : i \in 1..x}
      <3>1. j - d \in 1..x /\ d + (j - d) = j
        OBVIOUS
      <3> QED
        BY <1>3, <3>1
    <2>3. {line[i] : i \in 1..x} = (d + 1)..(d + x)
      BY <2>1, <2>2
    <2> QED
      BY <1>0, <1>n, <2>3
  <1>6. Done' = d + x
    <2>1. Done = a - (x + b + k)
      BY <1>n DEF Done
    <2>2. Done' = a - (0 + b + k)
      BY <1>0, <1>1, <1>n DEF Done
    <2>3. a - (0 + b + k) = a - (x + b + k) + x
      OBVIOUS
    <2> QED
      BY <1>n, <2>1, <2>2, <2>3
  <1>7. Places'
    <2>1. d + x \in Nat /\ d + x + 0 = d + x /\ d + x + 0 + b = d + x + b
      OBVIOUS
    <2>2. Run(line', Done')
      BY <1>0, <1>6, <2>1, RunEmpty
    <2>3. Run(message', Done' + Len(line'))
      BY <1>0, <1>1, <1>2, <1>6, <1>n, <2>1
    <2>4. Run(sock'.inq, Done' + Len(line') + Len(message'))
      BY <1>0, <1>1, <1>2, <1>6, <1>n, <2>1
    <2> QED
      BY <1>6, <2>1, <2>2, <2>3, <2>4 DEF Places
  <1>8. EchoedBack'
    <2>1. Echoed' = Echoed
      BY <1>0 DEF Echoed
    <2>2. CASE sock.rst
      BY <1>0, <2>2 DEF EchoedBack
    <2>3. CASE ~sock.rst
      <3>1. PICK e : e = Bytes(Echoed)
        OBVIOUS
      <3>2. Increasing(Echoed) /\ e \cup dropped = 1..d /\ e \cap dropped = {}
        BY <1>0, <1>n, <2>3, <3>1 DEF SessionInv, EchoedBack
      <3>3. 1..(d + x) = (1..d) \cup (d + 1)..(d + x) /\ (1..d) \cap ((d + 1)..(d + x)) = {}
        OBVIOUS
      <3>4. e \cup dropped' = 1..(d + x) /\ e \cap dropped' = {}
        BY <1>5, <3>2, <3>3
      <3> QED
        BY <1>6, <2>1, <3>1, <3>2, <3>4 DEF EchoedBack
    <2> QED
      BY <2>2, <2>3
  <1>9. TypeOK'
    <2>1. line' \in Seq(1..MaxBytes)
      BY <1>0, EmptySeq
    <2>2. \A i \in 1..Len(line) : line[i] \in 1..MaxBytes
      <3>1. line \in Seq(1..MaxBytes)
        BY <1>1
      <3> QED
        BY <3>1, ElementOfSeq
    <2>3. dropped' \subseteq 1..MaxBytes
      BY <1>0, <1>1, <2>2
    <2> QED
      BY <1>0, <2>1, <2>3 DEF SessionInv, TypeOK
  <1>10. DroppedToLineEnd'
    <2> SUFFICES ASSUME NEW i \in dropped'
                 PROVE  \E e \in newlines : i <= e /\ i..e \subseteq dropped'
      BY <1>0 DEF DroppedToLineEnd
    <2>1. CASE i \in dropped
      BY <1>0, <2>1 DEF SessionInv, DroppedToLineEnd
    <2>2. CASE i \in (d + 1)..(d + x)
      <3>1. d + x \in newlines
        BY <1>1, <1>3, <1>4, <1>n
      <3>2. i <= d + x /\ i..(d + x) \subseteq (d + 1)..(d + x)
        BY <2>2
      <3> QED
        BY <1>5, <3>1, <3>2
    <2> QED
      BY <1>5, <2>1, <2>2
  <1>11. Framing' /\ ShortLinesAccepted'
    BY <1>0 DEF Framing, ShortLinesAccepted
  <1> QED
    BY <1>0, <1>7, <1>8, <1>9, <1>10, <1>11 DEF SessionInv

\* Every step of the session, and of its peer, keeps the inductive invariant.
LEMMA SessionNextInv == SessionInv /\ [Next]_vars => SessionInv'
  <1> SUFFICES ASSUME SessionInv, [Next]_vars PROVE SessionInv'
    OBVIOUS
  <1>1. CASE pc \notin Ends /\ (Fin \/ Reset)
    BY <1>1, PeerStep
  <1>2. CASE \E n \in 1..MaxBytes : pc \notin Ends /\ (Send(n) \/ Read(n))
    BY <1>2, PeerStep
  <1>3. CASE Session
    <2>1. CASE SetNonblock \/ ReceiveEnd \/ ReceiveAgain \/ FrameNone \/ SendKills
      BY <2>1, QuietStep
    <2>2. CASE Receive
      BY <2>2, ReceiveStep
    <2>3. CASE FrameLine
      BY <2>3, FrameLineStep
    <2>4. CASE SendSome
      BY <2>4, SendSomeStep
    <2>5. CASE SendGivesUp
      BY <2>5, SendGivesUpStep
    <2> QED
      BY <1>3, <2>1, <2>2, <2>3, <2>4, <2>5 DEF Session
  <1>4. CASE UNCHANGED vars
    <2>1. UNCHANGED <<sock, newlines, nonblock, message, line, dropped, pc>>
      BY <1>4 DEF vars
    <2>2. Done' = Done /\ Echoed' = Echoed /\ MessageEnds' = MessageEnds
      BY <2>1 DEF Done, Echoed, MessageEnds
    <2> QED
      BY <2>1, <2>2 DEF SessionInv, TypeOK, Places, EchoedBack, Framing,
                        DroppedToLineEnd, ShortLinesAccepted, LinesWithin
  <1> QED
    BY <1>1, <1>2, <1>3, <1>4 DEF Next

\* What the invariant says of the lines that are cut.
LEMMA CutFromInv == SessionInv => CutToTheEnd
  <1> SUFFICES ASSUME SessionInv, NEW i \in dropped, NEW j \in i..sock.sent,
                      \A k \in i..(j - 1) : k \notin newlines
               PROVE  j \in dropped
    BY DEF CutToTheEnd
  <1>1. PICK e \in newlines : i <= e /\ i..e \subseteq dropped
    BY DEF SessionInv, DroppedToLineEnd
  <1>2. i \in Nat /\ e \in Nat /\ sock.sent \in Nat
    BY SockAssumption DEF SessionInv, TypeOK, SockType
  <1>3. PICK s \in Nat : s = sock.sent
    BY <1>2
  <1>4. j \in i..s
    BY <1>3
  <1>5. CASE j <= e
    BY <1>1, <1>2, <1>4, <1>5
  <1>6. CASE ~(j <= e)
    <2>1. e \in i..(j - 1)
      BY <1>1, <1>2, <1>4, <1>6
    <2> QED
      BY <2>1, <1>1
  <1> QED
    BY <1>5, <1>6

\* What the invariant says of the bytes, when the connection is not reset.
LEMMA ConservedFromInv == SessionInv => Conserved
  <1> SUFFICES ASSUME SessionInv, ~sock.rst, pc # "too_long"
               PROVE  LET done == sock.sent - Len(Pending) IN
                      /\ Pending = [i \in 1..Len(Pending) |-> done + i]
                      /\ Increasing(Echoed)
                      /\ Bytes(Echoed) \cup dropped = 1..done
                      /\ Bytes(Echoed) \cap dropped = {}
    BY DEF Conserved
  <1>1. /\ sock.sent \in Nat /\ Len(sock.inq) \in Nat /\ Len(line) \in Nat /\ Len(message) \in Nat
    BY DEF SessionInv, TypeOK, SockType
  <1>2. /\ Done \in Nat /\ Run(line, Done) /\ Run(message, Done + Len(line))
        /\ Run(sock.inq, Done + Len(line) + Len(message))
    BY DEF SessionInv, Places
  <1>n. PICK d \in Nat, a \in Nat, x \in Nat, b \in Nat, k \in Nat :
          /\ d = Done /\ a = sock.sent /\ x = Len(line) /\ b = Len(message)
          /\ k = Len(sock.inq)
    BY <1>1, <1>2
  <1>3. PICK l, m, q, lm, p : /\ l = line /\ m = message /\ q = sock.inq
                              /\ lm = l \o m /\ p = lm \o q
    OBVIOUS
  <1>4. Run(lm, d) /\ Len(lm) = x + b
    <2>1. Run(l, d) /\ Run(m, d + Len(l)) /\ Len(l) = x /\ Len(m) = b
      BY <1>2, <1>3, <1>n
    <2> QED
      BY <1>3, <2>1, RunConcat
  <1>5. Run(p, d) /\ Len(p) = x + b + k
    <2>1. d + x + b = d + (x + b)
      OBVIOUS
    <2>2. Run(q, d + Len(lm)) /\ Len(q) = k
      BY <1>2, <1>3, <1>4, <1>n, <2>1
    <2> QED
      BY <1>3, <1>4, <2>2, RunConcat
  <1>6. Pending = p
    <2>1. l \in Stream /\ m \in Stream /\ q \in Stream
      BY <1>2, <1>3 DEF Run
    <2>2. (l \o m) \o q = l \o (m \o q)
      BY <2>1, StreamAssoc, Zenon
    <2>3. Pending = (l \o m) \o q \/ Pending = l \o (m \o q)
      BY <1>3 DEF Pending
    <2> QED
      BY <1>3, <2>2, <2>3
  <1>7. sock.sent - Len(Pending) = d
    <2>1. Done = a - (x + b + k)
      BY <1>n DEF Done
    <2> QED
      BY <1>5, <1>6, <1>n, <2>1
  <1>8. p = [i \in 1..Len(p) |-> d + i]
    <2>1. p \in Seq(1..MaxBytes) /\ \A i \in 1..Len(p) : p[i] = d + i
      BY <1>5 DEF Run, Stream
    <2>2. p = [i \in 1..Len(p) |-> p[i]]
      BY <2>1
    <2> QED
      BY <2>1, <2>2
  <1>9. Increasing(Echoed) /\ Bytes(Echoed) \cup dropped = 1..d /\ Bytes(Echoed) \cap dropped = {}
    BY <1>n DEF SessionInv, EchoedBack
  <1> QED
    BY <1>6, <1>7, <1>8, <1>9

-----------------------------------------------------------------------------
(* What follows for the specification.                                     *)

\* Each byte of the peer is, in the order sent, echoed or dropped, then in
\* line, in message and in the kernel's queue (handle_client and send_all).
THEOREM SessionInvariant == Spec => []SessionInv
  BY SessionInitInv, SessionNextInv, PTL DEF Spec

\* A peer whose lines are short enough is never told that one is too long,
\* whatever the sizes of buf and message (lines 67-72).
THEOREM ShortLinesTheorem == Spec => []ShortLinesAccepted
  <1>1. SessionInv => ShortLinesAccepted
    BY DEF SessionInv
  <1> QED
    BY <1>1, SessionInvariant, PTL

\* Where a line is cut, all that is behind the cut is dropped, up to and with
\* its '\n' (lines 42-48 and 100).
THEOREM CutTheorem == Spec => []CutToTheEnd
  BY CutFromInv, SessionInvariant, PTL

\* On a connection that is not reset no byte is lost but by a send_all that gave
\* up, none is echoed twice or out of order, and what is pending are the last
\* bytes sent (lines 73-74, 87-103 and send_all).
THEOREM SessionConservedTheorem == Spec => []Conserved
  BY ConservedFromInv, SessionInvariant, PTL

-----------------------------------------------------------------------------
(* The inductive invariants.                                               *)

\* OneSlot: data is the last number that was put; the consumer has printed one
\* line for each number it took, but for the one it is about to print.
SlotInv ==
    /\ data = putI /\ ready \in {0, 1} /\ putI \in 0..Rounds /\ takeI \in Nat
    /\ slotPc \in [producer : {"lock", "sleeping", "end"},
                   consumer : {"lock", "sleeping", "print", "end"}]
    /\ slotPc.producer # "end" => putI < Rounds
    /\ printed \in Seq(Nat)
    /\ Len(printed) = takeI - Bit(slotPc.consumer = "print")
    /\ PrintsOwnOrNext

\* A read of thread_input that thread_echo has not printed yet.
FlagPending == inputPc = "flag" \/ (flag = 1 /\ echoPc # "clear")

\* FlagHandOver: the input thread fills BUF only while the flag is down, the echo
\* thread prints only while it is up.
FlagInv ==
    /\ flag \in {0, 1} /\ BUF \in Nat /\ reads \in Nat
    /\ handed \in Seq(Nat) /\ echoed \in Seq(Nat)
    /\ inputPc \in {"test", "read", "flag", "check", "spin", "end"}
    /\ echoPc \in {"test", "loop", "print", "clear", "spin", "end"}
    /\ inputPc \in {"read", "flag"} => flag = 0
    /\ echoPc \in {"print", "clear"} => flag = 1
    /\ Len(handed) = Len(echoed) + Bit(FlagPending)
    /\ handed # <<>> => BUF = handed[Len(handed)]
    /\ \A k \in 1..Len(echoed) : echoed[k] = handed[k]

CountTypeOK ==
    /\ count \in Nat /\ haveMutex \in BOOLEAN /\ inRegister \in BOOLEAN
    /\ countPc \in [Counters -> {"start", "load", "store", "unlock", "end"}]
    /\ register \in [Counters -> Nat] /\ roundsDone \in [Counters -> 0..Increments]
    /\ mutexHolder \subseteq Counters

\* A loop that keeps count in a register has one round that stands for all.
CountRounds ==
    \A t \in Counters :
        /\ countPc[t] \in {"unlock", "end"} <=> roundsDone[t] = Increments
        /\ inRegister => roundsDone[t] \in {0, Increments}

\* Nothing is gained: neither count nor a register exceeds the rounds done.
NothingGained ==
    \A s, t \in Counters : s # t =>
        /\ count <= roundsDone[s] + roundsDone[t]
        /\ register[t] <= roundsDone[s] + roundsDone[t]

\* With the mutex at most one thread is in its loop, and count is exact.
CountExclusion ==
    haveMutex =>
        /\ \A t \in Counters : t \in mutexHolder <=> countPc[t] \in {"load", "store", "unlock"}
        /\ \A s, t \in Counters : s # t =>
             /\ ~(s \in mutexHolder /\ t \in mutexHolder)
             /\ count = roundsDone[s] + roundsDone[t]
        /\ \A t \in Counters : countPc[t] = "store" => register[t] = count

\* What is left at least: a thread that has done a round builds on one, its own or
\* the other's, and so stores two in its last.
SomeAreLeft ==
    /\ \A t \in Counters : roundsDone[t] > 0 => count >= Step
    /\ ~inRegister =>
         /\ \A t \in Counters : countPc[t] = "store" /\ roundsDone[t] > 0 => register[t] > 0
         /\ (\A t \in Counters : roundsDone[t] = Increments) => count > 1

CountInv == CountTypeOK /\ CountRounds /\ NothingGained /\ CountExclusion /\ SomeAreLeft

\* ConfigLock: writer and readers exclude each other, and the writer stores what it
\* loaded under the same lock.
ConfigInv ==
    /\ config \in Int /\ loaded \in Int /\ updates \in Nat
    /\ readPc \in [Readers -> {"lock", "read", "locked", "end"}]
    /\ readerSaw \in [Readers -> Int]
    /\ writePc \in {"lock", "load", "store", "unlock", "end"}
    /\ ~(Writing /\ Reading)
    /\ writePc = "store" => loaded = config
    /\ ReadIsCurrent

\* Tasks that were pushed, and those that were popped.
TasksPushed == nextTask - 1
TasksPopped == TasksPushed - taskQueue.size

\* TaskPool: the ring is not used twice, so that task t stays in slot t - 1; the
\* workers hold different tasks, of those that were popped.
TaskInv ==
    /\ TaskTypeOK /\ NoTaskRefused
    /\ prepared => nextTask \in Tasks
    /\ TasksPopped >= 0
    /\ taskQueue.front = TasksPopped % MAX_TASK
    /\ taskQueue.rear = TasksPushed % MAX_TASK
    /\ \A t \in 1..TasksPushed : taskQueue.queue[t - 1] = t
    /\ \A w \in PoolWorkers :
         /\ taskHeld[w] <= TasksPopped
         /\ taskPc[w] = "run" <=> taskHeld[w] # NoTask
    /\ \A v, w \in PoolWorkers : v # w /\ taskHeld[v] # NoTask => taskHeld[v] # taskHeld[w]

Messages == [number : Nat, start : FirstBytes]

MqTypeOK ==
    /\ queueName \in Producers \cup {NoQueue}
    /\ messages \in [Producers -> Seq(Messages)] /\ taken \in [Producers -> Seq(Nat)]
    /\ linesRead \in [Producers -> Nat] /\ send_buf \in [Producers -> FirstBytes]
    /\ receive_buf \in [Consumers -> FirstBytes] /\ endedOn \in [Consumers -> Messages]
    /\ mqPc \in [Producers \cup Consumers ->
                   {"open", "read", "send", "eof", "unlink", "receive",
                    "exit", "complete", "failed"}]
    /\ mqdes \in [Consumers -> Producers \cup {NoQueue}]

NumbersOf(s) == [k \in 1..Len(s) |-> s[k].number]

\* The messages that were sent to a queue, by their numbers: the lines, and EOF
\* behind the last of them.
SentTo(p) == taken[p] \o NumbersOf(messages[p])

SentInOrder ==
    \A p \in Producers :
        /\ \A k \in 1..Len(SentTo(p)) :
             SentTo(p)[k] = IF k <= linesRead[p] THEN k ELSE EofNumber
        /\ mqPc[p] \in {"open", "read", "eof"} => Len(SentTo(p)) = linesRead[p]
        /\ mqPc[p] = "send" => Len(SentTo(p)) = linesRead[p] - 1
        /\ mqPc[p] \in {"unlink", "exit", "failed"} => Len(SentTo(p)) <= linesRead[p] + 1
        /\ mqPc[p] \notin {"receive", "complete"}

\* No line has the number of EOF.
EofIsOne ==
    \A p \in Producers : \A k \in 1..Len(messages[p]) :
        messages[p][k].number = EofNumber => messages[p][k] = EofMessage

\* A consumer that had the last message left the queue empty; one that ended on a
\* line had one that looks like EOF.
HadLast(c) ==
    /\ endedOn[c] = EofMessage
    /\ Len(taken[mqdes[c]]) = linesRead[mqdes[c]] + 1 /\ messages[mqdes[c]] = <<>>

HadLine(c) ==
    endedOn[c].number \in 1..linesRead[mqdes[c]] /\ endedOn[c].start # "other"

CompleteConsumers ==
    \A c \in Consumers : mqPc[c] = "complete" =>
        mqdes[c] \in Producers /\ (HadLast(c) \/ HadLine(c))

\* MessageQueue.
MqInv ==
    MqTypeOK /\ NameIsItsProducers /\ SentInOrder /\ EofIsOne /\ CompleteConsumers

\* MessageFork: what was sent ascends, and is so dense that forkMaxmsg messages
\* are all there are.
ForkSent == childGot \o inQueue

ForkInv ==
    /\ childGot \in Seq(Nat) /\ inQueue \in Seq(Nat) /\ parentI \in 0..forkMaxmsg
    /\ parentPc = "send" => parentI < forkMaxmsg
    /\ parentPc \in {"open", "fork"} => parentI = 0
    /\ \A k \in 1..Len(ForkSent) :
         /\ k - 1 <= ForkSent[k]
         /\ ForkSent[k] + (Len(ForkSent) - k) < parentI
    /\ \A j, k \in 1..Len(ForkSent) : j < k => ForkSent[j] < ForkSent[k]
    /\ ChildGetsAll

\* SharedMemory: a run maps no object but its own, and only it writes there.
ShmInv ==
    /\ shmName \in Runs \cup {EarlierRun, NoRun}
    /\ memory \in [Runs \cup {EarlierRun} -> [1..(MessageLen + 1) -> Runs \cup {NoRun}]]
    /\ shmPc \in [Runs -> {"open", "remove", "reopen", "map", "write", "wait", "end",
                           "failed", "killed"}]
    /\ mapped \in [Runs -> Runs \cup {NoRun}]
    /\ childAt \in [Runs -> {"none", "poll", "print", "spin", "end"}]
    /\ printedBytes \in [Runs -> Seq(Runs)]
    /\ \A a \in Runs :
         /\ \A k \in 1..(MessageLen + 1) : memory[a][k] \in {a, NoRun}
         /\ memory[a][MessageLen + 1] = NoRun
         /\ shmPc[a] \in {"map", "write", "wait"} \/ childAt[a] # "none" => mapped[a] = a
         /\ Len(printedBytes[a]) <= MessageLen
         /\ childAt[a] \in {"print", "end"} => memory[a][1] = a
    /\ shmName \in Runs => shmPc[shmName] \in {"map", "write", "wait", "killed"}
    /\ OwnFrontOfMessage

\* UnnamedPipe: the argument is what was copied, what is in the pipe and what is
\* left, and the parent's end is closed only when nothing is left or nobody reads.
PipeInv ==
    /\ copied \in Seq(Nat) /\ inPipe \in Seq(Nat) /\ argLeft \in Seq(Nat)
    /\ (copied \o inPipe) \o argLeft = Argument
    /\ pipeParent \in {"fork", "write", "close", "wait", "end", "killed"}
    /\ pipeParent = "fork" => pipeChild = "none"
    /\ pipeParent = "write" => argLeft # <<>>
    /\ pipeParent \in {"close", "wait", "end"} => argLeft = <<>> \/ pipeChild = "none"
    /\ pipeParent \in {"fork", "write", "close"} => "parent" \in writeEnds
    /\ pipeChild = "end" => inPipe = <<>> /\ (pipeParent # "killed" => argLeft = <<>>)

\* All of F is in P, and nothing else if P is no longer.
Covers(P, F) ==
    /\ Len(F) <= Len(P)
    /\ Len(P) = Len(F) => P = F
    /\ \A i \in 1..Len(F) : \E j \in 1..Len(P) : P[j] = F[i]

\* The last n bytes that were read are in front of readerBuf, and those before
\* them are printed.
LastRead(n) ==
    /\ n <= Len(readerBuf)
    /\ SubSeq(readerBuf, 1, n) = SubSeq(fromFifo, Len(fromFifo) - n + 1, Len(fromFifo))
    /\ Covers(fifoPrinted, SubSeq(fromFifo, 1, Len(fromFifo) - n))

\* Fifo.
FifoInv ==
    /\ {inFifo, writerBuf, readerBuf, intoFifo, fromFifo, fifoPrinted} \subseteq Seq(Nat)
    /\ bytesIn \in Nat /\ path \in {"none", "writer", "earlier"}
    /\ fromFifo \o inFifo = intoFifo
    /\ readerPc # "print" => Covers(fifoPrinted, fromFifo)
    /\ readerPc = "print" => \E n \in 0..Len(fromFifo) : LastRead(n)

ProgramsInv ==
    /\ SessionInv /\ TaskInv /\ SemInv /\ SlotInv /\ FlagInv /\ CountInv
    /\ ConfigInv /\ MqInv /\ ForkInv /\ ShmInv /\ PipeInv /\ FifoInv

-----------------------------------------------------------------------------
(* OneSlot.                                                                *)

\* The first state.
LEMMA SlotInitInv == SlotInit => SlotInv
  <1> SUFFICES ASSUME SlotInit PROVE SlotInv
    OBVIOUS
  <1>1. /\ slotPc.producer = "lock" /\ slotPc.consumer = "lock"
        /\ slotPc \in [producer : {"lock", "sleeping", "end"},
                       consumer : {"lock", "sleeping", "print", "end"}]
    BY DEF SlotInit
  <1>2. printed = <<>> /\ printed \in Seq(Nat) /\ Len(printed) = 0
    BY DEF SlotInit
  <1>3. data = putI /\ ready = 0 /\ putI = 0 /\ takeI = 0
    BY DEF SlotInit
  <1>4. PrintsOwnOrNext
    BY <1>2, <1>3 DEF PrintsOwnOrNext
  <1>5. Len(printed) = takeI - Bit(slotPc.consumer = "print")
    BY <1>1, <1>2, <1>3 DEF Bit
  <1> QED
    BY <1>1, <1>2, <1>3, <1>4, <1>5, SlotAssumption DEF SlotInv

\* Every step keeps the invariant.
LEMMA SlotNextInv == SlotInv /\ [SlotNext]_slotVars => SlotInv'
  <1> SUFFICES ASSUME SlotInv, [SlotNext]_slotVars PROVE SlotInv'
    OBVIOUS
  <1> USE SlotAssumption DEF SlotInv, PrintsOwnOrNext, Bit
  <1>1. CASE PutWaits
    BY <1>1 DEF PutWaits
  <1>2. CASE Put
    BY <1>2 DEF Put, MayPut, GoAndSignal
  <1>3. CASE TakeWaits
    BY <1>3 DEF TakeWaits
  <1>4. CASE Take
    BY <1>4 DEF Take, SignalNotFull, GoAndSignal
  <1>5. CASE TakePrints
    BY <1>5 DEF TakePrints
  <1>6. CASE SlotSpurious("producer")
    BY <1>6 DEF SlotSpurious
  <1>7. CASE SlotSpurious("consumer")
    BY <1>7 DEF SlotSpurious
  <1>8. CASE UNCHANGED slotVars
    BY <1>8 DEF slotVars
  <1> QED
    BY <1>1, <1>2, <1>3, <1>4, <1>5, <1>6, <1>7, <1>8 DEF SlotNext, SlotProducer, SlotConsumer

-----------------------------------------------------------------------------
(* FlagHandOver.                                                           *)

\* The first state.
LEMMA FlagInitInv == FlagInit => FlagInv
  BY DEF FlagInit, FlagInv, FlagPending, Bit

\* Every step keeps the invariant.
LEMMA FlagNextInv == FlagInv /\ [FlagNext]_flagVars => FlagInv'
  <1> SUFFICES ASSUME FlagInv, [FlagNext]_flagVars PROVE FlagInv'
    OBVIOUS
  <1> USE DEF FlagInv, FlagPending, Bit
  <1>1. CASE InputTest
    BY <1>1 DEF InputTest
  <1>2. CASE InputRead
    BY <1>2 DEF InputRead
  <1>3. CASE InputFlag
    BY <1>3 DEF InputFlag
  <1>4. CASE InputEnds
    BY <1>4 DEF InputEnds
  <1>5. CASE EchoTest
    BY <1>5 DEF EchoTest
  <1>6. CASE EchoLoop
    BY <1>6 DEF EchoLoop
  <1>7. CASE EchoPrint
    BY <1>7 DEF EchoPrint
  <1>8. CASE EchoClear
    BY <1>8 DEF EchoClear
  <1>9. CASE UNCHANGED flagVars
    BY <1>9 DEF flagVars
  <1> QED
    BY <1>1, <1>2, <1>3, <1>4, <1>5, <1>6, <1>7, <1>8, <1>9 DEF FlagNext, FlagInput, FlagEcho

\* The invariant says that the echo is in order.
LEMMA FlagInOrder == FlagInv => EchoedInOrder
  <1> SUFFICES ASSUME FlagInv PROVE EchoedInOrder
    OBVIOUS
  <1>1. Len(echoed) <= Len(handed) /\ Len(handed) <= Len(echoed) + 1
    BY DEF FlagInv, Bit
  <1>2. SubSeq(echoed, 1, Len(echoed)) = SubSeq(handed, 1, Len(echoed))
    BY <1>1 DEF FlagInv
  <1>3. ~(inputPc = "read" /\ echoPc \in {"print", "clear"})
    BY DEF FlagInv
  <1> QED
    BY <1>1, <1>2, <1>3 DEF EchoedInOrder, IsPrefix

-----------------------------------------------------------------------------
(* SharedCounter.                                                          *)

\* The first state.
LEMMA CountInitInv == CountInit => CountInv
  BY CountAssumption
  DEF CountInit, CountInv, CountTypeOK, CountRounds, NothingGained, CountExclusion,
      SomeAreLeft, Step

\* A thread stores: what the other thread did in between is overwritten, and no
\* more than its own rounds are added.
LEMMA CountStoreInv ==
    ASSUME CountInv, NEW t \in Counters, CountStore(t)
    PROVE  CountInv'
  <1> USE CountAssumption DEF CountInv, CountTypeOK, CountStore, Step
  <1>1. /\ countPc[t] = "store" /\ roundsDone[t] < Increments
        /\ roundsDone[t] \in Nat /\ register[t] \in Nat /\ Step \in Nat \ {0}
        /\ roundsDone[t] + Step \in 0..Increments
        /\ inRegister => roundsDone[t] + Step = Increments
    BY DEF CountRounds
  <1>2. CountTypeOK'
    BY <1>1
  <1>3. CountRounds'
    BY <1>1 DEF CountRounds
  <1>4. NothingGained'
    BY <1>1 DEF NothingGained
  <1>5. CountExclusion'
    BY <1>1 DEF CountExclusion
  <1>6. SomeAreLeft'
    BY <1>1 DEF SomeAreLeft
  <1> QED
    BY <1>2, <1>3, <1>4, <1>5, <1>6

\* Every step keeps the invariant.
LEMMA CountNextInv == CountInv /\ [CountNext]_countVars => CountInv'
  <1> SUFFICES ASSUME CountInv, [CountNext]_countVars PROVE CountInv'
    OBVIOUS
  <1> USE CountAssumption DEF CountInv, CountTypeOK
  <1>1. ASSUME NEW t \in Counters, CountStart(t) PROVE CountInv'
    <2>1. CountTypeOK'
      BY <1>1 DEF CountStart, MayEnter
    <2>2. CountRounds'
      BY <1>1 DEF CountStart, MayEnter, CountRounds
    <2>3. NothingGained'
      BY <1>1 DEF CountStart, MayEnter, NothingGained
    <2>4. CountExclusion'
      BY <1>1 DEF CountStart, MayEnter, CountExclusion
    <2>5. SomeAreLeft'
      BY <1>1 DEF CountStart, MayEnter, SomeAreLeft, Step
    <2> QED
      BY <2>1, <2>2, <2>3, <2>4, <2>5
  <1>2. ASSUME NEW t \in Counters, CountLoad(t) PROVE CountInv'
    <2>1. CountTypeOK'
      BY <1>2 DEF CountLoad
    <2>2. CountRounds'
      BY <1>2 DEF CountLoad, CountRounds
    <2>3. NothingGained'
      BY <1>2 DEF CountLoad, NothingGained
    <2>4. CountExclusion'
      BY <1>2 DEF CountLoad, CountExclusion
    <2>5. SomeAreLeft'
      BY <1>2 DEF CountLoad, SomeAreLeft, Step
    <2> QED
      BY <2>1, <2>2, <2>3, <2>4, <2>5
  <1>3. ASSUME NEW t \in Counters, CountStore(t) PROVE CountInv'
    BY <1>3, CountStoreInv
  <1>4. ASSUME NEW t \in Counters, CountUnlock(t) PROVE CountInv'
    <2>1. CountTypeOK'
      BY <1>4 DEF CountUnlock
    <2>2. CountRounds'
      BY <1>4 DEF CountUnlock, CountRounds
    <2>3. NothingGained'
      BY <1>4 DEF CountUnlock, NothingGained
    <2>4. CountExclusion'
      BY <1>4 DEF CountUnlock, CountExclusion
    <2>5. SomeAreLeft'
      BY <1>4 DEF CountUnlock, SomeAreLeft, Step
    <2> QED
      BY <2>1, <2>2, <2>3, <2>4, <2>5
  <1>5. CASE UNCHANGED countVars
    BY <1>5 DEF countVars, CountRounds, NothingGained, CountExclusion, SomeAreLeft, Step
  <1> QED
    BY <1>1, <1>2, <1>3, <1>4, <1>5 DEF CountNext, CountThread

\* When both threads have ended, count is what the invariant says.
LEMMA CountFinal == CountInv => FinalCount
  BY CountAssumption
  DEF CountInv, CountTypeOK, CountRounds, NothingGained, CountExclusion, SomeAreLeft, Step,
      FinalCount, AllCounted

-----------------------------------------------------------------------------
(* ConfigLock.                                                             *)

\* The first state.
LEMMA ConfigInitInv == ConfigInit => ConfigInv
  BY DEF ConfigInit, ConfigInv, ReadIsCurrent, Writing, Reading

\* Every step keeps the invariant.
LEMMA ConfigNextInv == ConfigInv /\ [ConfigNext]_configVars => ConfigInv'
  <1> SUFFICES ASSUME ConfigInv, [ConfigNext]_configVars PROVE ConfigInv'
    OBVIOUS
  <1> USE DEF ConfigInv, ReadIsCurrent, Writing, Reading
  <1>1. CASE WriteLock
    BY <1>1 DEF WriteLock
  <1>2. CASE WriteLoad
    BY <1>2 DEF WriteLoad
  <1>3. CASE WriteStore
    BY <1>3 DEF WriteStore
  <1>4. CASE WriteUnlock
    BY <1>4 DEF WriteUnlock
  <1>5. ASSUME NEW r \in Readers, ConfigReader(r) PROVE ConfigInv'
    BY <1>5 DEF ConfigReader, ReadLock, MayRead, ReadConfig, ReadUnlock
  <1>6. CASE UNCHANGED configVars
    BY <1>6 DEF configVars
  <1> QED
    BY <1>1, <1>2, <1>3, <1>4, <1>5, <1>6 DEF ConfigNext, ConfigWriter

-----------------------------------------------------------------------------
(* Queues.                                                                 *)

\* What is moved from the front of one queue to the end of another stays between
\* the two.
LEMMA MoveHead ==
    \A p, q \in Seq(Nat) : q # <<>> =>
        /\ Append(p, Head(q)) \in Seq(Nat) /\ Tail(q) \in Seq(Nat) /\ Head(q) \in Nat
        /\ Append(p, Head(q)) \o Tail(q) = p \o q
  <1> SUFFICES ASSUME NEW p \in Seq(Nat), NEW q \in Seq(Nat), q # <<>>
               PROVE  /\ Append(p, Head(q)) \in Seq(Nat) /\ Tail(q) \in Seq(Nat)
                      /\ Head(q) \in Nat
                      /\ Append(p, Head(q)) \o Tail(q) = p \o q
    OBVIOUS
  <1> DEFINE S == Nat
  <1>1. /\ Append(p, Head(q)) \in Seq(S) /\ Tail(q) \in Seq(S) /\ Head(q) \in S
        /\ Len(Append(p, Head(q))) = Len(p) + 1 /\ Len(Tail(q)) = Len(q) - 1
        /\ Len(p) \in Nat /\ Len(q) \in Nat \ {0}
    BY HeadTailProperties, AppendProperties
  <1>2. /\ Append(p, Head(q)) \o Tail(q) \in Seq(S) /\ p \o q \in Seq(S)
        /\ Len(Append(p, Head(q)) \o Tail(q)) = Len(p) + Len(q)
        /\ Len(p \o q) = Len(p) + Len(q)
    BY <1>1, ConcatProperties
  <1>3. ASSUME NEW i \in 1..(Len(p) + Len(q))
        PROVE  (Append(p, Head(q)) \o Tail(q))[i] = (p \o q)[i]
    BY <1>1
  <1> QED
    BY <1>2, <1>3, SeqEqual

\* What is appended to the second of two queues is appended to both together.
LEMMA AppendToSecond ==
    \A p, q \in Seq(Nat), x \in Nat :
        /\ p \o q \in Seq(Nat) /\ Append(q, x) \in Seq(Nat)
        /\ p \o Append(q, x) = Append(p \o q, x)
  <1> SUFFICES ASSUME NEW p \in Seq(Nat), NEW q \in Seq(Nat), NEW x \in Nat
               PROVE  /\ p \o q \in Seq(Nat) /\ Append(q, x) \in Seq(Nat)
                      /\ p \o Append(q, x) = Append(p \o q, x)
    OBVIOUS
  <1> DEFINE S == Nat
  <1>1. /\ Append(q, x) \in Seq(S) /\ p \o q \in Seq(S) /\ Append(p \o q, x) \in Seq(S)
        /\ p \o Append(q, x) \in Seq(S)
        /\ Len(p) \in Nat /\ Len(q) \in Nat /\ Len(p \o q) = Len(p) + Len(q)
        /\ Len(Append(q, x)) = Len(q) + 1
        /\ Len(Append(p \o q, x)) = Len(p) + Len(q) + 1
        /\ Len(p \o Append(q, x)) = Len(p) + Len(q) + 1
    BY AppendProperties, ConcatProperties
  <1>2. ASSUME NEW i \in 1..(Len(p) + Len(q) + 1)
        PROVE  (p \o Append(q, x))[i] = Append(p \o q, x)[i]
    BY <1>1
  <1> QED
    BY <1>1, <1>2, SeqEqual

\* Concatenation is associative.
LEMMA QueueAssoc == \A p, q, r \in Seq(Nat) : (p \o q) \o r = p \o (q \o r)
  <1> SUFFICES ASSUME NEW p \in Seq(Nat), NEW q \in Seq(Nat), NEW r \in Seq(Nat)
               PROVE  (p \o q) \o r = p \o (q \o r)
    OBVIOUS
  <1> QED
    BY ConcatAssociative, Z3

\* A queue is what is in front of a place and what is behind it.
LEMMA QueueSplit ==
    \A q \in Seq(Nat) : \A n \in 0..Len(q) :
        /\ SubSeq(q, 1, n) \in Seq(Nat) /\ Len(SubSeq(q, 1, n)) = n
        /\ SubSeq(q, n + 1, Len(q)) \in Seq(Nat)
        /\ Len(SubSeq(q, n + 1, Len(q))) = Len(q) - n
        /\ SubSeq(q, 1, n) \o SubSeq(q, n + 1, Len(q)) = q
  BY Split DEF First, Rest

\* The parts of a concatenation.
LEMMA QueueParts ==
    \A p, q \in Seq(Nat) :
        /\ p \o q \in Seq(Nat)
        /\ Len(p) \in Nat /\ Len(q) \in Nat /\ Len(p \o q) = Len(p) + Len(q)
        /\ SubSeq(p \o q, 1, Len(p)) = p
        /\ SubSeq(p \o q, Len(p) + 1, Len(p) + Len(q)) = q
  <1> SUFFICES ASSUME NEW p \in Seq(Nat), NEW q \in Seq(Nat)
               PROVE  /\ p \o q \in Seq(Nat)
                      /\ Len(p) \in Nat /\ Len(q) \in Nat /\ Len(p \o q) = Len(p) + Len(q)
                      /\ SubSeq(p \o q, 1, Len(p)) = p
                      /\ SubSeq(p \o q, Len(p) + 1, Len(p) + Len(q)) = q
    OBVIOUS
  <1>1. /\ p \o q \in Seq(Nat)
        /\ Len(p) \in Nat /\ Len(q) \in Nat /\ Len(p \o q) = Len(p) + Len(q)
    OBVIOUS
  <1> DEFINE c == p \o q
             f == SubSeq(c, 1, Len(p))
             g == SubSeq(c, Len(p) + 1, Len(p) + Len(q))
  <1>2. /\ \A i \in 1..Len(p) : c[i] = p[i]
        /\ \A i \in 1..Len(q) : c[Len(p) + i] = q[i]
    OBVIOUS
  <1>c. c \in Seq(Nat) /\ Len(c) = Len(p) + Len(q)
    BY <1>1
  <1> HIDE DEF c
  <1>3. /\ f \in Seq(Nat) /\ Len(f) = Len(p)
        /\ \A i \in 1..Len(p) : f[i] = c[i]
    BY <1>1, <1>c, SubSeqProperties
  <1>4. /\ g \in Seq(Nat) /\ Len(g) = Len(q)
        /\ \A i \in 1..Len(q) : g[i] = c[Len(p) + i]
    <2>1. PICK m \in Nat, n \in Nat : m = Len(p) /\ n = Len(q)
      BY <1>1
    <2>2. \A i \in (m + 1)..(m + n) : c[i] \in Nat
      BY <1>c, <2>1
    <2> DEFINE h == SubSeq(c, m + 1, m + n)
    <2>3. /\ h \in Seq(Nat)
          /\ Len(h) = IF m + 1 <= m + n THEN m + n - (m + 1) + 1 ELSE 0
          /\ \A i \in 1..(m + n - (m + 1) + 1) : h[i] = c[m + 1 + i - 1]
      BY <2>2, SubSeqProperties
    <2> HIDE DEF h
    <2>4. Len(h) = n /\ \A i \in 1..n : h[i] = c[m + i]
      BY <2>3
    <2> QED
      BY <2>1, <2>3, <2>4 DEF h
  <1> HIDE DEF f, g
  <1>5. f = p
    BY <1>1, <1>2, <1>3, SeqEqual
  <1>6. g = q
    BY <1>1, <1>2, <1>4, SeqEqual
  <1> QED
    BY <1>1, <1>5, <1>6 DEF f, g, c

-----------------------------------------------------------------------------
(* UnnamedPipe.                                                            *)

\* The first state.
LEMMA PipeInitInv == PipeInit => PipeInv
  <1> SUFFICES ASSUME PipeInit PROVE PipeInv
    OBVIOUS
  <1>1. Argument \in Seq(Nat)
    BY PipeAssumption DEF Argument
  <1>2. (<<>> \o <<>>) \o Argument = Argument
    BY <1>1
  <1> QED
    BY <1>1, <1>2 DEF PipeInit, PipeInv

\* Every step keeps the invariant.
LEMMA PipeNextInv == PipeInv /\ [PipeNext]_pipeVars => PipeInv'
  <1> SUFFICES ASSUME PipeInv, [PipeNext]_pipeVars PROVE PipeInv'
    OBVIOUS
  <1> USE DEF PipeInv
  <1>1. CASE PipeFork
    BY <1>1 DEF PipeFork
  <1>2. CASE PipeWrite
    <2>1. /\ argLeft # <<>> /\ inPipe' = Append(inPipe, Head(argLeft))
          /\ argLeft' = Tail(argLeft) /\ copied' = copied
      BY <1>2 DEF PipeWrite
    <2>2. /\ copied \in Seq(Nat) /\ inPipe \in Seq(Nat) /\ argLeft \in Seq(Nat)
          /\ copied \o inPipe \in Seq(Nat) /\ Head(argLeft) \in Nat
      BY <2>1
    <2> HIDE DEF PipeInv
    <2>3. /\ inPipe' \in Seq(Nat)
          /\ copied' \o inPipe' = Append(copied \o inPipe, Head(argLeft))
      BY <2>1, <2>2, AppendToSecond, Zenon
    <2>4. /\ argLeft' \in Seq(Nat)
          /\ Append(copied \o inPipe, Head(argLeft)) \o argLeft' = (copied \o inPipe) \o argLeft
      BY <2>1, <2>2, MoveHead, Zenon
    <2>5. (copied' \o inPipe') \o argLeft' = Argument'
      BY <2>3, <2>4 DEF PipeInv, Argument
    <2> USE DEF PipeInv
    <2> QED
      BY <1>2, <2>1, <2>3, <2>4, <2>5 DEF PipeWrite, AfterWrite
  <1>3. CASE PipeBroken
    BY <1>3 DEF PipeBroken
  <1>4. CASE PipeClose
    BY <1>4 DEF PipeClose
  <1>5. CASE PipeWait
    BY <1>5 DEF PipeWait
  <1>6. CASE PipeChildStarts
    BY <1>6 DEF PipeChildStarts, ChildCloses
  <1>7. CASE PipeChildReads
    <2>1. CASE inPipe # <<>> /\ copied' = Append(copied, Head(inPipe)) /\ inPipe' = Tail(inPipe)
               /\ UNCHANGED pipeChild
      <3>1. /\ copied' \in Seq(Nat) /\ inPipe' \in Seq(Nat)
            /\ copied' \o inPipe' = copied \o inPipe
        BY <2>1, MoveHead
      <3> QED
        BY <1>7, <2>1, <3>1 DEF PipeChildReads
    <2>2. CASE inPipe = <<>> /\ writeEnds = {} /\ pipeChild' = "end"
               /\ UNCHANGED <<copied, inPipe>>
      BY <1>7, <2>2 DEF PipeChildReads
    <2> QED
      BY <1>7, <2>1, <2>2 DEF PipeChildReads
  <1>8. CASE PipeChildKilled
    BY <1>8 DEF PipeChildKilled
  <1>9. CASE PipeParentKilled
    BY <1>9 DEF PipeParentKilled
  <1>10. CASE UNCHANGED pipeVars
    BY <1>10 DEF pipeVars
  <1> QED
    BY <1>1, <1>2, <1>3, <1>4, <1>5, <1>6, <1>7, <1>8, <1>9, <1>10
    DEF PipeNext, PipeParent, PipeChild

\* The copy is in front of what is in the pipe and of what is left, and when the
\* child has ended there is neither, unless the parent was killed.
LEMMA PipeCopied == PipeInv => CopiedWhole
  <1> SUFFICES ASSUME PipeInv PROVE CopiedWhole
    OBVIOUS
  <1> DEFINE rest == inPipe \o argLeft
  <1>1. /\ copied \in Seq(Nat) /\ inPipe \in Seq(Nat) /\ argLeft \in Seq(Nat)
        /\ (copied \o inPipe) \o argLeft = Argument
    BY DEF PipeInv
  <1>2. rest \in Seq(Nat) /\ copied \o rest = Argument
    <2>1. rest \in Seq(Nat)
      BY <1>1
    <2> QED
      BY <1>1, <2>1, QueueAssoc, Zenon
  <1> HIDE DEF rest
  <1>3. IsPrefix(copied, Argument)
    <2>1. /\ Len(copied \o rest) = Len(copied) + Len(rest)
          /\ SubSeq(copied \o rest, 1, Len(copied)) = copied
      BY <1>1, <1>2, QueueParts, Zenon
    <2>2. SubSeq(copied, 1, Len(copied)) = copied /\ Len(copied) \in Nat /\ Len(rest) \in Nat
      BY <1>1, <1>2
    <2> QED
      BY <1>2, <2>1, <2>2 DEF IsPrefix
  <1>4. ASSUME pipeChild = "end", pipeParent # "killed" PROVE copied = Argument
    <2>1. inPipe = <<>> /\ argLeft = <<>>
      BY <1>4 DEF PipeInv
    <2> QED
      BY <1>1, <2>1
  <1> QED
    BY <1>3, <1>4 DEF CopiedWhole

-----------------------------------------------------------------------------
(* MessageFork.                                                            *)

\* The first state.
LEMMA ForkInitInv == ForkInit => ForkInv
  <1> SUFFICES ASSUME ForkInit PROVE ForkInv
    OBVIOUS
  <1>1. ForkSent = <<>>
    BY DEF ForkInit, ForkSent
  <1> QED
    BY <1>1, ForkAssumption DEF ForkInit, ForkInv, ChildGetsAll

\* Every step keeps the invariant.
LEMMA ForkNextInv == ForkInv /\ [ForkNext]_forkVars => ForkInv'
  <1> SUFFICES ASSUME ForkInv, [ForkNext]_forkVars PROVE ForkInv'
    OBVIOUS
  <1> USE ForkAssumption DEF ForkInv, ChildGetsAll
  <1>1. CASE ForkOpen
    BY <1>1 DEF ForkOpen, ForkSent
  <1>2. CASE ForkExits
    BY <1>2 DEF ForkExits, ForkSent
  <1>3. CASE Fork
    BY <1>3 DEF Fork, ForkSent
  <1>4. CASE ParentSend
    <2>1. /\ inQueue' \in Seq(Nat) /\ ForkSent' = Append(ForkSent, parentI)
          /\ ForkSent \in Seq(Nat) /\ parentI \in Nat
      <3>1. /\ childGot \in Seq(Nat) /\ inQueue \in Seq(Nat) /\ parentI \in Nat
            /\ inQueue' = Append(inQueue, parentI) /\ childGot' = childGot
        BY <1>4 DEF ParentSend
      <3> QED
        BY <3>1, AppendToSecond, Zenon DEF ForkSent
    <2>2. /\ parentPc = "send" /\ parentI < forkMaxmsg /\ parentI' = parentI + 1
          /\ parentPc' \in {"wait", "send"} /\ (parentPc' = "send" => parentI' # forkMaxmsg)
          /\ childPc' = childPc /\ childGot' = childGot
      BY <1>4 DEF ParentSend, NextRound
    <2>3. Len(ForkSent') = Len(ForkSent) + 1 /\ Len(ForkSent) \in Nat
      BY <2>1
    <2>4. ASSUME NEW k \in 1..Len(ForkSent')
          PROVE  /\ k \in 1..Len(ForkSent) \/ k = Len(ForkSent')
                 /\ k \in 1..Len(ForkSent) => ForkSent'[k] = ForkSent[k] /\ ForkSent[k] \in Nat
                 /\ k = Len(ForkSent') => ForkSent'[k] = parentI
      BY <2>1, <2>3
    <2>5. Len(ForkSent) <= parentI
      <3>1. CASE Len(ForkSent) = 0
        BY <3>1, <2>1
      <3>2. CASE Len(ForkSent) > 0
        <4>1. /\ 1 \in 1..Len(ForkSent) /\ 0 <= ForkSent[1]
              /\ ForkSent[1] + (Len(ForkSent) - 1) < parentI /\ ForkSent[1] \in Nat
          BY <3>2, <2>1
        <4> QED
          BY <4>1, <2>1, <2>3
      <3> QED
        BY <3>1, <3>2, <2>3
    <2>6. ASSUME NEW k \in 1..Len(ForkSent')
          PROVE  /\ k - 1 <= ForkSent'[k]
                 /\ ForkSent'[k] + (Len(ForkSent') - k) < parentI'
      <3>1. CASE k = Len(ForkSent')
        <4>1. ForkSent'[k] = parentI
          BY <3>1, <2>4
        <4> HIDE DEF ForkInv
        <4> QED
          BY <3>1, <4>1, <2>1, <2>2, <2>3, <2>5
      <3>2. CASE k \in 1..Len(ForkSent)
        <4>1. /\ ForkSent'[k] = ForkSent[k] /\ ForkSent[k] \in Nat
              /\ k - 1 <= ForkSent[k] /\ ForkSent[k] + (Len(ForkSent) - k) < parentI
          BY <3>2, <2>4
        <4> HIDE DEF ForkInv
        <4> QED
          BY <3>2, <4>1, <2>1, <2>2, <2>3
      <3> QED
        BY <3>1, <3>2, <2>4
    <2>7. ASSUME NEW j \in 1..Len(ForkSent'), NEW k \in 1..Len(ForkSent'), j < k
          PROVE  ForkSent'[j] < ForkSent'[k]
      <3>1. j \in 1..Len(ForkSent) /\ ForkSent[j] + (Len(ForkSent) - j) < parentI
        BY <2>3, <2>7
      <3> QED
        BY <2>1, <2>3, <2>4, <2>7, <3>1
    <2>8. ChildGetsAll'
      BY <2>2
    <2>9. /\ parentI' \in 0..forkMaxmsg
          /\ parentPc' = "send" => parentI' < forkMaxmsg
          /\ parentPc' \in {"open", "fork"} => parentI' = 0
      BY <2>2
    <2>10. childGot' \in Seq(Nat) /\ inQueue' \in Seq(Nat)
      BY <2>1, <2>2
    <2> QED
      BY <2>6, <2>7, <2>8, <2>9, <2>10 DEF ForkInv
  <1>5. CASE ParentSendFails
    <2>1. ForkSent' = ForkSent /\ ForkSent \in Seq(Nat)
      BY <1>5 DEF ParentSendFails, ForkSent
    <2> QED
      BY <1>5, <2>1 DEF ParentSendFails, NextRound
  <1>6. CASE ParentUnlinks
    BY <1>6 DEF ParentUnlinks, ParentWait, ForkSent
  <1>7. CASE ChildReceive
    <2>1. /\ childGot' \in Seq(Nat) /\ inQueue' \in Seq(Nat) /\ ForkSent' = ForkSent
          /\ childGot' = Append(childGot, Head(inQueue)) /\ childPc = "receive"
      BY <1>7, MoveHead DEF ChildReceive, ForkSent
    <2>2. /\ \A k \in 1..Len(childGot') : k \in 1..Len(ForkSent) /\ childGot'[k] = ForkSent[k]
          /\ Len(childGot') <= Len(ForkSent) /\ ForkSent \in Seq(Nat)
          /\ Len(ForkSent) \in Nat /\ Len(childGot') \in Nat
      <3>1. ForkSent = childGot' \o inQueue'
        BY <2>1 DEF ForkSent
      <3> HIDE DEF ForkInv
      <3> QED
        BY <2>1, <3>1
    <2>3. \A j, k \in 1..Len(childGot') : j < k => childGot'[j] < childGot'[k]
      BY <2>2
    <2>4. ASSUME Len(childGot') = forkMaxmsg
          PROVE  childGot' = [k \in 1..forkMaxmsg |-> k - 1]
      <3>1. ASSUME NEW k \in 1..forkMaxmsg PROVE childGot'[k] = k - 1
        <4>1. /\ k \in 1..Len(childGot') /\ k \in 1..Len(ForkSent) /\ ForkSent[k] \in Nat
              /\ childGot'[k] = ForkSent[k]
          <5> HIDE DEF ForkInv
          <5>1. k \in 1..Len(childGot')
            BY <2>4
          <5>2. k \in 1..Len(ForkSent) /\ childGot'[k] = ForkSent[k]
            BY <5>1, <2>2
          <5> QED
            BY <5>1, <5>2, <2>2
        <4>2. k - 1 <= ForkSent[k] /\ ForkSent[k] + (Len(ForkSent) - k) < parentI
          BY <4>1
        <4>3. parentI <= forkMaxmsg /\ forkMaxmsg <= Len(ForkSent)
              /\ parentI \in Nat /\ forkMaxmsg \in Nat /\ Len(ForkSent) \in Nat
          BY <2>2, <2>4
        <4> HIDE DEF ForkInv
        <4> QED
          BY <4>1, <4>2, <4>3
      <3> HIDE DEF ForkInv
      <3> DEFINE G == [k \in 1..forkMaxmsg |-> k - 1]
      <3>2. G \in Seq(Nat) /\ Len(G) = forkMaxmsg /\ \A k \in 1..forkMaxmsg : G[k] = k - 1
        OBVIOUS
      <3> HIDE DEF G
      <3>3. childGot' = G
        BY <2>1, <2>4, <3>1, <3>2, SeqEqual
      <3> QED
        BY <3>3 DEF G
    <2>5. childPc' = "end" => Len(childGot') = forkMaxmsg
      BY <1>7 DEF ChildReceive, ChildHasAll
    <2>6. parentPc' # "end"
      BY <1>7, <2>1 DEF ChildReceive
    <2>7. ChildGetsAll'
      BY <2>3, <2>4, <2>5, <2>6
    <2> QED
      BY <1>7, <2>1, <2>7 DEF ChildReceive
  <1>8. CASE ChildDies
    BY <1>8 DEF ChildDies, ForkSent
  <1>9. CASE UNCHANGED forkVars
    BY <1>9 DEF forkVars, ForkSent
  <1> QED
    BY <1>1, <1>2, <1>3, <1>4, <1>5, <1>6, <1>7, <1>8, <1>9 DEF ForkNext, ForkParent

-----------------------------------------------------------------------------
(* MessageQueue.                                                           *)

\* The numbers of messages, one for each.
LEMMA NumbersType ==
    ASSUME NEW s \in Seq(Messages)
    PROVE  /\ NumbersOf(s) \in Seq(Nat) /\ Len(NumbersOf(s)) = Len(s) /\ Len(s) \in Nat
           /\ \A k \in 1..Len(s) : NumbersOf(s)[k] = s[k].number /\ s[k] \in Messages
  <1>1. Len(s) \in Nat /\ \A k \in 1..Len(s) : s[k] \in Messages
    OBVIOUS
  <1>2. \A k \in 1..Len(s) : s[k].number \in Nat
    BY <1>1 DEF Messages
  <1> QED
    BY <1>1, <1>2 DEF NumbersOf

\* A message at the end, and the message at the front.
LEMMA NumbersAppend ==
    ASSUME NEW s \in Seq(Messages), NEW m \in Messages
    PROVE  /\ Append(s, m) \in Seq(Messages)
           /\ NumbersOf(Append(s, m)) = Append(NumbersOf(s), m.number)
           /\ m.number \in Nat
  <1> DEFINE t == Append(s, m)
             n == Append(NumbersOf(s), m.number)
  <1>1. m.number \in Nat
    BY DEF Messages
  <1>2. /\ t \in Seq(Messages) /\ Len(t) = Len(s) + 1 /\ t[Len(s) + 1] = m
        /\ \A k \in 1..Len(s) : t[k] = s[k]
    BY AppendProperties
  <1>3. /\ NumbersOf(s) \in Seq(Nat) /\ Len(NumbersOf(s)) = Len(s) /\ Len(s) \in Nat
        /\ \A k \in 1..Len(s) : NumbersOf(s)[k] = s[k].number
    BY NumbersType
  <1>4. /\ n \in Seq(Nat) /\ Len(n) = Len(s) + 1 /\ n[Len(s) + 1] = m.number
        /\ \A k \in 1..Len(s) : n[k] = s[k].number
    BY <1>1, <1>3, AppendProperties
  <1> HIDE DEF t, n
  <1>5. /\ NumbersOf(t) \in Seq(Nat) /\ Len(NumbersOf(t)) = Len(s) + 1
        /\ \A k \in 1..(Len(s) + 1) : NumbersOf(t)[k] = t[k].number
    BY <1>2, NumbersType
  <1>6. \A k \in 1..(Len(s) + 1) : NumbersOf(t)[k] = n[k]
    <2> SUFFICES ASSUME NEW k \in 1..(Len(s) + 1) PROVE NumbersOf(t)[k] = n[k]
      OBVIOUS
    <2>1. CASE k = Len(s) + 1
      BY <2>1, <1>2, <1>4, <1>5
    <2>2. CASE k # Len(s) + 1
      <3>1. k \in 1..Len(s)
        BY <2>2, <1>3
      <3> QED
        BY <3>1, <1>2, <1>4, <1>5, Zenon
    <2> QED
      BY <2>1, <2>2
  <1>7. NumbersOf(t) = n
    BY <1>4, <1>5, <1>6, SeqEqual
  <1> QED
    BY <1>1, <1>2, <1>7 DEF t, n

LEMMA NumbersTail ==
    ASSUME NEW s \in Seq(Messages), s # <<>>
    PROVE  /\ Tail(s) \in Seq(Messages) /\ NumbersOf(Tail(s)) = Tail(NumbersOf(s))
           /\ Head(s) \in Messages /\ Head(NumbersOf(s)) = Head(s).number
           /\ NumbersOf(s) # <<>> /\ Head(s) = s[1] /\ Len(Tail(s)) = Len(s) - 1
           /\ \A k \in 1..Len(Tail(s)) : Tail(s)[k] = s[k + 1] /\ k + 1 \in 1..Len(s)
  <1> DEFINE t == Tail(s)
             n == Tail(NumbersOf(s))
  <1>1. /\ t \in Seq(Messages) /\ Len(s) \in Nat \ {0} /\ Len(t) = Len(s) - 1
        /\ Head(s) \in Messages /\ Head(s) = s[1]
        /\ \A k \in 1..Len(t) : t[k] = s[k + 1]
    OBVIOUS
  <1>2. /\ NumbersOf(s) \in Seq(Nat) /\ Len(NumbersOf(s)) = Len(s)
        /\ \A k \in 1..Len(s) : NumbersOf(s)[k] = s[k].number
    BY NumbersType
  <1>3. /\ NumbersOf(s) # <<>> /\ Head(NumbersOf(s)) = s[1].number
        /\ n \in Seq(Nat) /\ Len(n) = Len(s) - 1
        /\ \A k \in 1..Len(n) : n[k] = NumbersOf(s)[k + 1]
    <2> DEFINE u == NumbersOf(s)
    <2>1. u \in Seq(Nat) /\ Len(u) \in Nat \ {0} /\ u[1] = s[1].number
      BY <1>1, <1>2
    <2> HIDE DEF u
    <2>2. /\ u # <<>> /\ Head(u) = u[1] /\ Tail(u) \in Seq(Nat) /\ Len(Tail(u)) = Len(u) - 1
          /\ \A k \in 1..Len(Tail(u)) : Tail(u)[k] = u[k + 1]
      BY <2>1
    <2> QED
      BY <1>2, <2>1, <2>2 DEF u
  <1> HIDE DEF t, n
  <1>4. /\ NumbersOf(t) \in Seq(Nat) /\ Len(NumbersOf(t)) = Len(s) - 1
        /\ \A k \in 1..(Len(s) - 1) : NumbersOf(t)[k] = t[k].number
    BY <1>1, NumbersType
  <1>5. \A k \in 1..(Len(s) - 1) : NumbersOf(t)[k] = n[k]
    <2> SUFFICES ASSUME NEW k \in 1..(Len(s) - 1) PROVE NumbersOf(t)[k] = n[k]
      OBVIOUS
    <2>1. k \in 1..Len(t) /\ k \in 1..Len(n) /\ k + 1 \in 1..Len(s)
      BY <1>1, <1>3
    <2> QED
      BY <1>1, <1>2, <1>3, <1>4, <2>1, Zenon
  <1>7. \A k \in 1..Len(t) : k + 1 \in 1..Len(s)
    BY <1>1
  <1>6. NumbersOf(t) = n
    BY <1>3, <1>4, <1>5, SeqEqual
  <1> QED
    BY <1>1, <1>3, <1>6, <1>7, Zenon DEF t, n

\* What was sent to a queue is a sequence, of what was taken and what is in it.
LEMMA SentType ==
    ASSUME MqTypeOK, NEW p \in Producers
    PROVE  /\ messages[p] \in Seq(Messages) /\ taken[p] \in Seq(Nat) /\ linesRead[p] \in Nat
           /\ SentTo(p) \in Seq(Nat) /\ Len(SentTo(p)) \in Nat
           /\ Len(taken[p]) \in Nat /\ Len(messages[p]) \in Nat
           /\ Len(SentTo(p)) = Len(taken[p]) + Len(messages[p])
           /\ \A k \in 1..Len(taken[p]) : SentTo(p)[k] = taken[p][k]
           /\ messages[p] # <<>> => SentTo(p)[Len(taken[p]) + 1] = Head(messages[p]).number
           /\ messages[p] = <<>> => Len(messages[p]) = 0
  <1>1. messages[p] \in Seq(Messages) /\ taken[p] \in Seq(Nat) /\ linesRead[p] \in Nat
    BY DEF MqTypeOK
  <1>2. /\ NumbersOf(messages[p]) \in Seq(Nat)
        /\ Len(NumbersOf(messages[p])) = Len(messages[p])
    BY <1>1, NumbersType
  <1>3. messages[p] # <<>> => /\ Head(NumbersOf(messages[p])) = Head(messages[p]).number
                             /\ NumbersOf(messages[p]) # <<>>
    BY <1>1, NumbersTail
  <1> DEFINE s == taken[p]
             n == NumbersOf(messages[p])
  <1>4. s \in Seq(Nat) /\ n \in Seq(Nat) /\ Len(messages[p]) \in Nat
    BY <1>1, <1>2
  <1> HIDE DEF s, n
  <1>5. /\ s \o n \in Seq(Nat) /\ Len(s) \in Nat /\ Len(n) \in Nat
        /\ Len(s \o n) = Len(s) + Len(n) /\ Len(s \o n) \in Nat
        /\ \A k \in 1..Len(s) : (s \o n)[k] = s[k]
        /\ n # <<>> => (s \o n)[Len(s) + 1] = Head(n)
    BY <1>4
  <1>6. messages[p] = <<>> => Len(messages[p]) = 0
    OBVIOUS
  <1> QED
    BY <1>1, <1>2, <1>3, <1>4, <1>5, <1>6, Zenon DEF SentTo, s, n

\* The first state.
LEMMA MqInitInv == MqInit => MqInv
  <1> SUFFICES ASSUME MqInit PROVE MqInv
    OBVIOUS
  <1>1. MqTypeOK
    BY DEF MqInit, MqTypeOK, Messages, Message, EofMessage, EofNumber, FirstBytes
  <1>2. ASSUME NEW p \in Producers
        PROVE  SentTo(p) = <<>> /\ linesRead[p] = 0 /\ mqPc[p] = "open" /\ messages[p] = <<>>
    <2>1. taken[p] = <<>> /\ messages[p] = <<>> /\ NumbersOf(<<>>) = <<>>
      BY DEF MqInit, NumbersOf
    <2> QED
      BY <2>1 DEF MqInit, SentTo
  <1>3. SentInOrder
    BY <1>2 DEF SentInOrder
  <1> QED
    BY <1>1, <1>2, <1>3 DEF MqInit, MqInv, NameIsItsProducers, EofIsOne, CompleteConsumers

\* A queue that has its EOF is one whose producer sends no more.
LEMMA ClosedQueue ==
    ASSUME MqInv, NEW c \in Consumers, mqPc[c] = "complete", HadLast(c)
    PROVE  mqdes[c] \in Producers /\ mqPc[mqdes[c]] \in {"unlink", "exit", "failed"}
  <1>1. /\ mqdes[c] \in Producers
        /\ Len(taken[mqdes[c]]) = linesRead[mqdes[c]] + 1 /\ messages[mqdes[c]] = <<>>
        /\ MqTypeOK /\ SentInOrder
    BY DEF MqInv, CompleteConsumers, HadLast
  <1> DEFINE q == mqdes[c]
  <1> HIDE DEF q
  <1>2. /\ q \in Producers /\ Len(taken[q]) = linesRead[q] + 1 /\ messages[q] = <<>>
    BY <1>1 DEF q
  <1>3. /\ linesRead[q] \in Nat /\ Len(messages[q]) = 0
        /\ Len(SentTo(q)) = Len(taken[q]) + Len(messages[q])
    BY <1>1, <1>2, SentType
  <1>4. Len(SentTo(q)) = linesRead[q] + 1
    BY <1>2, <1>3
  <1>5. mqPc[q] \in {"unlink", "exit", "failed"}
    BY <1>1, <1>2, <1>3, <1>4 DEF SentInOrder, MqTypeOK
  <1> QED
    BY <1>1, <1>5 DEF q

\* A consumer that is complete keeps what it had, unless more lines are read or
\* messages sent to the queue, which is then closed for more.
LEMMA CompleteStays ==
    ASSUME MqInv, CompleteConsumers,
           \A c \in Consumers : mqPc'[c] = "complete" =>
              mqPc[c] = "complete" /\ mqdes'[c] = mqdes[c] /\ endedOn'[c] = endedOn[c],
           \A p \in Producers : linesRead'[p] \in Nat /\ linesRead[p] <= linesRead'[p],
           \A p \in Producers : mqPc[p] \in {"unlink", "exit", "failed"} /\ messages[p] = <<>> =>
              taken'[p] = taken[p] /\ messages'[p] = messages[p] /\ linesRead'[p] = linesRead[p]
    PROVE  CompleteConsumers'
  <1> SUFFICES ASSUME NEW c \in Consumers, mqPc'[c] = "complete"
               PROVE  mqdes'[c] \in Producers /\ (HadLast(c)' \/ HadLine(c)')
    BY DEF CompleteConsumers
  <1>1. /\ mqPc[c] = "complete" /\ mqdes'[c] = mqdes[c] /\ endedOn'[c] = endedOn[c]
        /\ mqdes[c] \in Producers /\ (HadLast(c) \/ HadLine(c))
    BY DEF CompleteConsumers
  <1>2. CASE HadLast(c)
    BY <1>1, <1>2, ClosedQueue DEF HadLast
  <1>3. CASE HadLine(c)
    <2>1. linesRead[mqdes[c]] \in Nat
      BY <1>1 DEF MqInv, MqTypeOK
    <2> QED
      BY <1>1, <1>3, <2>1 DEF HadLine
  <1> QED
    BY <1>1, <1>2, <1>3

\* A step of a program that touches neither messages nor lines.
LEMMA MqQuiet ==
    ASSUME MqInv, MqTypeOK', messages' = messages, taken' = taken, linesRead' = linesRead,
           endedOn' = endedOn,
           \A p \in Producers :
             /\ mqPc'[p] \notin {"receive", "complete"}
             /\ \/ mqPc'[p] = mqPc[p]
                \/ mqPc'[p] \in {"failed", "exit"}
                \/ mqPc[p] \in {"open", "read"} /\ mqPc'[p] \in {"read", "eof"},
           \A c \in Consumers :
             mqPc'[c] = "complete" => mqPc[c] = "complete" /\ mqdes'[c] = mqdes[c]
    PROVE  SentInOrder' /\ EofIsOne' /\ CompleteConsumers'
  <1>1. \A p \in Producers : SentTo(p)' = SentTo(p) /\ Len(SentTo(p)) \in Nat /\ linesRead[p] \in Nat
    BY SentType DEF MqInv, SentTo
  <1>2. SentInOrder'
    BY <1>1 DEF MqInv, SentInOrder, MqTypeOK
  <1>3. CompleteConsumers'
    BY <1>1, CompleteStays DEF MqInv
  <1> QED
    BY <1>2, <1>3 DEF MqInv, EofIsOne

\* A message goes to the end of the producer's own queue.
LEMMA MqSent ==
    ASSUME MqInv, NEW p \in Producers, NEW m \in Messages, Sends(p, m), UNCHANGED taken,
           m.number = EofNumber => m = EofMessage
    PROVE  /\ messages' \in [Producers -> Seq(Messages)]
           /\ SentTo(p)' = Append(SentTo(p), m.number)
           /\ \A q \in Producers : q # p => SentTo(q)' = SentTo(q) /\ messages'[q] = messages[q]
           /\ EofIsOne'
  <1>1. messages \in [Producers -> Seq(Messages)] /\ taken \in [Producers -> Seq(Nat)]
    BY DEF MqInv, MqTypeOK
  <1>2. messages' = [messages EXCEPT ![p] = Append(@, m)]
    BY DEF Sends
  <1>3. messages'[p] = Append(messages[p], m) /\ messages[p] \in Seq(Messages) /\ taken[p] \in Seq(Nat)
    BY <1>1, <1>2
  <1>4. SentTo(p)' = Append(SentTo(p), m.number)
    <2> DEFINE n == NumbersOf(messages[p])
    <2>1. n \in Seq(Nat) /\ m.number \in Nat /\ NumbersOf(messages'[p]) = Append(n, m.number)
      BY <1>3, NumbersType, NumbersAppend
    <2>2. taken[p] \o Append(n, m.number) = Append(taken[p] \o n, m.number)
      BY <1>3, <2>1, AppendToSecond, Zenon
    <2> QED
      BY <2>1, <2>2 DEF SentTo
  <1>5. messages' \in [Producers -> Seq(Messages)]
    BY <1>1, <1>2, <1>3
  <1>6. \A q \in Producers : q # p => SentTo(q)' = SentTo(q) /\ messages'[q] = messages[q]
    BY <1>1, <1>2 DEF SentTo
  <1>7. EofIsOne'
    <2>1. /\ Len(messages[p]) \in Nat /\ Len(messages'[p]) = Len(messages[p]) + 1
          /\ messages'[p][Len(messages[p]) + 1] = m
          /\ \A k \in 1..Len(messages[p]) : messages'[p][k] = messages[p][k]
      BY <1>3, AppendProperties
    <2>2. ASSUME NEW k \in 1..Len(messages'[p]), messages'[p][k].number = EofNumber
          PROVE  messages'[p][k] = EofMessage
      <3>1. CASE k = Len(messages[p]) + 1
        BY <2>1, <2>2, <3>1
      <3>2. CASE k # Len(messages[p]) + 1
        BY <2>1, <2>2, <3>2 DEF MqInv, EofIsOne
      <3> QED
        BY <3>1, <3>2
    <2> QED
      BY <1>6, <2>2 DEF MqInv, EofIsOne
  <1> QED
    BY <1>4, <1>5, <1>6, <1>7

\* The steps of a producer.
LEMMA MqProducerInv ==
    ASSUME MqInv, NEW p \in Producers, MqProducer(p) \/ MqKill(p)
    PROVE  MqInv'
  <1> USE QueueAssumption DEF Goes
  <1>1. MqTypeOK /\ NameIsItsProducers /\ SentInOrder /\ EofIsOne /\ CompleteConsumers
    BY DEF MqInv
  <1>a. \A c \in Consumers : c \notin Producers
    OBVIOUS
  <1>b. {"none", "EOF", "other"} \subseteq FirstBytes
    BY DEF FirstBytes
  <1>2. SUFFICES MqTypeOK' /\ NameIsItsProducers' /\ SentInOrder' /\ EofIsOne' /\ CompleteConsumers'
    BY DEF MqInv
  <1>3. CASE EndsEarly(p)
    <2>1. /\ mqPc' = [mqPc EXCEPT ![p] = "failed"]
          /\ send_buf' = [send_buf EXCEPT ![p] = "none"]
          /\ UNCHANGED <<queueName, messages, mqdes, linesRead, receive_buf, taken, endedOn>>
      BY <1>3 DEF EndsEarly
    <2>2. MqTypeOK'
      BY <1>1, <1>b, <2>1 DEF MqTypeOK
    <2>3. NameIsItsProducers'
      BY <1>1, <2>1 DEF MqTypeOK, NameIsItsProducers
    <2>4. SentInOrder' /\ EofIsOne' /\ CompleteConsumers'
      <3>1. \A q \in Producers :
              /\ mqPc'[q] \notin {"receive", "complete"}
              /\ \/ mqPc'[q] = mqPc[q]
                 \/ mqPc'[q] \in {"failed", "exit"}
                 \/ mqPc[q] \in {"open", "read"} /\ mqPc'[q] \in {"read", "eof"}
        BY <1>1, <2>1 DEF MqTypeOK, SentInOrder
      <3>2. \A c \in Consumers :
              mqPc'[c] = "complete" => mqPc[c] = "complete" /\ mqdes'[c] = mqdes[c]
        BY <1>1, <2>1 DEF MqTypeOK
      <3> QED
        BY <2>1, <2>2, <3>1, <3>2, MqQuiet
    <2> QED
      BY <2>2, <2>3, <2>4
  <1>4. CASE ProducerOpen(p)
    <2>1. /\ mqPc' = [mqPc EXCEPT ![p] = "read"] /\ mqPc[p] = "open"
          /\ queueName = NoQueue /\ queueName' = p
          /\ UNCHANGED <<messages, mqdes, linesRead, send_buf, receive_buf, taken, endedOn>>
      BY <1>4 DEF ProducerOpen, MayCreate
    <2>2. MqTypeOK'
      BY <1>1, <2>1 DEF MqTypeOK
    <2>3. NameIsItsProducers'
      BY <1>1, <2>1 DEF MqTypeOK, NameIsItsProducers
    <2>4. SentInOrder' /\ EofIsOne' /\ CompleteConsumers'
      <3>1. \A q \in Producers :
              /\ mqPc'[q] \notin {"receive", "complete"}
              /\ \/ mqPc'[q] = mqPc[q]
                 \/ mqPc'[q] \in {"failed", "exit"}
                 \/ mqPc[q] \in {"open", "read"} /\ mqPc'[q] \in {"read", "eof"}
        BY <1>1, <2>1 DEF MqTypeOK, SentInOrder
      <3>2. \A c \in Consumers :
              mqPc'[c] = "complete" => mqPc[c] = "complete" /\ mqdes'[c] = mqdes[c]
        BY <1>1, <2>1 DEF MqTypeOK
      <3> QED
        BY <2>1, <2>2, <3>1, <3>2, MqQuiet
    <2> QED
      BY <2>2, <2>3, <2>4
  <1>5. CASE ProducerUnlink(p)
    <2>1. /\ mqPc' = [mqPc EXCEPT ![p] = "exit"] /\ mqPc[p] = "unlink"
          /\ queueName' = NoQueue
          /\ UNCHANGED <<messages, mqdes, linesRead, send_buf, receive_buf, taken, endedOn>>
      BY <1>5 DEF ProducerUnlink
    <2>2. MqTypeOK'
      BY <1>1, <2>1 DEF MqTypeOK
    <2>3. NameIsItsProducers'
      BY <1>1, <2>1 DEF MqTypeOK, NameIsItsProducers
    <2>4. SentInOrder' /\ EofIsOne' /\ CompleteConsumers'
      <3>1. \A q \in Producers :
              /\ mqPc'[q] \notin {"receive", "complete"}
              /\ \/ mqPc'[q] = mqPc[q]
                 \/ mqPc'[q] \in {"failed", "exit"}
                 \/ mqPc[q] \in {"open", "read"} /\ mqPc'[q] \in {"read", "eof"}
        BY <1>1, <2>1 DEF MqTypeOK, SentInOrder
      <3>2. \A c \in Consumers :
              mqPc'[c] = "complete" => mqPc[c] = "complete" /\ mqdes'[c] = mqdes[c]
        BY <1>1, <2>1 DEF MqTypeOK
      <3> QED
        BY <2>1, <2>2, <3>1, <3>2, MqQuiet
    <2> QED
      BY <2>2, <2>3, <2>4
  <1>6. CASE ProducerRead(p)
    <2>1. /\ mqPc[p] = "read" /\ UNCHANGED <<queueName, messages, mqdes, receive_buf, taken, endedOn>>
          /\ \/ linesRead' = [linesRead EXCEPT ![p] = @ + 1] /\ mqPc' = [mqPc EXCEPT ![p] = "send"]
             \/ linesRead' = linesRead /\ mqPc' = [mqPc EXCEPT ![p] = "eof"]
          /\ send_buf' = send_buf \/ \E byte \in FirstBytes : send_buf' = [send_buf EXCEPT ![p] = byte]
      BY <1>6 DEF ProducerRead
    <2>2. MqTypeOK'
      <3>1. linesRead' \in [Producers -> Nat]
        <4>1. linesRead \in [Producers -> Nat]
          BY <1>1 DEF MqTypeOK
        <4>2. CASE linesRead' = [linesRead EXCEPT ![p] = @ + 1]
          BY <4>1, <4>2
        <4> QED
          BY <2>1, <4>1, <4>2
      <3>2. mqPc' \in [Producers \cup Consumers ->
                          {"open", "read", "send", "eof", "unlink", "receive",
                           "exit", "complete", "failed"}]
        BY <1>1, <2>1 DEF MqTypeOK
      <3>3. send_buf' \in [Producers -> FirstBytes]
        BY <1>1, <2>1 DEF MqTypeOK
      <3> QED
        BY <1>1, <2>1, <3>1, <3>2, <3>3 DEF MqTypeOK
    <2>3. NameIsItsProducers'
      BY <1>1, <2>1 DEF MqTypeOK, NameIsItsProducers
    <2>4. CASE linesRead' = linesRead /\ mqPc' = [mqPc EXCEPT ![p] = "eof"]
      <3>1. \A q \in Producers :
              /\ mqPc'[q] \notin {"receive", "complete"}
              /\ \/ mqPc'[q] = mqPc[q]
                 \/ mqPc'[q] \in {"failed", "exit"}
                 \/ mqPc[q] \in {"open", "read"} /\ mqPc'[q] \in {"read", "eof"}
        BY <1>1, <2>1, <2>4 DEF MqTypeOK, SentInOrder
      <3>2. \A c \in Consumers :
              mqPc'[c] = "complete" => mqPc[c] = "complete" /\ mqdes'[c] = mqdes[c]
        BY <1>1, <2>1, <2>4 DEF MqTypeOK
      <3>3. SentInOrder' /\ EofIsOne' /\ CompleteConsumers'
        BY <2>1, <2>2, <2>4, <3>1, <3>2, MqQuiet
      <3> QED
        BY <2>2, <2>3, <3>3
    <2>5. CASE linesRead' = [linesRead EXCEPT ![p] = @ + 1] /\ mqPc' = [mqPc EXCEPT ![p] = "send"]
      <3>1. \A q \in Producers : SentTo(q)' = SentTo(q) /\ Len(SentTo(q)) \in Nat
        BY <1>1, <2>1, SentType DEF SentTo
      <3>2. /\ Len(SentTo(p)) = linesRead[p] /\ linesRead[p] \in Nat
            /\ linesRead'[p] = linesRead[p] + 1 /\ mqPc'[p] = "send"
            /\ \A q \in Producers : q # p => linesRead'[q] = linesRead[q] /\ mqPc'[q] = mqPc[q]
        BY <1>1, <2>1, <2>5 DEF SentInOrder, MqTypeOK
      <3>3. SentInOrder'
        BY <1>1, <3>1, <3>2 DEF SentInOrder
      <3>4. \A c \in Consumers : mqPc'[c] = "complete" => mqPc[c] = "complete"
        BY <1>1, <1>a, <2>1, <2>5 DEF MqTypeOK
      <3>5. \A q \in Producers :
              /\ linesRead'[q] \in Nat /\ linesRead[q] <= linesRead'[q]
              /\ mqPc[q] \in {"unlink", "exit", "failed"} => linesRead'[q] = linesRead[q]
        BY <1>1, <2>1, <3>2 DEF MqTypeOK
      <3>6. CompleteConsumers'
        BY <1>1, <2>1, <3>4, <3>5, CompleteStays
      <3>7. EofIsOne'
        BY <1>1, <2>1 DEF EofIsOne
      <3> QED
        BY <2>2, <2>3, <3>3, <3>6, <3>7
    <2> QED
      BY <2>1, <2>4, <2>5
  <1>7. ASSUME NEW m \in Messages, NEW place \in {"read", "unlink"}, Sends(p, m),
               mqPc' = [mqPc EXCEPT ![p] = place],
               UNCHANGED <<queueName, mqdes, linesRead, receive_buf, taken, endedOn>>,
               send_buf' = send_buf \/ send_buf' = [send_buf EXCEPT ![p] = "none"],
               \/ mqPc[p] = "send" /\ m.number = linesRead[p] /\ place = "read"
               \/ mqPc[p] = "eof" /\ m = EofMessage /\ place = "unlink"
        PROVE  MqInv'
    <2>a. EofMessage.number = EofNumber /\ EofNumber = 0 /\ m.number \in Nat
      BY DEF EofMessage, Message, EofNumber, Messages
    <2>b. m.number = EofNumber => m = EofMessage
      <3>1. mqPc[p] = "send" => linesRead[p] # 0
        BY <1>1, SentType DEF SentInOrder
      <3> QED
        BY <1>7, <2>a, <3>1
    <2>1. /\ messages' \in [Producers -> Seq(Messages)]
          /\ SentTo(p)' = Append(SentTo(p), m.number)
          /\ \A q \in Producers : q # p => SentTo(q)' = SentTo(q) /\ messages'[q] = messages[q]
          /\ EofIsOne'
      BY <1>7, <2>b, MqSent
    <2>2. MqTypeOK'
      <3>1. send_buf' \in [Producers -> FirstBytes]
        BY <1>1, <1>7 DEF MqTypeOK, FirstBytes
      <3>2. mqPc' \in [Producers \cup Consumers ->
                         {"open", "read", "send", "eof", "unlink", "receive",
                          "exit", "complete", "failed"}]
        BY <1>1, <1>7 DEF MqTypeOK
      <3> QED
        BY <1>1, <1>7, <2>1, <3>1, <3>2, Zenon DEF MqTypeOK
    <2>3. NameIsItsProducers'
      BY <1>1, <1>7 DEF MqTypeOK, NameIsItsProducers
    <2>4. /\ SentTo(p) \in Seq(Nat) /\ Len(SentTo(p)) \in Nat /\ linesRead[p] \in Nat
          /\ Len(SentTo(p)') = Len(SentTo(p)) + 1
          /\ \A k \in 1..Len(SentTo(p)) : SentTo(p)'[k] = SentTo(p)[k]
          /\ SentTo(p)'[Len(SentTo(p)) + 1] = m.number
      <3>1. SentTo(p) \in Seq(Nat) /\ Len(SentTo(p)) \in Nat /\ linesRead[p] \in Nat
        BY <1>1, SentType
      <3>2. SentTo(p)' = Append(SentTo(p), m.number)
        BY <2>1
      <3> QED
        BY <2>a, <3>1, <3>2, AppendProperties
    <2>5. /\ mqPc'[p] = place
          /\ \A q \in Producers : q # p => mqPc'[q] = mqPc[q]
      BY <1>1, <1>7 DEF MqTypeOK
    <2>6. /\ mqPc[p] = "send" => Len(SentTo(p)) = linesRead[p] - 1
          /\ mqPc[p] = "eof" => Len(SentTo(p)) = linesRead[p]
          /\ \A k \in 1..Len(SentTo(p)) :
               SentTo(p)[k] = IF k <= linesRead[p] THEN k ELSE EofNumber
      BY <1>1 DEF SentInOrder
    <2>7. \A k \in 1..Len(SentTo(p)') :
            SentTo(p)'[k] = IF k <= linesRead[p] THEN k ELSE EofNumber
      <3> SUFFICES ASSUME NEW k \in 1..(Len(SentTo(p)) + 1)
                   PROVE  SentTo(p)'[k] = IF k <= linesRead[p] THEN k ELSE EofNumber
        BY <2>4
      <3>1. CASE k = Len(SentTo(p)) + 1
        BY <3>1, <1>7, <2>a, <2>4, <2>6
      <3>2. CASE k # Len(SentTo(p)) + 1
        BY <3>2, <2>4, <2>6
      <3> QED
        BY <3>1, <3>2
    <2>8. SentInOrder'
      <3> SUFFICES ASSUME NEW q \in Producers
                   PROVE  /\ \A k \in 1..Len(SentTo(q)') :
                               SentTo(q)'[k] = IF k <= linesRead[q] THEN k ELSE EofNumber
                          /\ mqPc'[q] \in {"open", "read", "eof"} => Len(SentTo(q)') = linesRead[q]
                          /\ mqPc'[q] = "send" => Len(SentTo(q)') = linesRead[q] - 1
                          /\ mqPc'[q] \in {"unlink", "exit", "failed"}
                               => Len(SentTo(q)') <= linesRead[q] + 1
                          /\ mqPc'[q] \notin {"receive", "complete"}
        BY <1>7 DEF SentInOrder
      <3>1. CASE q = p
        BY <3>1, <1>7, <2>4, <2>5, <2>6, <2>7
      <3>2. CASE q # p
        <4>1. SentTo(q)' = SentTo(q) /\ mqPc'[q] = mqPc[q]
          BY <3>2, <2>1, <2>5
        <4> QED
          BY <4>1, <1>1 DEF SentInOrder
      <3> QED
        BY <3>1, <3>2
    <2>9. \A c \in Consumers : mqPc'[c] = "complete" => mqPc[c] = "complete"
      BY <1>1, <1>a, <1>7 DEF MqTypeOK
    <2>10. \A q \in Producers : linesRead[q] \in Nat
      BY <1>1 DEF MqTypeOK
    <2>11. CompleteConsumers'
      BY <1>1, <1>7, <2>1, <2>9, <2>10, CompleteStays
    <2> QED
      BY <2>1, <2>2, <2>3, <2>8, <2>11 DEF MqInv
  <1>8. CASE ProducerSend(p)
    <2> DEFINE m == Message(linesRead[p], send_buf[p])
    <2>1. m \in Messages /\ m.number = linesRead[p]
      BY <1>1 DEF MqTypeOK, Messages, Message
    <2>2. /\ mqPc[p] = "send" /\ Sends(p, m) /\ mqPc' = [mqPc EXCEPT ![p] = "read"]
          /\ send_buf' = [send_buf EXCEPT ![p] = "none"]
          /\ UNCHANGED <<queueName, mqdes, linesRead, receive_buf, taken, endedOn>>
      BY <1>8 DEF ProducerSend
    <2> HIDE DEF m
    <2>3. MqInv'
      BY <1>7, <2>1, <2>2
    <2> QED
      BY <2>3 DEF MqInv
  <1>9. CASE ProducerSendEof(p)
    <2>1. CASE Sends(p, EofMessage)
      <3>1. EofMessage \in Messages
        BY DEF EofMessage, EofNumber, Message, Messages, FirstBytes
      <3>2. /\ mqPc[p] = "eof" /\ mqPc' = [mqPc EXCEPT ![p] = "unlink"]
            /\ UNCHANGED <<queueName, mqdes, linesRead, send_buf, receive_buf, taken, endedOn>>
        BY <1>9 DEF ProducerSendEof, AfterEof
      <3>3. MqInv'
        BY <1>7, <2>1, <3>1, <3>2
      <3> QED
        BY <3>3 DEF MqInv
    <2>2. CASE UNCHANGED messages
      <3>1. /\ mqPc' = [mqPc EXCEPT ![p] = "unlink"] /\ mqPc[p] = "eof"
            /\ UNCHANGED <<queueName, messages, mqdes, linesRead, send_buf, receive_buf, taken, endedOn>>
        BY <1>9, <2>2 DEF ProducerSendEof, AfterEof
      <3>2. MqTypeOK'
        BY <1>1, <3>1 DEF MqTypeOK
      <3>3. NameIsItsProducers'
        BY <1>1, <3>1 DEF MqTypeOK, NameIsItsProducers
      <3>4. \A q \in Producers : SentTo(q)' = SentTo(q) /\ Len(SentTo(q)) \in Nat
        BY <1>1, <3>1, SentType DEF SentTo
      <3>5. SentInOrder'
        BY <1>1, <3>1, <3>4 DEF SentInOrder, MqTypeOK
      <3>6. \A c \in Consumers : mqPc'[c] = "complete" => mqPc[c] = "complete"
        BY <1>1, <1>a, <3>1 DEF MqTypeOK
      <3>7. CompleteConsumers'
        <4>1. \A q \in Producers : linesRead'[q] \in Nat /\ linesRead[q] <= linesRead'[q]
          BY <1>1, <3>1 DEF MqTypeOK
        <4> QED
          BY <1>1, <3>1, <3>6, <4>1, CompleteStays, Zenon
      <3>8. EofIsOne'
        BY <1>1, <3>1 DEF EofIsOne
      <3> QED
        BY <3>2, <3>3, <3>5, <3>7, <3>8
    <2> QED
      BY <1>9, <2>1, <2>2 DEF ProducerSendEof
  <1> QED
    BY <1>3, <1>4, <1>5, <1>6, <1>8, <1>9
    DEF MqProducer, MqKill, ProducerFails, ProducerSendFails

\* A consumer takes the oldest message; when that is EOF the queue is empty then.
LEMMA MqReceiveInv ==
    ASSUME MqInv, NEW c \in Consumers, ConsumerReceive(c)
    PROVE  MqInv'
  <1> USE QueueAssumption DEF Goes
  <1> DEFINE q == mqdes[c]
  <1>1. MqTypeOK /\ NameIsItsProducers /\ SentInOrder /\ EofIsOne /\ CompleteConsumers
    BY DEF MqInv
  <1>2. /\ q \in Producers /\ messages[q] # <<>> /\ mqPc[c] = "receive"
        /\ messages' = [messages EXCEPT ![q] = Tail(@)]
        /\ taken' = [taken EXCEPT ![q] = Append(@, Head(messages[q]).number)]
        /\ UNCHANGED <<queueName, mqdes, linesRead, send_buf>>
    BY <1>1 DEF ConsumerReceive, MqTypeOK
  <1> DEFINE m == Head(messages[q])
  <1>b. PICK byte \in FirstAfter(c, m.start) : receive_buf' = [receive_buf EXCEPT ![c] = byte]
    BY DEF ConsumerReceive
  <1>c. \/ /\ byte = "EOF" /\ mqPc' = [mqPc EXCEPT ![c] = "complete"]
           /\ endedOn' = [endedOn EXCEPT ![c] = m]
        \/ UNCHANGED <<mqPc, endedOn>>
    BY <1>1, <1>b DEF ConsumerReceive, MqTypeOK
  <1>d. byte \in FirstBytes /\ (byte = "EOF" => m.start # "other")
    <2>1. receive_buf[c] \in FirstBytes /\ m.start \in FirstBytes
      <3>1. m \in Messages
        BY <1>1, <1>2, NumbersTail DEF MqTypeOK
      <3> QED
        BY <1>1, <3>1 DEF MqTypeOK, Messages
    <2>2. \/ m.start # "none" /\ byte = m.start
          \/ m.start = "none" /\ receive_buf[c] # "none" /\ byte = receive_buf[c]
          \/ m.start = "none" /\ byte \in {"EOF", "other"}
      <3>1. CASE m.start # "none"
        BY <1>b, <3>1 DEF FirstAfter
      <3>2. CASE m.start = "none" /\ receive_buf[c] # "none"
        BY <1>b, <3>2 DEF FirstAfter
      <3>3. CASE m.start = "none" /\ receive_buf[c] = "none"
        BY <1>b, <3>3 DEF FirstAfter
      <3> QED
        BY <3>1, <3>2, <3>3
    <2> QED
      BY <2>1, <2>2 DEF FirstBytes
  <1> HIDE DEF q, m
  <1>3. /\ messages[q] \in Seq(Messages) /\ taken[q] \in Seq(Nat)
        /\ messages'[q] = Tail(messages[q]) /\ taken'[q] = Append(taken[q], m.number)
        /\ \A p \in Producers : p # q => messages'[p] = messages[p] /\ taken'[p] = taken[p]
    BY <1>1, <1>2 DEF MqTypeOK, m
  <1>e. /\ messages'[q] \in Seq(Messages) /\ m \in Messages
        /\ NumbersOf(messages'[q]) = Tail(NumbersOf(messages[q]))
        /\ m.number = Head(NumbersOf(messages[q])) /\ NumbersOf(messages[q]) # <<>>
        /\ NumbersOf(messages[q]) \in Seq(Nat) /\ m = messages[q][1]
        /\ \A k \in 1..Len(messages'[q]) :
             messages'[q][k] = messages[q][k + 1] /\ k + 1 \in 1..Len(messages[q])
    BY <1>2, <1>3, NumbersTail, NumbersType DEF m
  <1>4. /\ taken'[q] \in Seq(Nat) /\ messages'[q] \in Seq(Messages)
        /\ taken'[q] \o NumbersOf(messages'[q]) = taken[q] \o NumbersOf(messages[q])
    <2> DEFINE s == taken[q]
               u == NumbersOf(messages[q])
    <2>1. s \in Seq(Nat) /\ u \in Seq(Nat) /\ u # <<>>
      BY <1>3, <1>e
    <2>2. Append(s, Head(u)) \in Seq(Nat) /\ Append(s, Head(u)) \o Tail(u) = s \o u
      BY <2>1, MoveHead, Zenon
    <2> QED
      BY <1>3, <1>e, <2>2, Zenon
  <1>5. \A p \in Producers : SentTo(p)' = SentTo(p)
    BY <1>3, <1>4 DEF SentTo
  <1>6. MqTypeOK'
    <2>1. messages' \in [Producers -> Seq(Messages)] /\ taken' \in [Producers -> Seq(Nat)]
      BY <1>1, <1>2, <1>3, <1>4 DEF MqTypeOK
    <2>2. receive_buf' \in [Consumers -> FirstBytes]
      BY <1>1, <1>b, <1>d DEF MqTypeOK
    <2>3. endedOn' \in [Consumers -> Messages]
      BY <1>1, <1>c, <1>e DEF MqTypeOK
    <2>4. mqPc' \in [Producers \cup Consumers ->
                        {"open", "read", "send", "eof", "unlink", "receive",
                         "exit", "complete", "failed"}]
      BY <1>1, <1>c DEF MqTypeOK
    <2> QED
      BY <1>1, <1>2, <2>1, <2>2, <2>3, <2>4 DEF MqTypeOK
  <1>7. \A p \in Producers : mqPc'[p] = mqPc[p]
    BY <1>1, <1>c DEF MqTypeOK
  <1>8. NameIsItsProducers'
    BY <1>1, <1>2, <1>7 DEF NameIsItsProducers
  <1>9. SentInOrder'
    BY <1>1, <1>2, <1>5, <1>7 DEF SentInOrder
  <1>f. EofIsOne'
    <2> SUFFICES ASSUME NEW p \in Producers, NEW k \in 1..Len(messages'[p]),
                        messages'[p][k].number = EofNumber
                 PROVE  messages'[p][k] = EofMessage
      BY DEF EofIsOne
    <2>1. CASE p = q
      <3>1. messages'[q][k] = messages[q][k + 1] /\ k + 1 \in 1..Len(messages[q])
        BY <1>e, <2>1, Zenon
      <3> QED
        BY <1>1, <1>2, <2>1, <3>1, Zenon DEF EofIsOne
    <2>2. CASE p # q
      BY <1>1, <1>3, <2>2, Zenon DEF EofIsOne
    <2> QED
      BY <2>1, <2>2
  <1>10. ASSUME m.number = EofNumber
         PROVE  Len(taken'[q]) = linesRead[q] + 1 /\ messages'[q] = <<>>
    <2>1. /\ linesRead[q] \in Nat /\ Len(SentTo(q)) = Len(taken[q]) + Len(messages[q])
          /\ SentTo(q)[Len(taken[q]) + 1] = EofNumber
          /\ Len(taken[q]) \in Nat /\ Len(messages[q]) \in Nat \ {0}
      <3>1. q \in Producers /\ MqTypeOK /\ messages[q] # <<>> /\ messages[q] \in Seq(Messages)
        BY <1>1, <1>2, <1>3
      <3>2. /\ linesRead[q] \in Nat /\ Len(SentTo(q)) = Len(taken[q]) + Len(messages[q])
            /\ SentTo(q)[Len(taken[q]) + 1] = m.number
            /\ Len(taken[q]) \in Nat
        BY <3>1, SentType DEF m
      <3> QED
        BY <1>10, <3>1, <3>2
    <2> DEFINE a == Len(taken[q])
               b == Len(messages[q])
               n == linesRead[q]
               s == Len(SentTo(q))
    <2>2. a \in Nat /\ b \in Nat \ {0} /\ n \in Nat /\ s = a + b
      BY <2>1
    <2>3. SentTo(q)[a + 1] = 0
      BY <2>1 DEF EofNumber
    <2>4. mqPc[q] \in {"open", "read", "send", "eof", "unlink", "exit", "failed"}
      BY <1>1, <1>2 DEF SentInOrder, MqTypeOK
    <2>5. /\ mqPc[q] \in {"open", "read", "eof"} => s = n
          /\ mqPc[q] = "send" => s = n - 1
          /\ mqPc[q] \in {"unlink", "exit", "failed"} => s <= n + 1
          /\ \A k \in 1..s : SentTo(q)[k] = IF k <= n THEN k ELSE 0
      BY <1>1, <1>2 DEF SentInOrder, EofNumber
    <2> HIDE DEF a, b, n, s
    <2>6. s <= n + 1
      BY <2>2, <2>4, <2>5
    <2>7. a + 1 \in 1..s
      BY <2>2
    <2>8. ~(a + 1 <= n)
      BY <2>2, <2>3, <2>5, <2>7
    <2>9. a = n /\ b = 1
      BY <2>2, <2>6, <2>8
    <2>10. Len(taken[q]) = linesRead[q] /\ Len(messages[q]) = 1
      BY <2>9 DEF a, b, n
    <2>11. Len(taken'[q]) = Len(taken[q]) + 1
      BY <1>3
    <2>12. messages'[q] = <<>>
      <3>1. messages[q] \in Seq(Messages) /\ messages[q] # <<>> /\ messages'[q] = Tail(messages[q])
            /\ Len(messages[q]) = 1
        BY <1>2, <1>3, <2>10
      <3>2. Tail(messages[q]) \in Seq(Messages) /\ Len(Tail(messages[q])) = 0
        BY <3>1, HeadTailProperties
      <3> QED
        BY <3>1, <3>2, EmptySeq
    <2> QED
      BY <2>10, <2>11, <2>12
  <1>11. ASSUME m.number # EofNumber PROVE m.number \in 1..linesRead[q]
    <2> DEFINE a == Len(taken[q]) + 1
    <2>1. a \in 1..Len(SentTo(q)) /\ SentTo(q)[a] = m.number /\ linesRead[q] \in Nat
      <3>1. q \in Producers /\ MqTypeOK /\ messages[q] # <<>> /\ Len(messages[q]) \in Nat \ {0}
        BY <1>1, <1>2, <1>3
      <3>2. /\ linesRead[q] \in Nat /\ Len(SentTo(q)) = Len(taken[q]) + Len(messages[q])
            /\ SentTo(q)[Len(taken[q]) + 1] = m.number
            /\ Len(taken[q]) \in Nat
        BY <3>1, SentType DEF m
      <3> DEFINE x == Len(taken[q])
                 y == Len(messages[q])
      <3>3. x \in Nat /\ y \in Nat \ {0} /\ Len(SentTo(q)) = x + y /\ a = x + 1
        BY <3>1, <3>2
      <3> HIDE DEF x, y, a
      <3>4. a \in 1..Len(SentTo(q))
        BY <3>3
      <3> QED
        BY <3>2, <3>4, Zenon DEF a
    <2> HIDE DEF a
    <2>2. SentTo(q)[a] = IF a <= linesRead[q] THEN a ELSE EofNumber
      BY <1>1, <1>2, <2>1 DEF SentInOrder
    <2> QED
      BY <1>11, <2>1, <2>2
  <1>12. CompleteConsumers'
    <2> SUFFICES ASSUME NEW d \in Consumers, mqPc'[d] = "complete"
                 PROVE  mqdes'[d] \in Producers /\ (HadLast(d)' \/ HadLine(d)')
      BY DEF CompleteConsumers
    <2>1. CASE mqPc[d] = "complete"
      <3>1. /\ mqdes[d] \in Producers /\ (HadLast(d) \/ HadLine(d)) /\ d # c
            /\ endedOn'[d] = endedOn[d] /\ mqdes'[d] = mqdes[d]
        BY <1>1, <1>2, <1>c, <2>1 DEF CompleteConsumers, MqTypeOK
      <3>2. CASE HadLast(d)
        <4>1. mqdes[d] # q
          BY <1>2, <3>2 DEF HadLast
        <4> QED
          BY <1>2, <1>3, <3>1, <3>2, <4>1 DEF HadLast
      <3>3. CASE HadLine(d)
        BY <1>2, <3>1, <3>3 DEF HadLine
      <3> QED
        BY <3>1, <3>2, <3>3
    <2>2. CASE mqPc[d] # "complete"
      <3>1. d = c /\ byte = "EOF" /\ endedOn'[d] = m /\ mqdes'[d] = q
        BY <1>1, <1>2, <1>c, <2>2 DEF MqTypeOK, q
      <3>2. CASE m.number = EofNumber
        <4>1. m = EofMessage
          BY <1>1, <1>2, <1>3, <1>e, <3>2 DEF EofIsOne
        <4> QED
          BY <1>2, <1>10, <3>1, <3>2, <4>1 DEF HadLast
      <3>3. CASE m.number # EofNumber
        BY <1>2, <1>11, <1>d, <3>1, <3>3 DEF HadLine
      <3> QED
        BY <3>2, <3>3
    <2> QED
      BY <2>1, <2>2
  <1> QED
    BY <1>6, <1>8, <1>9, <1>f, <1>12 DEF MqInv

\* Every step keeps the invariant.
LEMMA MqNextInv == MqInv /\ [MqNext]_mqVars => MqInv'
  <1> SUFFICES ASSUME MqInv, [MqNext]_mqVars PROVE MqInv'
    OBVIOUS
  <1>1. ASSUME NEW p \in Producers, MqProducer(p) \/ MqKill(p) PROVE MqInv'
    BY <1>1, MqProducerInv
  <1>2. ASSUME NEW c \in Consumers, ConsumerOpen(c) \/ ConsumerReceiveFails(c) PROVE MqInv'
    <2>1. MqTypeOK /\ NameIsItsProducers /\ SentInOrder
      BY DEF MqInv
    <2>2. /\ mqPc' = [mqPc EXCEPT ![c] = "receive"] \/ mqPc' = [mqPc EXCEPT ![c] = "failed"]
          /\ mqdes' = mqdes \/ (mqPc[c] = "open" /\ mqdes' = [mqdes EXCEPT ![c] = queueName])
          /\ UNCHANGED <<queueName, messages, linesRead, send_buf, receive_buf, taken, endedOn>>
      BY <1>2 DEF ConsumerOpen, ConsumerReceiveFails, AfterError, Goes
    <2>3. MqTypeOK'
      BY <2>1, <2>2 DEF MqTypeOK
    <2>4. \A p \in Producers : mqPc'[p] = mqPc[p]
      BY <2>1, <2>2, QueueAssumption DEF MqTypeOK
    <2>5. NameIsItsProducers'
      BY <2>1, <2>2, <2>4 DEF NameIsItsProducers
    <2>6. \A d \in Consumers :
            mqPc'[d] = "complete" => mqPc[d] = "complete" /\ mqdes'[d] = mqdes[d]
      BY <2>1, <2>2 DEF MqTypeOK
    <2>7. \A p \in Producers : mqPc[p] \notin {"receive", "complete"}
      BY <2>1 DEF SentInOrder
    <2>8. \A p \in Producers :
            /\ mqPc'[p] \notin {"receive", "complete"}
            /\ \/ mqPc'[p] = mqPc[p]
               \/ mqPc'[p] \in {"failed", "exit"}
               \/ mqPc[p] \in {"open", "read"} /\ mqPc'[p] \in {"read", "eof"}
      BY <2>4, <2>7
    <2>9. SentInOrder' /\ EofIsOne' /\ CompleteConsumers'
      BY <2>2, <2>3, <2>6, <2>8, MqQuiet
    <2> QED
      BY <2>3, <2>5, <2>9 DEF MqInv
  <1>3. ASSUME NEW c \in Consumers, ConsumerReceive(c) PROVE MqInv'
    BY <1>3, MqReceiveInv
  <1>4. CASE UNCHANGED mqVars
    BY <1>4 DEF mqVars, MqInv, MqTypeOK, NameIsItsProducers, SentInOrder, SentTo, EofIsOne,
               CompleteConsumers, HadLast, HadLine
  <1> QED
    BY <1>1, <1>2, <1>3, <1>4 DEF MqNext, MqConsumer

\* What was taken is the front of what a producer sends.
LEMMA MqTaken ==
    ASSUME MqInv, NEW p \in Producers
    PROVE  /\ taken[p] \in Seq(Nat) /\ AllMessages(p) \in Seq(Nat)
           /\ linesRead[p] \in Nat /\ Len(AllMessages(p)) = linesRead[p] + 1
           /\ Len(taken[p]) <= linesRead[p] + 1
           /\ \A k \in 1..Len(taken[p]) : taken[p][k] = AllMessages(p)[k]
  <1> DEFINE n == linesRead[p]
             Lines == [k \in 1..n |-> k]
  <1>1. MqTypeOK /\ SentInOrder
    BY DEF MqInv
  <1>2. /\ taken[p] \in Seq(Nat) /\ n \in Nat /\ Len(taken[p]) \in Nat
        /\ Len(taken[p]) <= Len(SentTo(p)) /\ Len(SentTo(p)) \in Nat
        /\ \A k \in 1..Len(taken[p]) : SentTo(p)[k] = taken[p][k]
    <2>1. /\ taken[p] \in Seq(Nat) /\ n \in Nat /\ Len(taken[p]) \in Nat
          /\ Len(messages[p]) \in Nat
          /\ Len(SentTo(p)) = Len(taken[p]) + Len(messages[p])
          /\ \A k \in 1..Len(taken[p]) : SentTo(p)[k] = taken[p][k]
      BY <1>1, SentType, Zenon
    <2> DEFINE x == Len(taken[p])
               y == Len(messages[p])
               z == Len(SentTo(p))
    <2>2. x \in Nat /\ y \in Nat /\ z = x + y
      BY <2>1, Zenon
    <2> HIDE DEF x, y, z
    <2>3. x <= z /\ z \in Nat
      BY <2>2
    <2> QED
      BY <2>1, <2>3, Zenon DEF x, z
  <1>3. /\ Len(SentTo(p)) <= n + 1
        /\ \A k \in 1..Len(SentTo(p)) : SentTo(p)[k] = IF k <= n THEN k ELSE EofNumber
    <2>1. mqPc[p] \in {"open", "read", "send", "eof", "unlink", "exit", "failed"}
      BY <1>1 DEF SentInOrder, MqTypeOK
    <2> QED
      BY <1>1, <1>2, <2>1 DEF SentInOrder
  <1> HIDE DEF n
  <1>4. Lines \in Seq(Nat) /\ Len(Lines) = n /\ \A k \in 1..n : Lines[k] = k
    BY <1>2
  <1>5. AllMessages(p) = Lines \o <<EofNumber>>
    BY DEF AllMessages, n
  <1> HIDE DEF Lines
  <1>6. /\ AllMessages(p) \in Seq(Nat) /\ Len(AllMessages(p)) = n + 1
        /\ \A k \in 1..(n + 1) : AllMessages(p)[k] = IF k <= n THEN k ELSE EofNumber
    BY <1>2, <1>4, <1>5 DEF EofNumber
  <1>7. Len(taken[p]) <= n + 1
    <2> DEFINE x == Len(taken[p])
               z == Len(SentTo(p))
    <2>1. x \in Nat /\ z \in Nat /\ x <= z /\ z <= n + 1 /\ n \in Nat
      BY <1>2, <1>3, Zenon
    <2> HIDE DEF x, z
    <2>2. x <= n + 1
      BY <2>1
    <2> QED
      BY <2>2 DEF x
  <1>8. ASSUME NEW k \in 1..Len(taken[p]) PROVE taken[p][k] = AllMessages(p)[k]
    <2> DEFINE x == Len(taken[p])
               z == Len(SentTo(p))
    <2>1. x \in Nat /\ z \in Nat /\ x <= z /\ z <= n + 1 /\ n \in Nat /\ k \in 1..x
      BY <1>2, <1>3, Zenon
    <2> HIDE DEF x, z
    <2>2. k \in 1..z /\ k \in 1..(n + 1)
      BY <2>1
    <2> QED
      BY <1>2, <1>3, <1>6, <2>2, Zenon DEF z
  <1> QED
    BY <1>2, <1>6, <1>7, <1>8, Zenon DEF n

\* Messages are taken in order, and who had the last one has all.
LEMMA MqComplete == MqInv => NameIsItsProducers /\ TakenInOrder /\ CompleteHasAll
  <1> SUFFICES ASSUME MqInv PROVE TakenInOrder /\ CompleteHasAll
    BY DEF MqInv
  <1>1. ASSUME NEW p \in Producers PROVE IsPrefix(taken[p], AllMessages(p))
    <2> DEFINE s == taken[p]
               t == AllMessages(p)
    <2>1. /\ s \in Seq(Nat) /\ t \in Seq(Nat) /\ Len(s) \in Nat /\ Len(t) \in Nat
          /\ Len(s) <= Len(t) /\ \A k \in 1..Len(s) : s[k] = t[k]
      BY MqTaken
    <2> HIDE DEF s, t
    <2>2. /\ SubSeq(s, 1, Len(s)) \in Seq(Nat) /\ SubSeq(t, 1, Len(s)) \in Seq(Nat)
          /\ Len(SubSeq(s, 1, Len(s))) = Len(s) /\ Len(SubSeq(t, 1, Len(s))) = Len(s)
          /\ \A k \in 1..Len(s) : SubSeq(s, 1, Len(s))[k] = s[k] /\ SubSeq(t, 1, Len(s))[k] = t[k]
      BY <2>1
    <2>3. SubSeq(s, 1, Len(s)) = SubSeq(t, 1, Len(s))
      BY <2>1, <2>2, SeqEqual
    <2>4. IsPrefix(s, t)
      BY <2>1, <2>3 DEF IsPrefix
    <2> QED
      BY <2>4 DEF s, t
  <1>2. ASSUME NEW c \in Consumers, mqPc[c] = "complete", HadLast(c)
        PROVE  taken[mqdes[c]] = AllMessages(mqdes[c])
    <2>1. mqdes[c] \in Producers /\ Len(taken[mqdes[c]]) = linesRead[mqdes[c]] + 1
      BY <1>2 DEF MqInv, CompleteConsumers, HadLast
    <2> DEFINE s == taken[mqdes[c]]
               t == AllMessages(mqdes[c])
    <2>2. /\ s \in Seq(Nat) /\ t \in Seq(Nat) /\ Len(s) = Len(t)
          /\ \A k \in 1..Len(s) : s[k] = t[k]
      BY <2>1, MqTaken
    <2> HIDE DEF s, t
    <2>3. s = t
      BY <2>2, SeqEqual
    <2> QED
      BY <2>3 DEF s, t
  <1>3. CompleteHasAll
    BY <1>2 DEF MqInv, CompleteConsumers, CompleteHasAll, HadLast, HadLine
  <1> QED
    BY <1>1, <1>3 DEF TakenInOrder

-----------------------------------------------------------------------------
(* SharedMemory.                                                           *)

\* The first state.
LEMMA ShmInitInv == ShmInit => ShmInv
  <1> SUFFICES ASSUME ShmInit PROVE ShmInv
    OBVIOUS
  <1> USE MemoryAssumption DEF ShmInit
  <1>1. memory \in [Runs \cup {EarlierRun} -> [1..(MessageLen + 1) -> Runs \cup {NoRun}]]
    OBVIOUS
  <1>2. \A a \in Runs : \A k \in 1..(MessageLen + 1) : memory[a][k] = NoRun
    OBVIOUS
  <1>3. \A a \in Runs : printedBytes[a] = <<>>
    OBVIOUS
  <1> QED
    BY <1>1, <1>2, <1>3 DEF ShmInv, OwnFrontOfMessage

\* Every step keeps the invariant.
LEMMA ShmNextInv == ShmInv /\ [ShmNext]_shmVars => ShmInv'
  <1> SUFFICES ASSUME ShmInv, [ShmNext]_shmVars PROVE ShmInv'
    OBVIOUS
  <1> USE MemoryAssumption DEF ShmInv, OwnFrontOfMessage, ShmGoes
  <1>1. ASSUME NEW a \in Runs, ShmOpen(a) PROVE ShmInv'
    <2>1. CASE Creates(a)
      BY <1>1, <2>1 DEF ShmOpen, Creates
    <2>2. CASE ShmGoes(a, "remove") /\ UNCHANGED <<shmName, mapped>>
      BY <1>1, <2>2 DEF ShmOpen
    <2> QED
      BY <1>1, <2>1, <2>2 DEF ShmOpen
  <1>2. ASSUME NEW a \in Runs, ShmRemove(a) PROVE ShmInv'
    BY <1>2 DEF ShmRemove
  <1>3. ASSUME NEW a \in Runs, ShmReopen(a) PROVE ShmInv'
    <2>1. CASE Creates(a)
      BY <1>3, <2>1 DEF ShmReopen, Creates
    <2>2. CASE ShmGoes(a, "failed") /\ UNCHANGED <<shmName, mapped>>
      BY <1>3, <2>2 DEF ShmReopen
    <2> QED
      BY <1>3, <2>1, <2>2 DEF ShmReopen
  <1>4. ASSUME NEW a \in Runs, ShmFails(a) PROVE ShmInv'
    BY <1>4 DEF ShmFails, CleanUp
  <1>5. ASSUME NEW a \in Runs, ShmFork(a) PROVE ShmInv'
    BY <1>5 DEF ShmFork
  <1>6. ASSUME NEW a \in Runs, ShmWrite(a) PROVE ShmInv'
    BY <1>6 DEF ShmWrite, Missing
  <1>7. ASSUME NEW a \in Runs, ShmEnd(a) PROVE ShmInv'
    BY <1>7 DEF ShmEnd, CleanUp
  <1>8. ASSUME NEW a \in Runs, ShmKill(a) PROVE ShmInv'
    BY <1>8 DEF ShmKill
  <1>9. ASSUME NEW a \in Runs, ChildPoll(a) PROVE ShmInv'
    BY <1>9 DEF ChildPoll, FirstByte
  <1>10. ASSUME NEW a \in Runs, ChildPrint(a) PROVE ShmInv'
    <2> DEFINE k == Len(printedBytes[a]) + 1
    <2>1. /\ childAt[a] = "print" /\ mapped[a] = a /\ memory[a][1] = a
          /\ k \in 1..(MessageLen + 1) /\ memory[a][k] \in {a, NoRun}
          /\ memory[a][MessageLen + 1] = NoRun /\ printedBytes[a] \in Seq(Runs)
      BY <1>10 DEF ChildPrint
    <2>2. CASE memory[a][k] # NoRun
      <3>1. /\ printedBytes' = [printedBytes EXCEPT ![a] = Append(@, a)]
            /\ UNCHANGED <<shmName, memory, shmPc, mapped, readsOnce, childAt>>
        BY <1>10, <2>1, <2>2 DEF ChildPrint
      <3>2. Len(printedBytes[a]) < MessageLen
        BY <2>1, <2>2
      <3>3. /\ printedBytes'[a] = Append(printedBytes[a], a)
            /\ printedBytes'[a] \in Seq(Runs) /\ printedBytes'[a] # <<>>
            /\ Len(printedBytes'[a]) = Len(printedBytes[a]) + 1
            /\ \A i \in 1..Len(printedBytes'[a]) : printedBytes'[a][i] = a
        BY <2>1, <3>1
      <3>4. printedBytes' \in [Runs -> Seq(Runs)]
        BY <3>1, <3>3
      <3>5. \A b \in Runs : b # a => printedBytes'[b] = printedBytes[b]
        BY <3>1
      <3> QED
        BY <3>1, <3>2, <3>3, <3>4, <3>5
    <2>3. CASE memory[a][k] = NoRun
      <3>1. /\ childAt' = [childAt EXCEPT ![a] = "end"]
            /\ UNCHANGED <<shmName, memory, shmPc, mapped, readsOnce, printedBytes>>
        BY <1>10, <2>1, <2>3 DEF ChildPrint
      <3>2. printedBytes[a] # <<>>
        BY <2>1, <2>3
      <3> QED
        BY <2>1, <3>1, <3>2
    <2> QED
      BY <2>2, <2>3
  <1>11. CASE UNCHANGED shmVars
    BY <1>11 DEF shmVars
  <1> QED
    BY <1>1, <1>2, <1>3, <1>4, <1>5, <1>6, <1>7, <1>8, <1>9, <1>10, <1>11
    DEF ShmNext, ShmParent, ShmChild

\* The name is left by nobody but a run that is under way or was killed.
LEMMA ShmNames == ShmInv => OwnFrontOfMessage /\ NoNameLeft
  BY DEF ShmInv, NoNameLeft

-----------------------------------------------------------------------------
(* Fifo.                                                                   *)

\* What covers the front of a sequence covers, with a buffer that starts with the
\* rest behind it, the whole.
LEMMA CoversMore ==
    ASSUME NEW P \in Seq(Nat), NEW F \in Seq(Nat), NEW B \in Seq(Nat), NEW R \in Seq(Nat),
           Covers(P, F)
    PROVE  Covers(P \o (B \o R), F \o B)
  <1> DEFINE Q == P \o (B \o R)
             G == F \o B
  <1>1. /\ Q \in Seq(Nat) /\ Len(Q) = Len(P) + Len(B) + Len(R)
        /\ G \in Seq(Nat) /\ Len(G) = Len(F) + Len(B)
        /\ Len(P) \in Nat /\ Len(F) \in Nat /\ Len(B) \in Nat /\ Len(R) \in Nat
        /\ Len(F) <= Len(P)
    BY DEF Covers
  <1>2. ASSUME Len(Q) = Len(G) PROVE Q = G
    <2>1. Len(P) = Len(F) /\ Len(R) = 0
      BY <1>1, <1>2
    <2>2. P = F /\ R = <<>>
      BY <2>1, EmptySeq DEF Covers
    <2>3. B \o <<>> = B
      BY ConcatEmptySeq
    <2> QED
      BY <2>2, <2>3
  <1>3. ASSUME NEW i \in 1..Len(G) PROVE \E j \in 1..Len(Q) : Q[j] = G[i]
    <2>1. CASE i <= Len(F)
      <3>1. i \in 1..Len(F) /\ G[i] = F[i]
        BY <1>1, <2>1
      <3>2. PICK j \in 1..Len(P) : P[j] = F[i]
        BY <3>1 DEF Covers
      <3>3. j \in 1..Len(Q) /\ Q[j] = P[j]
        BY <1>1, <3>2
      <3> QED
        BY <3>1, <3>2, <3>3
    <2>2. CASE i > Len(F)
      <3> DEFINE k == i - Len(F)
      <3>1. k \in 1..Len(B) /\ G[i] = B[k]
        BY <1>1, <2>2
      <3> HIDE DEF k
      <3>2. /\ B \o R \in Seq(Nat) /\ Len(B \o R) = Len(B) + Len(R)
            /\ (B \o R)[k] = B[k] /\ k \in 1..Len(B \o R)
        BY <1>1, <3>1
      <3>3. Len(P) + k \in 1..Len(Q) /\ Q[Len(P) + k] = (B \o R)[k]
        <4> DEFINE C == B \o R
        <4>1. C \in Seq(Nat) /\ Len(C) \in Nat /\ k \in 1..Len(C) /\ k \in Nat
              /\ P \in Seq(Nat) /\ Len(P) \in Nat
          BY <1>1, <3>1, <3>2
        <4>2. Len(Q) = Len(P) + Len(C)
          BY <1>1, <3>2
        <4> HIDE DEF C
        <4>3. (P \o C)[Len(P) + k] = C[k]
          BY <4>1
        <4> QED
          BY <4>1, <4>2, <4>3 DEF C
      <3> QED
        BY <3>1, <3>2, <3>3
    <2>3. i \in Int /\ Len(F) \in Int
      BY <1>1
    <2> HIDE DEF Q, G
    <2> QED
      BY <2>1, <2>2, <2>3
  <1> HIDE DEF Q, G
  <1>4. Covers(Q, G)
    BY <1>1, <1>2, <1>3 DEF Covers
  <1> QED
    BY <1>4 DEF Q, G

\* The first state.
LEMMA FifoInitInv == FifoInit => FifoInv
  <1> SUFFICES ASSUME FifoInit PROVE FifoInv
    OBVIOUS
  <1>1. writerBuf \in Seq(Nat) /\ readerBuf \in Seq(Nat)
    <2>1. writerBuf = <<>> \/ writerBuf = <<0>>
      BY DEF FifoInit
    <2>2. PICK n \in 0..MaxString : readerBuf = [k \in 1..n |-> 0]
      BY DEF FifoInit
    <2>3. n \in Nat
      BY <2>2
    <2>4. readerBuf \in Seq(Nat)
      BY <2>2, <2>3
    <2>5. <<>> \in Seq(Nat) /\ <<0>> \in Seq(Nat)
      OBVIOUS
    <2> QED
      BY <2>1, <2>4, <2>5, Zenon
  <1>2. Covers(<<>>, <<>>)
    BY DEF Covers
  <1>3. <<>> \o <<>> = <<>>
    OBVIOUS
  <1> QED
    BY <1>1, <1>2, <1>3 DEF FifoInit, FifoInv

\* The reader takes bytes from the front of the pipe to the front of its buffer.
LEMMA FifoReadInv == FifoInv /\ ReaderReads => FifoInv'
  <1> SUFFICES ASSUME FifoInv, ReaderReads PROVE FifoInv'
    OBVIOUS
  <1>n. PICK n : n = IF Len(inFifo) < Len(readerBuf) THEN Len(inFifo) ELSE Len(readerBuf)
    OBVIOUS
  <1> DEFINE bytes == SubSeq(inFifo, 1, n)
             rest == SubSeq(inFifo, n + 1, Len(inFifo))
             old == SubSeq(readerBuf, n + 1, Len(readerBuf))
  <1>1. /\ inFifo \in Seq(Nat) /\ readerBuf \in Seq(Nat) /\ fromFifo \in Seq(Nat)
        /\ intoFifo \in Seq(Nat) /\ fifoPrinted \in Seq(Nat) /\ writerBuf \in Seq(Nat)
        /\ bytesIn \in Nat /\ fromFifo \o inFifo = intoFifo
        /\ readerPc = "read" /\ Covers(fifoPrinted, fromFifo)
    BY DEF FifoInv, ReaderReads
  <1>2. /\ n \in Nat /\ n <= Len(inFifo) /\ n <= Len(readerBuf)
        /\ Len(inFifo) \in Nat /\ Len(readerBuf) \in Nat
    BY <1>n, <1>1
  <1>3. bytes \in Seq(Nat) /\ Len(bytes) = n /\ rest \in Seq(Nat) /\ bytes \o rest = inFifo
    <2>1. inFifo \in Seq(Nat) /\ n \in 0..Len(inFifo)
      BY <1>1, <1>2
    <2> QED
      BY <2>1, QueueSplit, Zenon
  <1>4. old \in Seq(Nat) /\ Len(old) = Len(readerBuf) - n
    BY <1>1, <1>2
  <1>5. /\ inFifo' = rest /\ readerBuf' = bytes \o old /\ fromFifo' = fromFifo \o bytes
        /\ readerPc' = "print"
        /\ UNCHANGED <<writerBuf, bytesIn, intoFifo, fifoPrinted>>
    BY <1>n, <1>3 DEF ReaderReads, Overlaid
  <1> HIDE DEF bytes, rest, old
  <1>6. /\ readerBuf' \in Seq(Nat) /\ Len(readerBuf') = Len(readerBuf)
        /\ SubSeq(readerBuf', 1, n) = bytes
    <2>1. /\ bytes \o old \in Seq(Nat) /\ Len(bytes \o old) = Len(bytes) + Len(old)
          /\ SubSeq(bytes \o old, 1, Len(bytes)) = bytes
      BY <1>3, <1>4, QueueParts, Zenon
    <2> QED
      BY <1>2, <1>3, <1>4, <1>5, <2>1
  <1> DEFINE m == Len(fromFifo)
  <1>7. /\ fromFifo' \in Seq(Nat) /\ m \in Nat /\ Len(fromFifo') = m + n
        /\ SubSeq(fromFifo', 1, m) = fromFifo /\ SubSeq(fromFifo', m + 1, m + n) = bytes
    BY <1>1, <1>3, <1>5, QueueParts
  <1>8. (fromFifo \o bytes) \o rest = fromFifo \o (bytes \o rest)
    <2>1. fromFifo \in Seq(Nat) /\ bytes \in Seq(Nat) /\ rest \in Seq(Nat)
      BY <1>1, <1>3
    <2> QED
      BY <2>1, QueueAssoc, Zenon
  <1>9. fromFifo' \o inFifo' = intoFifo'
    BY <1>1, <1>3, <1>5, <1>8
  <1>10. n \in 0..Len(fromFifo') /\ n <= Len(readerBuf')
    BY <1>2, <1>6, <1>7
  <1>11. LastRead(n)'
    <2>1. Len(fromFifo') - n = m /\ Len(fromFifo') - n + 1 = m + 1
      BY <1>2, <1>7
    <2>2. Covers(fifoPrinted', fromFifo)
      BY <1>1, <1>5
    <2> HIDE DEF m
    <2> QED
      BY <1>6, <1>7, <1>10, <2>1, <2>2 DEF LastRead
  <1>12. path' \in {"none", "writer", "earlier"}
    BY DEF FifoInv, ReaderReads
  <1>14. {inFifo', writerBuf', readerBuf', intoFifo', fromFifo', fifoPrinted'} \subseteq Seq(Nat)
         /\ bytesIn' \in Nat
    BY <1>1, <1>3, <1>5, <1>6, <1>7
  <1>13. readerPc' = "print"
    BY <1>5
  <1> QED
    BY <1>9, <1>10, <1>11, <1>12, <1>13, <1>14 DEF FifoInv

\* All that the buffer holds is printed.
LEMMA FifoPrintInv == FifoInv /\ ReaderPrints => FifoInv'
  <1> SUFFICES ASSUME FifoInv, ReaderPrints PROVE FifoInv'
    OBVIOUS
  <1>1. /\ readerBuf \in Seq(Nat) /\ fromFifo \in Seq(Nat) /\ fifoPrinted \in Seq(Nat)
        /\ readerPc = "print"
    BY DEF FifoInv, ReaderPrints
  <1>2. PICK n \in 0..Len(fromFifo) : LastRead(n)
    BY <1>1 DEF FifoInv
  <1> DEFINE m == Len(fromFifo) - n
             front == SubSeq(fromFifo, 1, m)
             bytes == SubSeq(fromFifo, m + 1, Len(fromFifo))
             rest == SubSeq(readerBuf, n + 1, Len(readerBuf))
  <1>3. m \in 0..Len(fromFifo) /\ n \in 0..Len(readerBuf)
    BY <1>1, <1>2 DEF LastRead
  <1>4. SubSeq(readerBuf, 1, n) = bytes /\ Covers(fifoPrinted, front)
    BY <1>2 DEF LastRead
  <1> HIDE DEF m
  <1>5. front \in Seq(Nat) /\ bytes \in Seq(Nat) /\ fromFifo = front \o bytes
    <2>1. fromFifo \in Seq(Nat) /\ m \in 0..Len(fromFifo)
      BY <1>1, <1>3
    <2> QED
      BY <2>1, QueueSplit, Zenon
  <1>6. rest \in Seq(Nat) /\ readerBuf = bytes \o rest
    <2>1. readerBuf \in Seq(Nat) /\ n \in 0..Len(readerBuf)
      BY <1>1, <1>3
    <2>2. rest \in Seq(Nat) /\ SubSeq(readerBuf, 1, n) \o rest = readerBuf
      BY <2>1, QueueSplit, Zenon
    <2> QED
      BY <1>4, <2>2
  <1> HIDE DEF front, bytes, rest
  <1>7. Covers(fifoPrinted \o (bytes \o rest), front \o bytes)
    BY <1>1, <1>4, <1>5, <1>6, CoversMore
  <1>8. Covers(fifoPrinted', fromFifo')
    BY <1>5, <1>6, <1>7 DEF ReaderPrints
  <1>9. fifoPrinted' \in Seq(Nat) /\ readerPc' = "read"
    BY <1>1 DEF ReaderPrints
  <1> QED
    BY <1>8, <1>9 DEF FifoInv, ReaderPrints

\* Every step keeps the invariant.
LEMMA FifoNextInv == FifoInv /\ [FifoNext]_fifoVars => FifoInv'
  <1> SUFFICES ASSUME FifoInv, [FifoNext]_fifoVars PROVE FifoInv'
    OBVIOUS
  <1>1. CASE UNCHANGED <<inFifo, readerBuf, intoFifo, fromFifo, fifoPrinted, writerBuf, bytesIn>>
             /\ readerPc # "print" /\ readerPc' # "print" /\ path' = path
    BY <1>1 DEF FifoInv
  <1>2. CASE UNCHANGED <<inFifo, readerPc, readerBuf, intoFifo, fromFifo, fifoPrinted>>
             /\ writerBuf' \in Seq(Nat) /\ bytesIn' \in Nat
             /\ path' \in {"none", "writer", "earlier"}
    BY <1>2 DEF FifoInv, LastRead
  <1>3. CASE WriterWrites
    <2>1. CASE UNCHANGED <<inFifo, intoFifo>>
      BY <1>2, <1>3, <2>1 DEF WriterWrites, FifoInv
    <2>2. CASE inFifo' = inFifo \o writerBuf /\ intoFifo' = intoFifo \o writerBuf
      <3>1. /\ inFifo \in Seq(Nat) /\ writerBuf \in Seq(Nat) /\ fromFifo \in Seq(Nat)
            /\ intoFifo \in Seq(Nat) /\ fromFifo \o inFifo = intoFifo
            /\ UNCHANGED <<readerPc, writerBuf, readerBuf, bytesIn, fromFifo, fifoPrinted, path>>
        BY <1>3 DEF WriterWrites, FifoInv
      <3>2. fromFifo \o (inFifo \o writerBuf) = (fromFifo \o inFifo) \o writerBuf
        BY <3>1, QueueAssoc, Zenon
      <3>3. inFifo' \in Seq(Nat) /\ intoFifo' \in Seq(Nat) /\ fromFifo' \o inFifo' = intoFifo'
        BY <2>2, <3>1, <3>2
      <3> QED
        BY <3>1, <3>3 DEF FifoInv, LastRead
    <2> QED
      BY <1>3, <2>1, <2>2 DEF WriterWrites
  <1>4. CASE WriterReads
    <2>1. PICK n \in (IF chunks < MaxChunks THEN 1..ChunkLen ELSE {}) \cup {0} :
             /\ writerBuf' = IF n = 0 THEN writerBuf ELSE [k \in 1..n |-> bytesIn + k]
             /\ bytesIn' = bytesIn + n
      BY <1>4 DEF WriterReads
    <2>2. n \in Nat /\ bytesIn \in Nat /\ writerBuf \in Seq(Nat)
      BY FifoAssumption DEF FifoInv
    <2>3. writerBuf' \in Seq(Nat) /\ bytesIn' \in Nat
      BY <2>1, <2>2
    <2> QED
      BY <1>2, <1>4, <2>3 DEF WriterReads, FifoInv
  <1>5. CASE ReaderReads
    BY <1>5, FifoReadInv
  <1>6. CASE ReaderPrints
    BY <1>6, FifoPrintInv
  <1>7. CASE WriterMakes \/ WriterOpenFails \/ WriterReadFails \/ WriterUnlinks
    BY <1>2, <1>7
    DEF WriterMakes, WriterOpenFails, WriterReadFails, WriterUnlinks, RemovesName, FifoInv
  <1>8. CASE ReaderOpens \/ ReaderEnds \/ ReaderReadFails \/ ReaderOpenFails \/ FifoOpens
    <2>1. /\ UNCHANGED <<inFifo, readerBuf, intoFifo, fromFifo, fifoPrinted, writerBuf, bytesIn>>
          /\ readerPc # "print" /\ path' = path
      BY <1>8 DEF ReaderOpens, ReaderEnds, ReaderReadFails, ReaderOpenFails, FifoOpens
    <2>2. readerPc' # "print"
      BY <1>8 DEF ReaderOpens, ReaderEnds, ReaderReadFails, ReaderOpenFails, FifoOpens, FifoInv
    <2> QED
      BY <1>1, <2>1, <2>2
  <1>9. CASE UNCHANGED fifoVars
    BY <1>2, <1>9 DEF fifoVars, FifoInv
  <1> QED
    BY <1>3, <1>4, <1>5, <1>6, <1>7, <1>8, <1>9 DEF FifoNext, FifoWriter, FifoReader, FifoFails

\* What the invariant says of the reader's output.
LEMMA FifoPrints == FifoInv => PrintsWhatIsRead
  <1> SUFFICES ASSUME FifoInv, readerPc \in {"read", "end"}
               PROVE  /\ Len(fifoPrinted) >= Len(fromFifo)
                      /\ Len(fifoPrinted) = Len(fromFifo) => fifoPrinted = fromFifo
                      /\ ToSet(fromFifo) \subseteq ToSet(fifoPrinted)
                      /\ IsPrefix(fromFifo, intoFifo)
    BY DEF PrintsWhatIsRead
  <1>1. /\ fromFifo \in Seq(Nat) /\ fifoPrinted \in Seq(Nat) /\ inFifo \in Seq(Nat)
        /\ fromFifo \o inFifo = intoFifo /\ Covers(fifoPrinted, fromFifo)
    BY DEF FifoInv
  <1>2. Len(fifoPrinted) >= Len(fromFifo)
        /\ (Len(fifoPrinted) = Len(fromFifo) => fifoPrinted = fromFifo)
    BY <1>1 DEF Covers
  <1>3. ToSet(fromFifo) \subseteq ToSet(fifoPrinted)
    <2>1. DOMAIN fromFifo = 1..Len(fromFifo) /\ DOMAIN fifoPrinted = 1..Len(fifoPrinted)
      BY <1>1
    <2>2. \A i \in 1..Len(fromFifo) : \E j \in 1..Len(fifoPrinted) : fifoPrinted[j] = fromFifo[i]
      BY <1>1 DEF Covers
    <2> QED
      BY <2>1, <2>2, Zenon DEF ToSet
  <1>4. IsPrefix(fromFifo, intoFifo)
    <2>1. Len(fromFifo) <= Len(intoFifo)
      BY <1>1
    <2>2. SubSeq(fromFifo, 1, Len(fromFifo)) = SubSeq(intoFifo, 1, Len(fromFifo))
      BY <1>1
    <2> QED
      BY <2>1, <2>2 DEF IsPrefix
  <1> QED
    BY <1>2, <1>3, <1>4

-----------------------------------------------------------------------------
(* TaskPool.                                                               *)

\* The ring's indices: no task comes after one that went round.
LEMMA TaskSlot ==
    ASSUME NEW k \in 0..(MAX_TASK - 1)
    PROVE  k % MAX_TASK = k
  BY TaskAssumption, SMT

\* The index behind another.
LEMMA TaskSlotNext ==
    ASSUME NEW k \in 0..(MAX_TASK - 1)
    PROVE  ((k % MAX_TASK) + 1) % MAX_TASK = (k + 1) % MAX_TASK
  BY TaskAssumption, TaskSlot

\* The index of any number.
LEMMA TaskSlotRange ==
    ASSUME NEW k \in Nat
    PROVE  k % MAX_TASK \in 0..(MAX_TASK - 1)
  BY TaskAssumption, SMT

\* The numbers of tasks.
LEMMA TaskNumbers ==
    ASSUME TaskInv
    PROVE  /\ TasksPushed \in 0..MAX_TASK /\ TasksPopped \in 0..TasksPushed
           /\ taskQueue.size \in 0..MAX_TASK /\ taskQueue.size = TasksPushed - TasksPopped
           /\ nextTask = TasksPushed + 1 /\ MAX_TASK \in Nat \ {0}
           /\ taskHeld \in [PoolWorkers -> Tasks \cup {NoTask}]
           /\ Tasks = 1..MAX_TASK /\ NoTask = 0
  <1>1. /\ nextTask \in 1..(MAX_TASK + 1) /\ taskQueue.size \in 0..MAX_TASK
        /\ taskHeld \in [PoolWorkers -> Tasks \cup {NoTask}] /\ MAX_TASK \in Nat \ {0}
    BY TaskAssumption DEF TaskInv, TaskTypeOK
  <1>2. TasksPopped >= 0
    BY DEF TaskInv
  <1> QED
    BY <1>1, <1>2 DEF TasksPushed, TasksPopped, Tasks, NoTask

\* What the ring holds: the tasks that were pushed and not popped, in order.
LEMMA TaskQueuedIs ==
    TaskInv => TaskQueued = [k \in 1..(TasksPushed - TasksPopped) |-> TasksPopped + k]
  <1> SUFFICES ASSUME TaskInv, NEW k \in 1..(TasksPushed - TasksPopped)
               PROVE  taskQueue.queue[(taskQueue.front + k - 1) % MAX_TASK] = TasksPopped + k
    BY TaskNumbers DEF TaskQueued
  <1> USE TaskNumbers
  <1>1. TasksPopped \in 0..(MAX_TASK - 1) /\ TasksPopped + k - 1 \in 0..(MAX_TASK - 1)
    OBVIOUS
  <1>2. taskQueue.front = TasksPopped
    BY <1>1, TaskSlot DEF TaskInv
  <1>3. (taskQueue.front + k - 1) % MAX_TASK = TasksPopped + k - 1
    BY <1>1, <1>2, TaskSlot
  <1>4. \A t \in 1..TasksPushed : taskQueue.queue[t - 1] = t
    BY DEF TaskInv
  <1>5. TasksPopped + k \in 1..TasksPushed /\ (TasksPopped + k) - 1 = TasksPopped + k - 1
    BY <1>1
  <1> QED
    BY <1>3, <1>4, <1>5

\* The first state.
LEMMA TaskInitInv == TaskInit => TaskInv
  <1> SUFFICES ASSUME TaskInit PROVE TaskInv
    OBVIOUS
  <1>1. TasksPushed = 0 /\ TasksPopped = 0
    BY DEF TaskInit, TasksPushed, TasksPopped
  <1>2. 0 % MAX_TASK = 0
    BY TaskAssumption, TaskSlot
  <1>3. TaskTypeOK
    <2>1. /\ taskQueue \in [queue : [0..(MAX_TASK - 1) -> Tasks \cup {NoTask}],
                            front : 0..(MAX_TASK - 1), rear : 0..(MAX_TASK - 1),
                            size  : 0..MAX_TASK]
      BY TaskAssumption DEF TaskInit
    <2>2. taskPc \in [PoolWorkers -> {"pop", "sleeping", "awake", "run", Absent}]
      BY DEF TaskInit
    <2>3. prepared \in BOOLEAN /\ refused \subseteq Tasks
      BY Zenon DEF TaskInit
    <2>4. nextTask \in 1..(MAX_TASK + 1)
      BY TaskAssumption DEF TaskInit
    <2>5. taskHeld \in [PoolWorkers -> Tasks \cup {NoTask}] /\ taskRuns \in [Tasks -> Nat]
      BY DEF TaskInit
    <2> QED
      BY <2>1, <2>2, <2>3, <2>4, <2>5 DEF TaskTypeOK
  <1>4. \A w \in PoolWorkers : taskHeld[w] = NoTask /\ taskPc[w] # "run"
    BY DEF TaskInit, Absent
  <1> QED
    BY <1>1, <1>2, <1>3, <1>4 DEF TaskInit, TaskInv, NoTaskRefused, NoTask

\* push finds a free slot: the one of the task's own number.
LEMMA TaskPushInv ==
    ASSUME TaskInv, TaskPush
    PROVE  /\ TaskInv' /\ nextTask \in Tasks /\ taskHeld' = taskHeld /\ ~prepared'
           /\ TasksPushed' = TasksPushed + 1 /\ TasksPopped' = TasksPopped
           /\ TasksPushed < MAX_TASK
  <1>1. /\ TasksPushed \in 0..(MAX_TASK - 1) /\ TasksPopped \in 0..TasksPushed
        /\ taskQueue.size = TasksPushed - TasksPopped /\ nextTask = TasksPushed + 1
        /\ nextTask \in Tasks /\ MAX_TASK \in Nat \ {0}
    BY TaskNumbers DEF TaskInv, TaskPush, Tasks
  <1>2. /\ ~QueueFull
        /\ taskQueue' = [taskQueue EXCEPT !.queue[taskQueue.rear] = nextTask,
                                          !.rear = (@ + 1) % MAX_TASK,
                                          !.size = @ + 1]
        /\ TaskSignal
        /\ nextTask' = nextTask + 1 /\ prepared' = FALSE
        /\ UNCHANGED <<refused, taskHeld, taskRuns>>
    BY <1>1 DEF TaskPush, QueueFull
  <1>3. /\ taskQueue \in [queue : [0..(MAX_TASK - 1) -> Tasks \cup {NoTask}],
                          front : 0..(MAX_TASK - 1), rear : 0..(MAX_TASK - 1),
                          size  : 0..MAX_TASK]
        /\ taskPc \in [PoolWorkers -> {"pop", "sleeping", "awake", "run", Absent}]
        /\ taskHeld \in [PoolWorkers -> Tasks \cup {NoTask}] /\ taskRuns \in [Tasks -> Nat]
        /\ refused = {}
    BY DEF TaskInv, TaskTypeOK, NoTaskRefused
  <1>4. /\ taskQueue.rear = TasksPushed /\ (TasksPushed + 1) % MAX_TASK = (taskQueue.rear + 1) % MAX_TASK
        /\ (taskQueue.rear + 1) % MAX_TASK \in 0..(MAX_TASK - 1)
    BY <1>1, TaskSlot, TaskSlotRange DEF TaskInv
  <1>5. /\ taskQueue'.queue = [taskQueue.queue EXCEPT ![taskQueue.rear] = nextTask]
        /\ taskQueue'.front = taskQueue.front
        /\ taskQueue'.rear = (taskQueue.rear + 1) % MAX_TASK
        /\ taskQueue'.size = taskQueue.size + 1
    BY <1>2, <1>3
  <1>6. TasksPushed' = TasksPushed + 1 /\ TasksPopped' = TasksPopped
    BY <1>1, <1>2, <1>5 DEF TasksPushed, TasksPopped
  <1>7. /\ taskPc' \in [PoolWorkers -> {"pop", "sleeping", "awake", "run", Absent}]
        /\ \A w \in PoolWorkers : taskPc'[w] = "run" <=> taskPc[w] = "run"
    BY <1>2, <1>3 DEF TaskSignal, Sleeping
  <1>8. taskQueue' \in [queue : [0..(MAX_TASK - 1) -> Tasks \cup {NoTask}],
                        front : 0..(MAX_TASK - 1), rear : 0..(MAX_TASK - 1),
                        size  : 0..MAX_TASK]
    <2>1. taskQueue.size + 1 \in 0..MAX_TASK
      BY <1>1
    <2> QED
      BY <1>1, <1>2, <1>3, <1>4, <2>1
  <1>9. TaskTypeOK'
    <2>1. nextTask' \in 1..(MAX_TASK + 1)
      BY <1>1, <1>2
    <2>2. prepared' \in BOOLEAN /\ refused' \subseteq Tasks
      BY <1>2, <1>3, Zenon
    <2>3. taskHeld' \in [PoolWorkers -> Tasks \cup {NoTask}] /\ taskRuns' \in [Tasks -> Nat]
      BY <1>2, <1>3
    <2> QED
      BY <1>7, <1>8, <2>1, <2>2, <2>3 DEF TaskTypeOK
  <1>10. \A k \in 1..(TasksPushed + 1) : taskQueue'.queue[k - 1] = k
    <2> SUFFICES ASSUME NEW k \in 1..(TasksPushed + 1) PROVE taskQueue'.queue[k - 1] = k
      OBVIOUS
    <2>1. CASE k = TasksPushed + 1
      BY <2>1, <1>1, <1>3, <1>4, <1>5
    <2>2. CASE k \in 1..TasksPushed
      <3>1. k - 1 # taskQueue.rear /\ k - 1 \in 0..(MAX_TASK - 1)
        BY <2>2, <1>1, <1>4
      <3>2. taskQueue.queue[k - 1] = k
        BY <2>2 DEF TaskInv
      <3> QED
        BY <3>1, <3>2, <1>3, <1>5
    <2> QED
      BY <2>1, <2>2, <1>1
  <1>11. TaskInv'
    BY <1>1, <1>2, <1>3, <1>4, <1>5, <1>6, <1>7, <1>9, <1>10 DEF TaskInv, NoTaskRefused
  <1> QED
    BY <1>1, <1>2, <1>6, <1>11

\* pop takes the task whose number comes next.
LEMMA TaskPopInv ==
    ASSUME TaskInv, NEW w \in PoolWorkers, TaskPop(w), MayPop(w)
    PROVE  /\ TaskInv' /\ TasksPushed' = TasksPushed /\ TasksPopped' = TasksPopped + 1
           /\ TasksPopped < TasksPushed /\ taskHeld[w] = NoTask
           /\ taskHeld' = [taskHeld EXCEPT ![w] = TasksPopped + 1]
           /\ nextTask' = nextTask /\ prepared' = prepared
  <1>1. /\ TasksPushed \in 0..MAX_TASK /\ TasksPopped \in 0..(MAX_TASK - 1)
        /\ taskQueue.size = TasksPushed - TasksPopped /\ TasksPopped < TasksPushed
        /\ taskQueue.size \in 1..MAX_TASK
        /\ nextTask = TasksPushed + 1 /\ MAX_TASK \in Nat \ {0}
    BY TaskNumbers DEF MayPop
  <1>2. /\ taskHeld' = [taskHeld EXCEPT ![w] = taskQueue.queue[taskQueue.front]]
        /\ taskQueue' = [taskQueue EXCEPT !.front = (@ + 1) % MAX_TASK, !.size = @ - 1]
        /\ taskPc' = [taskPc EXCEPT ![w] = "run"] /\ taskPc[w] # "run"
        /\ UNCHANGED <<nextTask, prepared, refused, taskRuns>>
    BY DEF TaskPop
  <1>3. /\ taskQueue \in [queue : [0..(MAX_TASK - 1) -> Tasks \cup {NoTask}],
                          front : 0..(MAX_TASK - 1), rear : 0..(MAX_TASK - 1),
                          size  : 0..MAX_TASK]
        /\ taskPc \in [PoolWorkers -> {"pop", "sleeping", "awake", "run", Absent}]
        /\ taskHeld \in [PoolWorkers -> Tasks \cup {NoTask}] /\ taskRuns \in [Tasks -> Nat]
        /\ refused = {}
    BY DEF TaskInv, TaskTypeOK, NoTaskRefused
  <1>4. /\ taskQueue.front = TasksPopped
        /\ (TasksPopped + 1) % MAX_TASK = (taskQueue.front + 1) % MAX_TASK
        /\ (taskQueue.front + 1) % MAX_TASK \in 0..(MAX_TASK - 1)
    BY <1>1, TaskSlot, TaskSlotRange DEF TaskInv
  <1>5. taskQueue.queue[taskQueue.front] = TasksPopped + 1
    <2>1. TasksPopped + 1 \in 1..TasksPushed /\ (TasksPopped + 1) - 1 = TasksPopped
      BY <1>1
    <2> QED
      BY <2>1, <1>4 DEF TaskInv
  <1>6. /\ taskQueue'.queue = taskQueue.queue /\ taskQueue'.rear = taskQueue.rear
        /\ taskQueue'.front = (taskQueue.front + 1) % MAX_TASK
        /\ taskQueue'.size = taskQueue.size - 1
    BY <1>2, <1>3
  <1>7. TasksPushed' = TasksPushed /\ TasksPopped' = TasksPopped + 1
    BY <1>1, <1>2, <1>6 DEF TasksPushed, TasksPopped
  <1>8. taskQueue' \in [queue : [0..(MAX_TASK - 1) -> Tasks \cup {NoTask}],
                        front : 0..(MAX_TASK - 1), rear : 0..(MAX_TASK - 1),
                        size  : 0..MAX_TASK]
    <2>1. taskQueue.size - 1 \in 0..MAX_TASK
      BY <1>1
    <2> QED
      BY <1>2, <1>3, <1>4, <2>1
  <1>9. /\ taskHeld' = [taskHeld EXCEPT ![w] = TasksPopped + 1]
        /\ TasksPopped + 1 \in Tasks
        /\ taskHeld[w] = NoTask
    BY <1>1, <1>2, <1>5 DEF TaskInv, Tasks
  <1>10. TaskTypeOK'
    <2>1. taskPc' \in [PoolWorkers -> {"pop", "sleeping", "awake", "run", Absent}]
      BY <1>2, <1>3
    <2>2. taskHeld' \in [PoolWorkers -> Tasks \cup {NoTask}]
      BY <1>3, <1>9
    <2>3. nextTask' \in 1..(MAX_TASK + 1) /\ prepared' \in BOOLEAN /\ refused' \subseteq Tasks
          /\ taskRuns' \in [Tasks -> Nat]
      BY <1>2 DEF TaskInv, TaskTypeOK
    <2> QED
      BY <1>8, <2>1, <2>2, <2>3 DEF TaskTypeOK
  <1>11. /\ \A v \in PoolWorkers : taskHeld'[v] <= TasksPopped + 1
         /\ \A v \in PoolWorkers : taskPc'[v] = "run" <=> taskHeld'[v] # NoTask
         /\ \A v, u \in PoolWorkers :
              v # u /\ taskHeld'[v] # NoTask => taskHeld'[v] # taskHeld'[u]
    <2>1. \A v \in PoolWorkers : taskHeld[v] <= TasksPopped /\ taskHeld[v] \in Nat
      BY <1>3 DEF TaskInv, Tasks, NoTask
    <2>2. \A v \in PoolWorkers : taskPc[v] = "run" <=> taskHeld[v] # NoTask
      BY DEF TaskInv
    <2>3. \A v, u \in PoolWorkers : v # u /\ taskHeld[v] # NoTask => taskHeld[v] # taskHeld[u]
      BY DEF TaskInv
    <2>4. /\ taskHeld'[w] = TasksPopped + 1
          /\ \A v \in PoolWorkers : v # w => taskHeld'[v] = taskHeld[v] /\ taskPc'[v] = taskPc[v]
          /\ taskPc'[w] = "run"
      BY <1>2, <1>3, <1>9
    <2> QED
      BY <1>1, <2>1, <2>2, <2>3, <2>4 DEF NoTask
  <1>12. TaskInv'
    <2>1. NoTaskRefused' /\ TasksPopped' >= 0 /\ (prepared' => nextTask' \in Tasks')
      BY <1>1, <1>2, <1>3, <1>7 DEF TaskInv, NoTaskRefused, Tasks
    <2>2. taskQueue'.front = TasksPopped' % MAX_TASK
      BY <1>4, <1>6, <1>7
    <2>3. taskQueue'.rear = TasksPushed' % MAX_TASK
      BY <1>6, <1>7 DEF TaskInv
    <2>4. \A t \in 1..TasksPushed' : taskQueue'.queue[t - 1] = t
      BY <1>6, <1>7 DEF TaskInv
    <2>5. \A v \in PoolWorkers : taskHeld'[v] <= TasksPopped'
      BY <1>7, <1>11
    <2> QED
      BY <1>10, <1>11, <2>1, <2>2, <2>3, <2>4, <2>5 DEF TaskInv
  <1> QED
    BY <1>1, <1>2, <1>7, <1>9, <1>12

\* The other steps leave the ring alone.
LEMMA TaskQuietInv ==
    ASSUME TaskInv,
           \/ TaskPrepare
           \/ \E w \in PoolWorkers : (TaskPop(w) /\ ~MayPop(w)) \/ TaskRun(w) \/ TaskSpurious(w)
           \/ UNCHANGED taskVars
    PROVE  TaskInv' /\ taskQueue' = taskQueue /\ nextTask' = nextTask
  <1>1. /\ taskPc \in [PoolWorkers -> {"pop", "sleeping", "awake", "run", Absent}]
        /\ taskHeld \in [PoolWorkers -> Tasks \cup {NoTask}] /\ taskRuns \in [Tasks -> Nat]
        /\ \A w \in PoolWorkers : taskPc[w] = "run" <=> taskHeld[w] # NoTask
    BY DEF TaskInv, TaskTypeOK
  <1>2. CASE TaskPrepare
    BY <1>2 DEF TaskPrepare, TaskInv, TaskTypeOK, NoTaskRefused, TasksPushed, TasksPopped
  <1>3. ASSUME NEW w \in PoolWorkers, (TaskPop(w) /\ ~MayPop(w)) \/ TaskSpurious(w)
        PROVE  TaskInv' /\ taskQueue' = taskQueue /\ nextTask' = nextTask
    <2>1. /\ taskPc' = [taskPc EXCEPT ![w] = "sleeping"] \/ taskPc' = [taskPc EXCEPT ![w] = "awake"]
          /\ taskPc[w] # "run"
          /\ UNCHANGED <<taskQueue, nextTask, prepared, refused, taskHeld, taskRuns>>
      BY <1>3 DEF TaskPop, TaskSpurious
    <2>2. /\ taskPc' \in [PoolWorkers -> {"pop", "sleeping", "awake", "run", Absent}]
          /\ \A v \in PoolWorkers : taskPc'[v] = "run" <=> taskPc[v] = "run"
      BY <1>1, <2>1
    <2> QED
      BY <2>1, <2>2 DEF TaskInv, TaskTypeOK, NoTaskRefused, TasksPushed, TasksPopped
  <1>4. ASSUME NEW w \in PoolWorkers, TaskRun(w)
        PROVE  TaskInv' /\ taskQueue' = taskQueue /\ nextTask' = nextTask
    <2>1. /\ taskHeld' = [taskHeld EXCEPT ![w] = NoTask]
          /\ taskPc' = [taskPc EXCEPT ![w] = "pop"]
          /\ UNCHANGED <<taskQueue, nextTask, prepared, refused>>
          /\ taskRuns' = [taskRuns EXCEPT ![taskHeld[w]] = @ + 1]
          /\ taskHeld[w] \in Tasks
      BY <1>1, <1>4 DEF TaskRun
    <2>2. /\ taskPc' \in [PoolWorkers -> {"pop", "sleeping", "awake", "run", Absent}]
          /\ taskHeld' \in [PoolWorkers -> Tasks \cup {NoTask}]
          /\ taskPc'[w] = "pop" /\ taskHeld'[w] = NoTask
          /\ \A v \in PoolWorkers : v # w => taskPc'[v] = taskPc[v] /\ taskHeld'[v] = taskHeld[v]
      BY <1>1, <2>1
    <2>3. taskRuns' \in [Tasks -> Nat]
      BY <1>1, <2>1
    <2>4. TaskTypeOK'
      BY <2>1, <2>2, <2>3 DEF TaskInv, TaskTypeOK
    <2>5. TasksPopped' = TasksPopped /\ TasksPushed' = TasksPushed /\ TasksPopped \in Nat
      BY <2>1, TaskNumbers DEF TasksPushed, TasksPopped
    <2>6. \A v \in PoolWorkers :
            /\ taskHeld'[v] <= TasksPopped
            /\ taskPc'[v] = "run" <=> taskHeld'[v] # NoTask
      BY <1>1, <2>2, <2>5 DEF TaskInv, NoTask
    <2>7. \A v, u \in PoolWorkers :
            v # u /\ taskHeld'[v] # NoTask => taskHeld'[v] # taskHeld'[u]
      BY <2>2 DEF TaskInv
    <2> QED
      BY <2>1, <2>4, <2>5, <2>6, <2>7 DEF TaskInv, NoTaskRefused
  <1>5. CASE UNCHANGED taskVars
    BY <1>5 DEF taskVars, TaskInv, TaskTypeOK, NoTaskRefused, TasksPushed, TasksPopped
  <1> QED
    BY <1>2, <1>3, <1>4, <1>5

\* Every step keeps the invariant.
LEMMA TaskNextInv == TaskInv /\ [TaskNext]_taskVars => TaskInv'
  BY TaskPushInv, TaskPopInv, TaskQuietInv DEF TaskNext, TaskMain, TaskWorker

\* What the hand-over of TaskPool offers and serves.
TaskOffered == IF prepared THEN {nextTask} ELSE {}
TaskServing == {taskHeld[w] : w \in PoolWorkers} \ {NoTask}

\* A run of numbers is a queue, its head the first of them, its tail the rest, and
\* what comes next is appended to it.
LEMMA NumberQueue ==
    ASSUME NEW p \in Nat, NEW n \in Nat
    PROVE  LET Numbers(m, k) == [i \in 1..k |-> m + i] IN
           /\ Numbers(p, n) \in Seq(Nat) /\ Len(Numbers(p, n)) = n
           /\ \A i \in 1..n : Numbers(p, n)[i] = p + i
           /\ Append(Numbers(p, n), p + n + 1) = Numbers(p, n + 1)
           /\ n > 0 => /\ Numbers(p, n) # <<>> /\ Head(Numbers(p, n)) = p + 1
                       /\ Tail(Numbers(p, n)) = Numbers(p + 1, n - 1)
  <1> DEFINE Numbers(m, k) == [i \in 1..k |-> m + i]
             Q == Numbers(p, n)
             A == Numbers(p, n + 1)
             T == Numbers(p + 1, n - 1)
  <1>1. Q \in Seq(Nat) /\ Len(Q) = n /\ \A i \in 1..n : Q[i] = p + i
    OBVIOUS
  <1>2. A \in Seq(Nat) /\ Len(A) = n + 1 /\ \A i \in 1..(n + 1) : A[i] = p + i
    OBVIOUS
  <1>3. n > 0 => T \in Seq(Nat) /\ Len(T) = n - 1 /\ \A i \in 1..(n - 1) : T[i] = p + 1 + i
    OBVIOUS
  <1> HIDE DEF Q, A, T
  <1>4. Append(Q, p + n + 1) = A
    <2> DEFINE B == Append(Q, p + n + 1)
    <2>1. B \in Seq(Nat) /\ Len(B) = n + 1 /\ \A i \in 1..(n + 1) : B[i] = p + i
      BY <1>1
    <2> HIDE DEF B
    <2>2. B = A
      BY <1>2, <2>1, SeqEqual
    <2> QED
      BY <2>2 DEF B
  <1>5. ASSUME n > 0 PROVE Q # <<>> /\ Head(Q) = p + 1 /\ Tail(Q) = T
    <2>1. Q # <<>> /\ Head(Q) = Q[1]
      BY <1>1, <1>5
    <2> DEFINE B == Tail(Q)
    <2>2. B \in Seq(Nat) /\ Len(B) = n - 1 /\ \A i \in 1..(n - 1) : B[i] = Q[i + 1]
      BY <1>1, <1>5, <2>1, HeadTailProperties
    <2> HIDE DEF B
    <2>3. \A i \in 1..(n - 1) : B[i] = p + 1 + i
      BY <1>1, <2>2
    <2>4. B = T
      BY <1>3, <1>5, <2>2, <2>3, SeqEqual
    <2> QED
      BY <1>1, <1>5, <2>1, <2>4 DEF B
  <1> QED
    BY <1>1, <1>4, <1>5 DEF Q, A, T

\* push is Enqueue of the hand-over.
LEMMA TaskEnqueues ==
    ASSUME TaskInv, TaskPush
    PROVE  TaskHandOff!Enqueue(nextTask) /\ nextTask \in Tasks
  <1> USE TaskNumbers
  <1>1. /\ TaskInv' /\ nextTask \in Tasks /\ taskHeld' = taskHeld /\ ~prepared'
        /\ TasksPushed' = TasksPushed + 1 /\ TasksPopped' = TasksPopped
        /\ TasksPushed < MAX_TASK
    BY TaskPushInv
  <1>2. PICK p, n \in Nat : p = TasksPopped /\ n = TasksPushed - TasksPopped
    OBVIOUS
  <1>3. TaskQueued = [k \in 1..n |-> p + k] /\ nextTask = p + n + 1 /\ n < MAX_TASK
    BY <1>1, <1>2, TaskQueuedIs
  <1>4. TaskQueued' = [k \in 1..(n + 1) |-> p + k]
    <2>1. (TaskQueued = [k \in 1..(TasksPushed - TasksPopped) |-> TasksPopped + k])'
      BY <1>1, TaskQueuedIs, PTL
    <2>2. TasksPushed' - TasksPopped' = n + 1 /\ TasksPopped' = p
      BY <1>1, <1>2
    <2> QED
      BY <2>1, <2>2
  <1>5. Append(TaskQueued, nextTask) = TaskQueued' /\ Len(TaskQueued) = n
    BY <1>2, <1>3, <1>4, NumberQueue
  <1>6. TaskOffered = {nextTask} /\ TaskOffered' = {} /\ TaskServing' = TaskServing
    BY <1>1 DEF TaskPush, TaskOffered, TaskServing
  <1> QED
    BY <1>1, <1>3, <1>5, <1>6 DEF TaskHandOff!Enqueue, TaskOffered, TaskServing

\* pop of a task is Dequeue of the hand-over.
LEMMA TaskDequeues ==
    ASSUME TaskInv, NEW w \in PoolWorkers, TaskPop(w), MayPop(w)
    PROVE  TaskHandOff!Dequeue
  <1> USE TaskNumbers
  <1>1. /\ TaskInv' /\ TasksPushed' = TasksPushed /\ TasksPopped' = TasksPopped + 1
        /\ TasksPopped < TasksPushed /\ taskHeld[w] = NoTask
        /\ taskHeld' = [taskHeld EXCEPT ![w] = TasksPopped + 1]
        /\ nextTask' = nextTask /\ prepared' = prepared
    BY TaskPopInv
  <1>2. PICK p, n \in Nat : p = TasksPopped /\ n = TasksPushed - TasksPopped
    OBVIOUS
  <1>3. TaskQueued = [k \in 1..n |-> p + k] /\ n > 0
    BY <1>1, <1>2, TaskQueuedIs
  <1>4. TaskQueued' = [k \in 1..(n - 1) |-> p + 1 + k]
    <2>1. (TaskQueued = [k \in 1..(TasksPushed - TasksPopped) |-> TasksPopped + k])'
      BY <1>1, TaskQueuedIs, PTL
    <2>2. TasksPushed' - TasksPopped' = n - 1 /\ TasksPopped' = p + 1
      BY <1>1, <1>2
    <2> QED
      BY <2>1, <2>2
  <1>5. TaskQueued # <<>> /\ Tail(TaskQueued) = TaskQueued' /\ Head(TaskQueued) = p + 1
    BY <1>2, <1>3, <1>4, NumberQueue
  <1>6. TaskOffered' = TaskOffered
    BY <1>1 DEF TaskOffered
  <1>7. TaskServing' = TaskServing \cup {p + 1}
    <2>1. taskHeld'[w] = p + 1 /\ p + 1 # NoTask
          /\ \A v \in PoolWorkers : v # w => taskHeld'[v] = taskHeld[v]
      BY <1>1, <1>2
    <2> QED
      BY <1>1, <2>1 DEF TaskServing
  <1> QED
    BY <1>5, <1>6, <1>7 DEF TaskHandOff!Dequeue, TaskOffered, TaskServing

\* What the hand-over's variables hold, by name.
LEMMA TaskQuietHandOff ==
    ASSUME UNCHANGED <<taskQueue, nextTask, prepared, taskHeld>>
    PROVE  UNCHANGED TaskHandOff!vars
  BY DEF TaskHandOff!vars, TaskQueued

\* Every step of the pool is a step of the hand-over, or none.
LEMMA TaskRefines ==
    ASSUME TaskInv, [TaskNext]_taskVars
    PROVE  [TaskHandOff!Next]_TaskHandOff!vars
  <1>1. CASE TaskPrepare
    <2> USE TaskNumbers
    <2>1. TaskOffered = {} /\ TaskOffered' = {nextTask} /\ nextTask \in Tasks
      BY <1>1 DEF TaskPrepare, TaskOffered
    <2>2. TaskQueued' = TaskQueued /\ TaskServing' = TaskServing
      BY <1>1 DEF TaskPrepare, TaskQueued, TaskServing
    <2>3. nextTask \notin {TaskQueued[i] : i \in 1..Len(TaskQueued)}
      <3>1. PICK p, n \in Nat : p = TasksPopped /\ n = TasksPushed - TasksPopped
        OBVIOUS
      <3>2. TaskQueued = [k \in 1..n |-> p + k]
        BY <3>1, TaskQueuedIs
      <3>3. Len(TaskQueued) = n /\ \A i \in 1..n : TaskQueued[i] = p + i
        BY <3>1, <3>2, NumberQueue
      <3> QED
        BY <3>1, <3>3
    <2>4. nextTask \notin TaskServing
      <3>1. \A w \in PoolWorkers : taskHeld[w] <= TasksPopped
        BY DEF TaskInv
      <3>2. \A w \in PoolWorkers : taskHeld[w] # nextTask
        BY <3>1
      <3> QED
        BY <3>2 DEF TaskServing
    <2>5. TaskHandOff!Offer(nextTask)
      BY <2>1, <2>2, <2>3, <2>4
      DEF TaskHandOff!Offer, TaskHandOff!Queued, TaskOffered, TaskServing
    <2> QED
      BY <2>1, <2>5 DEF TaskHandOff!Next
  <1>2. CASE TaskPush
    BY <1>2, TaskEnqueues DEF TaskHandOff!Next
  <1>3. ASSUME NEW w \in PoolWorkers, TaskPop(w) PROVE [TaskHandOff!Next]_TaskHandOff!vars
    <2>1. CASE MayPop(w)
      BY <1>3, <2>1, TaskDequeues DEF TaskHandOff!Next
    <2>2. CASE ~MayPop(w)
      BY <1>3, <2>2, TaskQuietHandOff DEF TaskPop
    <2> QED
      BY <2>1, <2>2
  <1>4. ASSUME NEW w \in PoolWorkers, TaskRun(w) PROVE [TaskHandOff!Next]_TaskHandOff!vars
    <2>1. taskHeld[w] \in Tasks /\ taskHeld[w] # NoTask /\ taskHeld \in [PoolWorkers -> Tasks \cup {NoTask}]
      BY <1>4, TaskNumbers DEF TaskRun, TaskInv
    <2>2. taskHeld' = [taskHeld EXCEPT ![w] = NoTask]
          /\ UNCHANGED <<taskQueue, nextTask, prepared>>
      BY <1>4 DEF TaskRun
    <2>3. \A v \in PoolWorkers : v # w => taskHeld[v] # taskHeld[w]
      BY <2>1 DEF TaskInv
    <2>4. TaskServing' = TaskServing \ {taskHeld[w]} /\ taskHeld[w] \in TaskServing
      BY <2>1, <2>2, <2>3 DEF TaskServing
    <2>5. TaskQueued' = TaskQueued /\ TaskOffered' = TaskOffered
      BY <2>2 DEF TaskQueued, TaskOffered
    <2>6. \E x \in Tasks : TaskHandOff!Finish(x)
      BY <2>1, <2>4, <2>5 DEF TaskHandOff!Finish, TaskServing, TaskOffered
    <2> QED
      BY <2>6 DEF TaskHandOff!Next
  <1>5. ASSUME NEW w \in PoolWorkers, TaskSpurious(w) PROVE UNCHANGED TaskHandOff!vars
    BY <1>5, TaskQuietHandOff DEF TaskSpurious
  <1>6. CASE UNCHANGED taskVars
    BY <1>6, TaskQuietHandOff DEF taskVars
  <1> QED
    BY <1>1, <1>2, <1>3, <1>4, <1>5, <1>6 DEF TaskNext, TaskMain, TaskWorker

\* The hand-over starts empty.
LEMMA TaskInitRefines == TaskInit => TaskHandOff!Init
  <1> SUFFICES ASSUME TaskInit PROVE TaskHandOff!Init
    OBVIOUS
  <1>1. TaskQueued = <<>>
    BY DEF TaskInit, TaskQueued
  <1>2. \A w \in PoolWorkers : taskHeld[w] = NoTask
    BY DEF TaskInit
  <1>3. ~prepared
    BY DEF TaskInit
  <1> QED
    BY <1>1, <1>2, <1>3 DEF TaskHandOff!Init

-----------------------------------------------------------------------------
(* SemRing.                                                                *)

\* A slot number is an index of the ring.
LEMMA SlotRange ==
    ASSUME NEW m \in Nat
    PROVE  m % BUF_SIZE \in 0..(BUF_SIZE - 1)
  BY SemAssumption, SMT

\* What a number of rounds through the ring adds up to.
LEMMA RoundBound ==
    ASSUME NEW p \in Int, NEW q \in Int, p < q
    PROVE  BUF_SIZE * p + BUF_SIZE <= BUF_SIZE * q
  <1>1. BUF_SIZE * (q - p - 1) >= 0
    BY SemAssumption, SMT
  <1> QED
    BY <1>1, SemAssumption, SMT

\* Missions less than a round apart have different slots.
LEMMA SlotsDiffer ==
    ASSUME NEW m \in Nat, NEW n \in Nat, m < n, n - m < BUF_SIZE
    PROVE  m % BUF_SIZE # n % BUF_SIZE
  <1> DEFINE p == m \div BUF_SIZE
             q == n \div BUF_SIZE
  <1>1. p \in Int /\ m = (BUF_SIZE * p) + (m % BUF_SIZE)
    BY SemAssumption, SMT
  <1>2. q \in Int /\ n = (BUF_SIZE * q) + (n % BUF_SIZE)
    BY SemAssumption, SMT
  <1>3. SUFFICES ASSUME m % BUF_SIZE = n % BUF_SIZE PROVE FALSE
    OBVIOUS
  <1>4. m % BUF_SIZE \in Int /\ n % BUF_SIZE \in Int
    BY SlotRange
  <1> HIDE DEF p, q
  <1>5. CASE p < q
    <2>1. BUF_SIZE * p + BUF_SIZE <= BUF_SIZE * q
      BY <1>1, <1>2, <1>5, RoundBound
    <2> QED
      BY <1>1, <1>2, <1>3, <1>4, <2>1, SemAssumption
  <1>6. CASE q < p
    <2>1. BUF_SIZE * q + BUF_SIZE <= BUF_SIZE * p
      BY <1>1, <1>2, <1>6, RoundBound
    <2> QED
      BY <1>1, <1>2, <1>3, <1>4, <2>1, SemAssumption
  <1>7. CASE p = q
    BY <1>1, <1>2, <1>3, <1>7, SemAssumption
  <1> QED
    BY <1>1, <1>2, <1>5, <1>6, <1>7

\* The first state of SemRing.
LEMMA SemInitInv == SemInit => SemInv
  <1> SUFFICES ASSUME SemInit PROVE SemInv
    OBVIOUS
  <1> USE DEF SemInit
  <1>1. Written = 0 /\ Taken = 0
    BY DEF Written, Taken, Bit
  <1>2. SemTypeOK
    BY SemAssumption DEF SemTypeOK
  <1>3. SemAccounting
    BY SemAssumption DEF SemAccounting, Bit
  <1>4. SlotsKept /\ ShownInOrder
    BY <1>1 DEF SlotsKept, ShownInOrder
  <1> QED
    BY <1>2, <1>3, <1>4 DEF SemInv

\* A step that neither writes nor takes: slots and output stay, and what is left
\* to show is the accounting.
LEMMA SameRing ==
    ASSUME SemInv, UNCHANGED <<ringData, shown>>, Written' = Written, Taken' = Taken
    PROVE  SlotsKept' /\ ShownInOrder'
  BY DEF SemInv, SlotsKept, ShownInOrder

\* The producer writes only where the mission that was there has been taken.
LEMMA ProduceInv ==
    ASSUME SemInv, Produce
    PROVE  SemInv'
  <1> USE DEF SemInv, Produce
  <1>1. /\ prodI \in Nat /\ consI \in Nat /\ empty \in Nat
        /\ prodPc = "produce" /\ consPc \in {"wait", "consume", "post"}
    BY SemAssumption DEF SemTypeOK
  <1>2. prodI - consI < BUF_SIZE
    BY <1>1, SemAssumption DEF SemAccounting, Bit
  <1>3. /\ Written = prodI /\ Written' = prodI + 1
        /\ Taken' = Taken /\ Taken \in Nat /\ Taken >= consI
    BY <1>1 DEF Written, Taken, Bit
  <1>4. prodI % BUF_SIZE \in 0..(BUF_SIZE - 1)
    BY <1>1, SlotRange
  <1>5. SemTypeOK'
    BY <1>1, <1>4 DEF SemTypeOK
  <1>6. SemAccounting'
    BY <1>1 DEF SemAccounting, Bit
  <1>7. SlotsKept'
    <2> SUFFICES ASSUME NEW m \in Taken..prodI
                 PROVE  ringData'[m % BUF_SIZE] = m
      BY <1>1, <1>3 DEF SlotsKept
    <2>1. CASE m = prodI
      BY <2>1, <1>4 DEF SemTypeOK
    <2>2. CASE m # prodI
      <3>1. m \in Nat /\ m < prodI /\ prodI - m < BUF_SIZE /\ m \in Taken..(Written - 1)
        BY <2>2, <1>1, <1>2, <1>3, SemAssumption
      <3>2. m % BUF_SIZE # prodI % BUF_SIZE
        BY <3>1, <1>1, SlotsDiffer
      <3>3. ringData[m % BUF_SIZE] = m
        BY <3>1 DEF SlotsKept
      <3> QED
        BY <3>2, <3>3 DEF SemTypeOK
    <2> QED
      BY <2>1, <2>2
  <1>8. ShownInOrder'
    BY <1>3 DEF ShownInOrder
  <1> QED
    BY <1>5, <1>6, <1>7, <1>8

\* The consumer prints the mission whose turn it is, and clears no other.
LEMMA ConsumeInv ==
    ASSUME SemInv, Consume
    PROVE  SemInv'
  <1> USE DEF SemInv, Consume
  <1>1. /\ prodI \in Nat /\ consI \in Nat /\ empty \in Nat /\ full \in Nat
        /\ consPc = "consume" /\ prodPc \in {"wait", "produce", "post"}
    BY SemAssumption DEF SemTypeOK
  <1>2. /\ Taken = consI /\ Taken' = consI + 1
        /\ Written' = Written /\ Written \in Nat /\ Written >= prodI
    BY <1>1 DEF Written, Taken, Bit
  <1>3. consI < prodI
    BY <1>1 DEF SemAccounting, Bit
  <1>4. Written - consI <= BUF_SIZE
    BY <1>1, SemAssumption DEF SemAccounting, Written, Bit
  <1>5. consI % BUF_SIZE \in 0..(BUF_SIZE - 1) /\ ringData[consI % BUF_SIZE] = consI
    <2>1. consI \in Taken..(Written - 1)
      BY <1>1, <1>2, <1>3
    <2> QED
      BY <2>1, <1>1, SlotRange DEF SlotsKept
  <1>6. SemTypeOK'
    BY <1>1, <1>5 DEF SemTypeOK
  <1>7. SemAccounting'
    BY <1>1 DEF SemAccounting, Bit
  <1>8. SlotsKept'
    <2> SUFFICES ASSUME NEW m \in (consI + 1)..(Written - 1)
                 PROVE  ringData'[m % BUF_SIZE] = m
      BY <1>1, <1>2 DEF SlotsKept
    <2>1. m \in Nat /\ consI < m /\ m - consI < BUF_SIZE /\ m \in Taken..(Written - 1)
      BY <1>1, <1>2, <1>4, SemAssumption
    <2>2. consI % BUF_SIZE # m % BUF_SIZE
      BY <2>1, <1>1, SlotsDiffer
    <2>3. ringData[m % BUF_SIZE] = m
      BY <2>1 DEF SlotsKept
    <2> QED
      BY <2>2, <2>3 DEF SemTypeOK
  <1>9. ShownInOrder'
    BY <1>1, <1>2, <1>5 DEF ShownInOrder, SemTypeOK
  <1> QED
    BY <1>6, <1>7, <1>8, <1>9

\* Every step of the two threads keeps the inductive invariant.
LEMMA SemNextInv == SemInv /\ [SemNext]_semVars => SemInv'
  <1> SUFFICES ASSUME SemInv, [SemNext]_semVars PROVE SemInv'
    OBVIOUS
  <1>1. CASE ProducerWait
    <2>1. Written' = Written /\ Taken' = Taken
      BY <1>1 DEF ProducerWait, Written, Taken, Bit
    <2>2. SemTypeOK' /\ SemAccounting'
      BY <1>1, SemAssumption DEF SemInv, ProducerWait, SemTypeOK, SemAccounting, Bit
    <2> QED
      BY <1>1, <2>1, <2>2, SameRing DEF ProducerWait, SemInv
  <1>2. CASE Produce
    BY <1>2, ProduceInv
  <1>3. CASE ProducerPost
    <2>1. Written' = Written /\ Taken' = Taken
      BY <1>3 DEF ProducerPost, PostFull, Written, Taken, Bit, SemInv, SemTypeOK
    <2>2. SemTypeOK' /\ SemAccounting'
      BY <1>3, SemAssumption
      DEF SemInv, ProducerPost, PostFull, SemTypeOK, SemAccounting, Bit
    <2> QED
      BY <1>3, <2>1, <2>2, SameRing DEF ProducerPost, SemInv
  <1>4. CASE ConsumerWait
    <2>1. Written' = Written /\ Taken' = Taken
      BY <1>4 DEF ConsumerWait, Written, Taken, Bit
    <2>2. SemTypeOK' /\ SemAccounting'
      BY <1>4, SemAssumption DEF SemInv, ConsumerWait, SemTypeOK, SemAccounting, Bit
    <2> QED
      BY <1>4, <2>1, <2>2, SameRing DEF ConsumerWait, SemInv
  <1>5. CASE Consume
    BY <1>5, ConsumeInv
  <1>6. CASE ConsumerPost
    <2>1. Written' = Written /\ Taken' = Taken
      BY <1>6 DEF ConsumerPost, Written, Taken, Bit, SemInv, SemTypeOK
    <2>2. SemTypeOK' /\ SemAccounting'
      BY <1>6, SemAssumption DEF SemInv, ConsumerPost, SemTypeOK, SemAccounting, Bit
    <2> QED
      BY <1>6, <2>1, <2>2, SameRing DEF ConsumerPost, SemInv
  <1>7. CASE UNCHANGED semVars
    BY <1>7 DEF semVars, SemInv, SemTypeOK, SemAccounting, SlotsKept, ShownInOrder,
                Written, Taken
  <1> QED
    BY <1>1, <1>2, <1>3, <1>4, <1>5, <1>6, <1>7 DEF SemNext, SemProducer, SemConsumer

-----------------------------------------------------------------------------
(* All programs.                                                           *)

\* Each program starts as it would alone.
LEMMA ProgramsInitInv == ProgramsInit => ProgramsInv
  <1> SUFFICES ASSUME ProgramsInit PROVE ProgramsInv
    OBVIOUS
  <1>1. /\ Init /\ TaskInit /\ SemInit /\ SlotInit /\ FlagInit /\ CountInit
        /\ ConfigInit /\ MqInit /\ ForkInit /\ ShmInit /\ PipeInit /\ FifoInit
    BY Zenon DEF ProgramsInit
  <1>2. SessionInv /\ TaskInv /\ SemInv /\ SlotInv
    BY <1>1, SessionInitInv, TaskInitInv, SemInitInv, SlotInitInv, Zenon
  <1>3. FlagInv /\ CountInv /\ ConfigInv /\ MqInv
    BY <1>1, FlagInitInv, CountInitInv, ConfigInitInv, MqInitInv, Zenon
  <1>4. ForkInv /\ ShmInv /\ PipeInv /\ FifoInv
    BY <1>1, ForkInitInv, ShmInitInv, PipeInitInv, FifoInitInv, Zenon
  <1> QED
    BY <1>2, <1>3, <1>4, Zenon DEF ProgramsInv

\* A step of the programs is, to each of them, one of its own or none.
LEMMA ProgramsSteps ==
    [ProgramsNext]_programsVars =>
        /\ [Next]_vars /\ [TaskNext]_taskVars /\ [SemNext]_semVars /\ [SlotNext]_slotVars
        /\ [FlagNext]_flagVars /\ [CountNext]_countVars /\ [ConfigNext]_configVars
        /\ [MqNext]_mqVars /\ [ForkNext]_forkVars /\ [ShmNext]_shmVars
        /\ [PipeNext]_pipeVars /\ [FifoNext]_fifoVars
  <1> SUFFICES ASSUME [ProgramsNext]_programsVars
               PROVE  /\ [Next]_vars /\ [TaskNext]_taskVars /\ [SemNext]_semVars
                      /\ [SlotNext]_slotVars /\ [FlagNext]_flagVars /\ [CountNext]_countVars
                      /\ [ConfigNext]_configVars /\ [MqNext]_mqVars /\ [ForkNext]_forkVars
                      /\ [ShmNext]_shmVars /\ [PipeNext]_pipeVars /\ [FifoNext]_fifoVars
    OBVIOUS
  <1>1. ASSUME NEW p, Frozen(p)
        PROVE  /\ p # "session" => UNCHANGED vars
               /\ p # "task" => UNCHANGED taskVars
               /\ p # "sem" => UNCHANGED semVars
               /\ p # "slot" => UNCHANGED slotVars
               /\ p # "flag" => UNCHANGED flagVars
               /\ p # "count" => UNCHANGED countVars
               /\ p # "config" => UNCHANGED configVars
               /\ p # "queue" => UNCHANGED mqVars
               /\ p # "fork" => UNCHANGED forkVars
               /\ p # "memory" => UNCHANGED shmVars
               /\ p # "pipe" => UNCHANGED pipeVars
               /\ p # "fifo" => UNCHANGED fifoVars
    BY <1>1, Zenon DEF Frozen
  <1>2. CASE UNCHANGED programsVars
    BY <1>2, Zenon DEF programsVars
  <1>3. CASE ProgramsNext
    <2>1. CASE program = "session" /\ Next /\ Frozen("session")
      BY <2>1, <1>1
    <2>2. CASE program = "task" /\ TaskNext /\ Frozen("task")
      BY <2>2, <1>1
    <2>3. CASE program = "sem" /\ SemNext /\ Frozen("sem")
      BY <2>3, <1>1
    <2>4. CASE program = "slot" /\ SlotNext /\ Frozen("slot")
      BY <2>4, <1>1
    <2>5. CASE program = "flag" /\ FlagNext /\ Frozen("flag")
      BY <2>5, <1>1
    <2>6. CASE program = "count" /\ CountNext /\ Frozen("count")
      BY <2>6, <1>1
    <2>7. CASE program = "config" /\ ConfigNext /\ Frozen("config")
      BY <2>7, <1>1
    <2>8. CASE program = "queue" /\ MqNext /\ Frozen("queue")
      BY <2>8, <1>1
    <2>9. CASE program = "fork" /\ ForkNext /\ Frozen("fork")
      BY <2>9, <1>1
    <2>10. CASE program = "memory" /\ ShmNext /\ Frozen("memory")
      BY <2>10, <1>1
    <2>11. CASE program = "pipe" /\ PipeNext /\ Frozen("pipe")
      BY <2>11, <1>1
    <2>12. CASE program = "fifo" /\ FifoNext /\ Frozen("fifo")
      BY <2>12, <1>1
    <2> QED
      BY <1>3, <2>1, <2>2, <2>3, <2>4, <2>5, <2>6, <2>7, <2>8, <2>9, <2>10, <2>11, <2>12,
         Zenon DEF ProgramsNext
  <1> QED
    BY <1>2, <1>3

\* And so keeps the invariants of all.
LEMMA ProgramsNextInv == ProgramsInv /\ [ProgramsNext]_programsVars => ProgramsInv'
  <1> SUFFICES ASSUME ProgramsInv, [ProgramsNext]_programsVars PROVE ProgramsInv'
    OBVIOUS
  <1>1. /\ SessionInv /\ TaskInv /\ SemInv /\ SlotInv /\ FlagInv /\ CountInv
        /\ ConfigInv /\ MqInv /\ ForkInv /\ ShmInv /\ PipeInv /\ FifoInv
    BY Zenon DEF ProgramsInv
  <1>2. SessionInv' /\ TaskInv' /\ SemInv' /\ SlotInv'
    BY <1>1, ProgramsSteps, SessionNextInv, TaskNextInv, SemNextInv, SlotNextInv, Zenon
  <1>3. FlagInv' /\ CountInv' /\ ConfigInv' /\ MqInv'
    BY <1>1, ProgramsSteps, FlagNextInv, CountNextInv, ConfigNextInv, MqNextInv, Zenon
  <1>4. ForkInv' /\ ShmInv' /\ PipeInv' /\ FifoInv'
    BY <1>1, ProgramsSteps, ForkNextInv, ShmNextInv, PipeNextInv, FifoNextInv, Zenon
  <1> QED
    BY <1>2, <1>3, <1>4, Zenon DEF ProgramsInv

\* What the specification says of the steps; the rest of it is fairness.
LEMMA ProgramsSafety == ProgramsSpec => ProgramsInit /\ [][ProgramsNext]_programsVars
  BY PTL DEF ProgramsSpec

\* All invariants hold together, for every number of threads, slots, rounds,
\* messages and bytes.
THEOREM ProgramsInvariant == ProgramsSpec => []ProgramsInv
  BY ProgramsInitInv, ProgramsNextInv, ProgramsSafety, PTL

-----------------------------------------------------------------------------
(* The theorems, one for each property of the run.                         *)

\* The session's buffers and the task ring's indices keep their bounds, and push
\* refuses no task (server_pthread_pool.c:66-103, thread_pool.c:34-69).
THEOREM TypesTheorem == ProgramsSpec => []ProgramsTypeOK
  <1>1. ProgramsInv => ProgramsTypeOK
    BY Zenon DEF ProgramsInv, SessionInv, TaskInv, ProgramsTypeOK
  <1> QED
    BY <1>1, ProgramsInvariant, PTL

\* The two semaphores account for the slots, no mission in the ring is lost, and
\* missions are printed in the order of their creation (sem_pro_con_prob.c).
THEOREM SemTheorem == ProgramsSpec => []SemInv
  <1>1. ProgramsInv => SemInv
    BY Zenon DEF ProgramsInv
  <1> QED
    BY <1>1, ProgramsInvariant, PTL

\* What one thread hands to another comes once and in order (prod_cons_prob.c:15-36,
\* pthread_create.c:13-37).
THEOREM HandedTheorem == ProgramsSpec => []HandedInOrder
  <1>1. ProgramsInv => HandedInOrder
    BY FlagInOrder, Zenon DEF ProgramsInv, SlotInv, HandedInOrder
  <1> QED
    BY <1>1, ProgramsInvariant, PTL

\* No update is lost under a lock, none is seen half done, and without a lock at
\* least as many are left as the invariant says (pthread_no_mutex.c:10-18,
\* pthread_have_mutex.c:10-19, wr_rd_lock.c:13-24).
THEOREM UpdatesTheorem == ProgramsSpec => []UpdatesKept
  <1>1. ProgramsInv => UpdatesKept
    BY CountFinal, Zenon DEF ProgramsInv, ConfigInv, UpdatesKept
  <1> QED
    BY <1>1, ProgramsInvariant, PTL

\* A producer's queue is under its name, messages are received in order and once,
\* and a consumer that says it is complete follows the reception of all, or ended
\* on a line that looks like EOF; the child that ends has all (mq_producer.c:20-48,
\* mq_consumer.c:24-32, mq_p&s.c:40-64).
THEOREM MessagesTheorem == ProgramsSpec => []MessagesKept
  <1>1. ProgramsInv => MessagesKept
    BY MqComplete, Zenon DEF ProgramsInv, ForkInv, MessagesKept
  <1> QED
    BY <1>1, ProgramsInvariant, PTL

\* A run prints its own message and leaves no name behind (shared_memory.c:59-227).
THEOREM ObjectTheorem == ProgramsSpec => []OwnObject
  <1>1. ProgramsInv => OwnObject
    BY ShmNames, Zenon DEF ProgramsInv, OwnObject
  <1> QED
    BY <1>1, ProgramsInvariant, PTL

\* The reader of a pipe or FIFO prints all that it read, in order, and the pipe's has
\* the whole argument unless the parent was killed (fifo_read.c:24-28,
\* unamed_pipe_test.c:27-43).
THEOREM BytesTheorem == ProgramsSpec => []BytesKept
  <1>1. ProgramsInv => BytesKept
    BY PipeCopied, FifoPrints, Zenon DEF ProgramsInv, BytesKept
  <1> QED
    BY <1>1, ProgramsInvariant, PTL

\* The task pool is a first-in-first-out hand-over in which one worker takes each
\* task, for any number of workers and tasks (thread_pool.c:34-69).
THEOREM TaskRefinement == ProgramsSpec => TaskHandOffSpec
  <1>1. ProgramsInit => TaskHandOff!Init
    BY TaskInitRefines, Zenon DEF ProgramsInit
  <1>2. ProgramsInv /\ [ProgramsNext]_programsVars => [TaskHandOff!Next]_TaskHandOff!vars
    BY ProgramsSteps, TaskRefines, Zenon DEF ProgramsInv
  <1> QED
    BY <1>1, <1>2, ProgramsInvariant, ProgramsSafety, PTL
    DEF TaskHandOffSpec, TaskHandOff!Spec

\* One session on the pool server: on a connection that is not reset no byte is lost
\* but by a send that gave up, a line is cut up to its '\n', and lines that fit are
\* never refused (server_pthread_pool.c:66-103).
THEOREM SessionTheorem == ProgramsSpec => [](Conserved /\ CutToTheEnd /\ ShortLinesAccepted)
  <1>1. ProgramsInv => Conserved /\ CutToTheEnd /\ ShortLinesAccepted
    BY ConservedFromInv, CutFromInv, Zenon DEF ProgramsInv, SessionInv
  <1> QED
    BY <1>1, ProgramsInvariant, PTL

\* A queue whose producer ended early keeps its name for ever, and no producer
\* starts beside it (mq_producer.c:20-24, 30-32 and 39-42).
THEOREM LeftBehindTheorem == ProgramsSpec => LeftBehindStays
  <1>1. ASSUME MqInv, [MqNext]_mqVars, queueName # NoQueue, Ended(queueName)
        PROVE  /\ queueName' = queueName
               /\ \A p \in Producers : mqPc[p] = "open" => mqPc'[p] # "read"
    <2>0. /\ mqPc \in [Producers \cup Consumers ->
                         {"open", "read", "send", "eof", "unlink", "receive",
                          "exit", "complete", "failed"}]
          /\ NameIsItsProducers /\ mqPc[queueName] \in {"exit", "complete", "failed"}
      BY <1>1 DEF MqInv, MqTypeOK, Ended
    <2>1. ASSUME NEW p \in Producers, MqProducer(p) \/ MqKill(p)
          PROVE  queueName' = queueName
                 /\ \A q \in Producers : mqPc[q] = "open" => mqPc'[q] # "read"
      <3>1. mqPc[p] = "unlink" => queueName = p
        BY <2>0 DEF NameIsItsProducers
      <3>2. ~ProducerUnlink(p) /\ ~ProducerOpen(p)
        BY <1>1, <2>0, <3>1 DEF ProducerUnlink, ProducerOpen, MayCreate
      <3>3. /\ queueName' = queueName
            /\ \E x \in {"failed", "read", "send", "eof", AfterEof} :
                 mqPc' = [mqPc EXCEPT ![p] = x]
            /\ mqPc[p] = "open" => mqPc' = [mqPc EXCEPT ![p] = "failed"]
        BY <2>1, <3>2
        DEF MqProducer, MqKill, ProducerFails, ProducerRead, ProducerSend,
            ProducerSendFails, EndsEarly, ProducerSendEof, Goes
      <3> QED
        BY <2>0, <3>3
    <2>2. ASSUME NEW c \in Consumers, ConsumerOpen(c) \/ MqConsumer(c)
          PROVE  queueName' = queueName
                 /\ \A q \in Producers : mqPc[q] = "open" => mqPc'[q] # "read"
      <3>1. /\ queueName' = queueName
            /\ \/ mqPc' = mqPc
               \/ \E x \in {"receive", "complete", AfterError} : mqPc' = [mqPc EXCEPT ![c] = x]
        BY <2>2 DEF ConsumerOpen, MqConsumer, ConsumerReceive, ConsumerReceiveFails, Goes
      <3> QED
        BY <2>0, <3>1 DEF AfterError
    <2> QED
      BY <1>1, <2>0, <2>1, <2>2 DEF MqNext, mqVars
  <1>2. ProgramsInv /\ [ProgramsNext]_programsVars =>
          [(queueName # NoQueue /\ Ended(queueName)) =>
             /\ queueName' = queueName
             /\ \A p \in Producers : mqPc[p] = "open" => mqPc'[p] # "read"]_mqVars
    BY <1>1, ProgramsSteps, Zenon DEF ProgramsInv
  <1> QED
    BY <1>2, ProgramsInvariant, ProgramsSafety, PTL DEF LeftBehindStays
==============================================================================
