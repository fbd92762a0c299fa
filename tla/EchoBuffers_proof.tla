-------------------------- MODULE EchoBuffers_proof --------------------------
(***************************************************************************)
(* Lemmas about a connection, for any sizes of the buffers: what they need *)
(* of numbers and sequences; what recv, send and the peer do to a socket;  *)
(* what handle_recv and handle_send do to a client; and that these, and    *)
(* the peer, leave the bytes of a connection in order.                     *)
(***************************************************************************)
EXTENDS EchoBuffers, TLAPS, SequenceTheorems, WellFoundedInduction

-----------------------------------------------------------------------------
(* Numbers.                                                                *)

\* A nonempty set of natural numbers has a smallest element.
LEMMA MinNat ==
    ASSUME NEW S \in SUBSET Nat, S # {}
    PROVE  Min(S) \in S /\ \A y \in S : Min(S) <= y
  <1>1. PICK x \in S : \A y \in S : ~ (<<y, x>> \in OpToRel(<, Nat))
    BY NatLessThanWellFounded, WFMin
  <1>2. \A y \in S : ~ (y < x)
    BY <1>1 DEF OpToRel
  <1>3. x \in S /\ \A y \in S : x <= y
    BY <1>2, SMT
  <1> QED
    BY <1>3 DEF Min

\* A nonempty bounded set of natural numbers has a largest element.
LEMMA MaxNat ==
    ASSUME NEW S \in SUBSET Nat, S # {}, NEW n \in Nat, \A x \in S : x <= n
    PROVE  Max(S) \in S /\ \A y \in S : y <= Max(S)
  <1> DEFINE T == {n - x : x \in S}
  <1>1. T \subseteq Nat /\ T # {}
    <2>1. \A x \in S : n - x \in Nat
      OBVIOUS
    <2> QED
      BY <2>1
  <1>2. PICK m \in T : \A y \in T : m <= y
    BY <1>1, MinNat
  <1>3. PICK x \in S : m = n - x
    BY <1>2
  <1>4. \A y \in S : x >= y
    <2> TAKE y \in S
    <2>1. n - x <= n - y /\ x \in Nat /\ y \in Nat
      BY <1>2, <1>3
    <2> QED
      BY <2>1
  <1> QED
    BY <1>3, <1>4 DEF Max

-----------------------------------------------------------------------------
(* Sequences.                                                              *)

\* A function on the first n positions is a sequence.
LEMMA SeqFromFunction ==
    ASSUME NEW S, NEW n \in Nat, NEW f \in [1..n -> S]
    PROVE  f \in Seq(S) /\ Len(f) = n
  OBVIOUS

\* A queue is what its first n elements and the others are.
LEMMA Split ==
    ASSUME NEW S, NEW q \in Seq(S), NEW n \in 0..Len(q)
    PROVE  /\ First(n, q) \in Seq(S) /\ Len(First(n, q)) = n
           /\ \A i \in 1..n : First(n, q)[i] = q[i]
           /\ Rest(n, q) \in Seq(S) /\ Len(Rest(n, q)) = Len(q) - n
           /\ \A i \in 1..(Len(q) - n) : Rest(n, q)[i] = q[n + i]
           /\ First(n, q) \o Rest(n, q) = q
  <1>0. Len(q) \in Nat
    OBVIOUS
  <1>1. /\ First(n, q) \in Seq(S) /\ Len(First(n, q)) = n
        /\ \A i \in 1..n : First(n, q)[i] = q[i]
    BY <1>0, SubSeqProperties DEF First
  <1>2. /\ Rest(n, q) \in Seq(S) /\ Len(Rest(n, q)) = Len(q) - n
        /\ \A i \in 1..(Len(q) - n) : Rest(n, q)[i] = q[n + i]
    BY <1>0, SubSeqProperties DEF Rest
  <1>3. First(n, q) \o Rest(n, q) = SubSeq(q, 1, Len(q))
    <2>1. /\ 1 \in 1..(Len(q) + 1) /\ n \in (1 - 1)..Len(q)
          /\ Len(q) \in n..Len(q)
      BY <1>0
    <2> QED
      BY <2>1, ConcatAdjacentSubSeq DEF First, Rest
  <1> QED
    BY <1>1, <1>2, <1>3, SubSeqFull

\* All of a queue, and none of it.
LEMMA SplitEnds ==
    ASSUME NEW S, NEW q \in Seq(S)
    PROVE  First(0, q) = <<>> /\ Rest(0, q) = q /\ Rest(Len(q), q) = <<>>
                              /\ First(Len(q), q) = q
  <1>0. Len(q) \in Nat
    OBVIOUS
  <1> QED
    BY <1>0, SubSeqEmpty, SubSeqFull DEF First, Rest

\* Taking m elements and then n is taking m + n.
LEMMA RestRest ==
    ASSUME NEW S, NEW q \in Seq(S), NEW m \in 0..Len(q), NEW n \in 0..(Len(q) - m)
    PROVE  Rest(n, Rest(m, q)) = Rest(m + n, q)
  <1>0. Len(q) \in Nat
    OBVIOUS
  <1>1. /\ Rest(m, q) \in Seq(S) /\ Len(Rest(m, q)) = Len(q) - m
        /\ \A i \in 1..(Len(q) - m) : Rest(m, q)[i] = q[m + i]
    BY Split
  <1>2. /\ Rest(n, Rest(m, q)) \in Seq(S)
        /\ Len(Rest(n, Rest(m, q))) = Len(q) - m - n
        /\ \A i \in 1..(Len(q) - m - n) : Rest(n, Rest(m, q))[i] = Rest(m, q)[n + i]
    <2> DEFINE r == Rest(m, q)
    <2>1. n \in 0..Len(r)
      BY <1>1
    <2> HIDE DEF r
    <2>2. /\ Rest(n, r) \in Seq(S) /\ Len(Rest(n, r)) = Len(r) - n
          /\ \A i \in 1..(Len(r) - n) : Rest(n, r)[i] = r[n + i]
      BY <1>1, <2>1, Split DEF r
    <2> QED
      BY <1>1, <2>2 DEF r
  <1>3. m + n \in 0..Len(q)
    BY <1>0
  <1>4. /\ Rest(m + n, q) \in Seq(S) /\ Len(Rest(m + n, q)) = Len(q) - (m + n)
        /\ \A i \in 1..(Len(q) - (m + n)) : Rest(m + n, q)[i] = q[m + n + i]
    BY <1>3, Split
  <1>5. \A i \in 1..(Len(q) - m - n) : Rest(n, Rest(m, q))[i] = Rest(m + n, q)[i]
    <2> TAKE i \in 1..(Len(q) - m - n)
    <2>1. n + i \in 1..(Len(q) - m) /\ i \in 1..(Len(q) - (m + n))
      BY <1>0
    <2> QED
      BY <2>1, <1>1, <1>2, <1>4, <1>0
  <1> QED
    BY <1>0, <1>2, <1>4, <1>5, SeqEqual

\* What is appended to a queue is behind what is not taken from it.
LEMMA RestConcat ==
    ASSUME NEW S, NEW q \in Seq(S), NEW p \in Seq(S), NEW n \in 0..Len(q)
    PROVE  Rest(n, q \o p) = Rest(n, q) \o p
  <1>0. Len(q) \in Nat /\ Len(p) \in Nat
    OBVIOUS
  <1>1. /\ q \o p \in Seq(S) /\ Len(q \o p) = Len(q) + Len(p)
        /\ \A i \in 1..(Len(q) + Len(p)) :
              (q \o p)[i] = IF i <= Len(q) THEN q[i] ELSE p[i - Len(q)]
    BY ConcatProperties
  <1>2. /\ Rest(n, q) \in Seq(S) /\ Len(Rest(n, q)) = Len(q) - n
        /\ \A i \in 1..(Len(q) - n) : Rest(n, q)[i] = q[n + i]
    BY Split
  <1>3. n \in 0..Len(q \o p)
    BY <1>0, <1>1
  <1>4. /\ Rest(n, q \o p) \in Seq(S) /\ Len(Rest(n, q \o p)) = Len(q) + Len(p) - n
        /\ \A i \in 1..(Len(q) + Len(p) - n) : Rest(n, q \o p)[i] = (q \o p)[n + i]
    <2> DEFINE r == q \o p
    <2> HIDE DEF r
    <2>1. /\ Rest(n, r) \in Seq(S) /\ Len(Rest(n, r)) = Len(r) - n
          /\ \A i \in 1..(Len(r) - n) : Rest(n, r)[i] = r[n + i]
      BY <1>1, <1>3, Split DEF r
    <2> QED
      BY <1>1, <2>1 DEF r
  <1>5. /\ Rest(n, q) \o p \in Seq(S)
        /\ Len(Rest(n, q) \o p) = Len(q) - n + Len(p)
        /\ \A i \in 1..(Len(q) - n + Len(p)) :
              (Rest(n, q) \o p)[i] =
                 IF i <= Len(q) - n THEN Rest(n, q)[i] ELSE p[i - (Len(q) - n)]
    <2> DEFINE r == Rest(n, q)
    <2> HIDE DEF r
    <2>1. /\ r \o p \in Seq(S) /\ Len(r \o p) = Len(r) + Len(p)
          /\ \A i \in 1..(Len(r) + Len(p)) :
                (r \o p)[i] = IF i <= Len(r) THEN r[i] ELSE p[i - Len(r)]
      BY <1>2, ConcatProperties DEF r
    <2> QED
      BY <1>2, <2>1 DEF r
  <1>6. \A i \in 1..(Len(q) + Len(p) - n) : Rest(n, q \o p)[i] = (Rest(n, q) \o p)[i]
    <2> TAKE i \in 1..(Len(q) + Len(p) - n)
    <2>1. n + i \in 1..(Len(q) + Len(p)) /\ i - (Len(q) - n) = (n + i) - Len(q)
      BY <1>0
    <2>2. CASE i <= Len(q) - n
      BY <2>1, <2>2, <1>0, <1>1, <1>2, <1>4, <1>5
    <2>3. CASE ~(i <= Len(q) - n)
      <3>1. ~(n + i <= Len(q))
        BY <2>3, <1>0
      <3> QED
        BY <2>1, <2>3, <3>1, <1>0, <1>1, <1>4, <1>5
    <2> QED
      BY <2>2, <2>3
  <1>7. Len(Rest(n, q \o p)) = Len(Rest(n, q) \o p)
    BY <1>0, <1>4, <1>5
  <1> QED
    BY <1>4, <1>5, <1>6, <1>7, SeqEqual

\* Pieces of the peer's stream, put together.
Stream == Seq(1..MaxBytes)

\* Joining pieces gives a piece.
LEMMA StreamConcat == \A a, b \in Stream : a \o b \in Stream
  BY ConcatProperties DEF Stream

\* How three pieces are grouped does not matter.
LEMMA StreamAssoc == \A a, b, c \in Stream : (a \o b) \o c = a \o (b \o c)
  BY ConcatAssociative DEF Stream

\* Two pieces that make up the first bytes of the stream: the one is the first
\* bytes, and the other those behind them.
LEMMA StreamPrefix ==
    ASSUME NEW g \in Stream, NEW m \in Stream, NEW n \in 0..MaxBytes,
           g \o m = [i \in 1..n |-> i]
    PROVE  /\ g = [i \in 1..Len(g) |-> i] /\ Len(g) \in Nat /\ n = Len(g) + Len(m)
           /\ \A i \in 1..n : i > Len(g) => i - Len(g) \in 1..Len(m) /\ m[i - Len(g)] = i
  <1> DEFINE a == [i \in 1..n |-> i]
             l == Len(g)
             p == [i \in 1..l |-> i]
  <1>0. MaxBytes \in Nat
    BY SockAssumption
  <1>1. g \in Seq(1..MaxBytes) /\ m \in Seq(1..MaxBytes) /\ l \in Nat /\ Len(m) \in Nat
    BY DEF Stream
  <1>2. a \in Seq(1..MaxBytes) /\ Len(a) = n
    <2>1. a \in [1..n -> 1..MaxBytes] /\ n \in Nat
      BY <1>0
    <2> HIDE DEF a
    <2> QED
      BY <2>1, SeqFromFunction
  <1>3. \A i \in 1..n : a[i] = i
    OBVIOUS
  <1> HIDE DEF a, l
  <1>4. /\ Len(g \o m) = l + Len(m)
        /\ \A i \in 1..(l + Len(m)) : (g \o m)[i] = IF i <= l THEN g[i] ELSE m[i - l]
    BY <1>1, ConcatProperties DEF l
  <1>5. n = l + Len(m) /\ g \o m = a
    <2>1. g \o m = a
      BY DEF a
    <2> QED
      BY <1>2, <1>4, <2>1
  <1>6. \A i \in 1..l : g[i] = i
    BY <1>1, <1>3, <1>4, <1>5
  <1>7. p \in Seq(1..MaxBytes) /\ Len(p) = l
    <2>1. p \in [1..l -> 1..MaxBytes]
      BY <1>0, <1>1, <1>5
    <2> HIDE DEF p
    <2> QED
      BY <2>1, <1>1, SeqFromFunction
  <1>8. \A i \in 1..l : p[i] = i
    OBVIOUS
  <1> HIDE DEF p
  <1>9. g = p
    <2>1. \A i \in 1..Len(g) : g[i] = p[i]
      BY <1>6, <1>8 DEF l
    <2>2. Len(g) = Len(p)
      BY <1>7 DEF l
    <2> QED
      BY <1>1, <1>7, <2>1, <2>2, SeqEqual
  <1>10. \A i \in 1..n : i > l => i - l \in 1..Len(m) /\ m[i - l] = i
    BY <1>1, <1>3, <1>4, <1>5
  <1> QED
    BY <1>1, <1>5, <1>9, <1>10 DEF l, p

-----------------------------------------------------------------------------
(* A socket is a record; this says which fields it has.                    *)

IsSock(s) ==
    /\ s = [x \in DOMAIN s |-> s[x]]
    /\ DOMAIN s = {"sent", "inq", "outq", "got", "fin", "rst"}

-----------------------------------------------------------------------------
(* recv and send.                                                          *)

\* What recv returns: the first bytes that arrived, or that there are none.
LEMMA RecvProps ==
    ASSUME NEW s, SockType(s), IsSock(s), NEW max \in Nat \ {0},
           NEW r \in Recv(s, max)
    PROVE  /\ r.ret \in {"data", "eof", "again", "error"}
           /\ r.bytes \in Seq(1..MaxBytes) /\ Len(r.bytes) <= max
           /\ IsSock(AfterRecv(s, r)) /\ SockType(AfterRecv(s, r))
           /\ \A x \in DOMAIN s \ {"inq"} : AfterRecv(s, r)[x] = s[x]
           /\ r.bytes \o AfterRecv(s, r).inq = s.inq
           /\ r.ret = "data" => s.inq # <<>> /\ r.bytes # <<>>
           /\ r.ret # "data" => s.inq = <<>> /\ r.bytes = <<>> /\ AfterRecv(s, r) = s
           /\ r.ret = "eof" => s.fin \/ s.rst
           /\ r.ret = "error" => s.rst
           /\ r.ret = "again" => ~s.fin /\ ~s.rst
  <1> DEFINE S == 1..MaxBytes
             n == Least(max, Len(s.inq))
  <1>1. /\ s.inq \in Seq(S) /\ Len(s.inq) \in Nat
        /\ max \in Nat /\ max > 0
    BY DEF SockType
  <1>2. /\ AfterRecv(s, r) = [s EXCEPT !.inq = Rest(Len(r.bytes), s.inq)]
        /\ AfterRecv(s, r).inq = Rest(Len(r.bytes), s.inq)
        /\ IsSock(AfterRecv(s, r))
        /\ \A x \in DOMAIN s \ {"inq"} : AfterRecv(s, r)[x] = s[x]
    BY DEF AfterRecv, IsSock
  <1>3. ASSUME s.inq # <<>>
        PROVE  /\ r.ret = "data" /\ r.bytes \in Seq(S) /\ r.bytes # <<>>
               /\ Rest(Len(r.bytes), s.inq) \in Seq(S) /\ Len(r.bytes) <= max
               /\ r.bytes \o Rest(Len(r.bytes), s.inq) = s.inq
    <2>1. n \in 0..Len(s.inq) /\ n > 0 /\ n <= max
      BY <1>1, <1>3, EmptySeq DEF Least
    <2>2. r.ret = "data" /\ r.bytes = First(n, s.inq)
      BY <1>3 DEF Recv
    <2> HIDE DEF n
    <2>3. /\ First(n, s.inq) \in Seq(S) /\ Len(First(n, s.inq)) = n
          /\ Rest(n, s.inq) \in Seq(S)
          /\ First(n, s.inq) \o Rest(n, s.inq) = s.inq
      BY <1>1, <2>1, Split
    <2>4. r.bytes # <<>>
      BY <2>1, <2>2, <2>3
    <2> QED
      BY <2>1, <2>2, <2>3, <2>4
  <1>4. ASSUME s.inq = <<>>
        PROVE  /\ r.bytes = <<>> /\ r.ret \in {"eof", "again", "error"}
               /\ r.ret = "eof" => s.fin \/ s.rst
               /\ r.ret = "error" => s.rst
               /\ r.ret = "again" => ~s.fin /\ ~s.rst
    BY <1>4 DEF Recv
  <1>5. ASSUME s.inq = <<>>
        PROVE  /\ Rest(Len(r.bytes), s.inq) = <<>> /\ AfterRecv(s, r) = s
               /\ r.bytes \in Seq(S) /\ Len(r.bytes) <= max
    <2>1. r.bytes = s.inq /\ Len(s.inq) <= max
      BY <1>1, <1>4, <1>5
    <2>2. Rest(Len(s.inq), s.inq) = <<>>
      BY <1>1, SplitEnds
    <2>3. AfterRecv(s, r) = s
      BY <1>2, <1>5, <2>1, <2>2 DEF IsSock
    <2> QED
      BY <1>1, <2>1, <2>2, <2>3
  <1>6. Rest(Len(r.bytes), s.inq) \in Seq(S)
    BY <1>3, <1>5, EmptySeq
  <1>7. SockType(AfterRecv(s, r))
    BY <1>2, <1>6 DEF SockType, IsSock
  <1>8. r.bytes \o AfterRecv(s, r).inq = s.inq
    <2>1. CASE s.inq = <<>>
      BY <2>1, <1>2, <1>4, <1>5
    <2> QED
      BY <2>1, <1>2, <1>3
  <1> QED
    BY <1>2, <1>3, <1>4, <1>5, <1>7, <1>8

\* send takes no more than there is, and no more than there is room for.
LEMMA SendCountProps ==
    ASSUME NEW s, SockType(s), NEW q \in Stream
    PROVE  /\ SendCount(s, q) \in 0..Len(q) /\ Len(s.outq) + SendCount(s, q) <= SockCap
           /\ Room(s) \in Nat /\ Len(q) \in Nat
           /\ SendCount(s, q) = 0 => Room(s) = 0 \/ Len(q) = 0
  <1> DEFINE o == Len(s.outq)
             l == Len(q)
  <1>1. o \in Nat /\ o <= SockCap /\ SockCap \in Nat /\ l \in Nat
    BY SockAssumption DEF SockType, Stream
  <1>2. Room(s) = SockCap - o /\ SendCount(s, q) = IF SockCap - o <= l THEN SockCap - o ELSE l
    BY DEF SendCount, Room, Least
  <1> HIDE DEF o, l
  <1>3. /\ SendCount(s, q) \in 0..l /\ o + SendCount(s, q) <= SockCap
        /\ Room(s) \in Nat /\ l \in Nat
        /\ SendCount(s, q) = 0 => Room(s) = 0 \/ l = 0
    BY <1>1, <1>2
  <1> QED
    BY <1>3 DEF o, l

\* What send took is behind what the peer has not read yet.
LEMMA AfterSendProps ==
    ASSUME NEW s, IsSock(s), SockType(s), NEW q \in Stream
    PROVE  LET t == AfterSend(s, q) IN
           /\ IsSock(t) /\ SockType(t)
           /\ t.outq = s.outq \o First(SendCount(s, q), q)
           /\ t.sent = s.sent /\ t.inq = s.inq /\ t.got = s.got
           /\ t.fin = s.fin /\ t.rst = s.rst
  <1> DEFINE t == AfterSend(s, q)
             n == SendCount(s, q)
  <1>1. n \in 0..Len(q) /\ Len(s.outq) + n <= SockCap
    BY SendCountProps
  <1>2. /\ IsSock(t) /\ t.outq = s.outq \o First(n, q)
        /\ t.sent = s.sent /\ t.inq = s.inq /\ t.got = s.got
        /\ t.fin = s.fin /\ t.rst = s.rst
    BY DEF AfterSend, IsSock
  <1> HIDE DEF t, n
  <1>3. First(n, q) \in Seq(1..MaxBytes) /\ Len(First(n, q)) = n
    BY <1>1, Split DEF Stream
  <1>4. /\ s.outq \o First(n, q) \in Seq(1..MaxBytes)
        /\ Len(s.outq \o First(n, q)) = Len(s.outq) + Len(First(n, q))
    BY <1>3, ConcatProperties DEF SockType
  <1>5. SockType(t)
    BY <1>1, <1>2, <1>3, <1>4 DEF SockType
  <1> QED
    BY <1>2, <1>5 DEF t, n

-----------------------------------------------------------------------------
(* The peer.                                                               *)

\* The next n bytes of the stream.
LEMMA NextBytes ==
    ASSUME NEW m \in Nat, NEW n \in Nat, m + n <= MaxBytes
    PROVE  /\ [i \in 1..n |-> m + i] \in Stream
           /\ Len([i \in 1..n |-> m + i]) = n
           /\ [i \in 1..m |-> i] \o [i \in 1..n |-> m + i] = [i \in 1..(m + n) |-> i]
  <1> DEFINE a == [i \in 1..m |-> i]
             b == [i \in 1..n |-> m + i]
             c == [i \in 1..(m + n) |-> i]
             S == 1..MaxBytes
  <1>0. MaxBytes \in Nat
    BY SockAssumption
  <1>1. a \in Seq(S) /\ Len(a) = m
    <2>1. a \in [1..m -> S]
      BY <1>0
    <2> QED
      BY <2>1, SeqDef
  <1>2. b \in Seq(S) /\ Len(b) = n
    <2>1. b \in [1..n -> S]
      BY <1>0
    <2> QED
      BY <2>1, SeqDef
  <1>3. c \in Seq(S) /\ Len(c) = m + n
    <2>1. c \in [1..(m + n) -> S] /\ m + n \in Nat
      BY <1>0
    <2> QED
      BY <2>1, SeqDef
  <1>4. /\ a \o b \in Seq(S) /\ Len(a \o b) = Len(a) + Len(b)
        /\ \A i \in 1..(Len(a) + Len(b)) :
              (a \o b)[i] = IF i <= Len(a) THEN a[i] ELSE b[i - Len(a)]
    <2> HIDE DEF a, b, S
    <2> QED
      BY <1>1, <1>2, ConcatProperties
  <1>5. \A i \in 1..(m + n) : (a \o b)[i] = c[i]
    <2> TAKE i \in 1..(m + n)
    <2>1. CASE i <= m
      <3>1. a[i] = i /\ c[i] = i
        BY <2>1
      <3> HIDE DEF a, b, c
      <3> QED
        BY <3>1, <2>1, <1>1, <1>2, <1>4
    <2>2. CASE ~(i <= m)
      <3>1. i - m \in 1..n
        BY <2>2
      <3>2. b[i - m] = i /\ c[i] = i
        BY <3>1
      <3> HIDE DEF a, b, c
      <3> QED
        BY <3>2, <2>2, <1>1, <1>2, <1>4
    <2> QED
      BY <2>1, <2>2
  <1>6. a \o b = c
    <2> HIDE DEF a, b, c, S
    <2> QED
      BY <1>1, <1>2, <1>3, <1>4, <1>5, SeqEqual
  <1> QED
    BY <1>2, <1>6 DEF Stream

\* The peer sends: the bytes are behind the others that wait for recv.
LEMMA PeerSendProps ==
    ASSUME NEW s, IsSock(s), SockType(s), NEW n \in Nat,
           s.sent + n <= MaxBytes
    PROVE  LET t == PeerSend(s, n) IN
           /\ IsSock(t) /\ SockType(t)
           /\ t.sent = s.sent + n /\ t.inq = s.inq \o [i \in 1..n |-> s.sent + i]
           /\ t.outq = s.outq /\ t.got = s.got /\ t.fin = s.fin /\ t.rst = s.rst
  <1> DEFINE t == PeerSend(s, n)
             b == [i \in 1..n |-> s.sent + i]
  <1>0. MaxBytes \in Nat /\ s.sent \in Nat
    BY SockAssumption DEF SockType
  <1>1. /\ IsSock(t) /\ t.sent = s.sent + n /\ t.inq = s.inq \o b
        /\ t.outq = s.outq /\ t.got = s.got /\ t.fin = s.fin /\ t.rst = s.rst
    BY DEF PeerSend, IsSock
  <1>2. b \in Stream
    BY <1>0, NextBytes
  <1> HIDE DEF t, b
  <1>3. s.inq \in Stream
    BY DEF SockType, Stream
  <1>4. s.inq \o b \in Stream
    BY <1>2, <1>3, StreamConcat
  <1>5. SockType(t)
    BY <1>0, <1>1, <1>4 DEF SockType, Stream
  <1> QED
    BY <1>1, <1>5 DEF t, b

\* The peer reads n bytes of those sent to it.
LEMMA PeerReadProps ==
    ASSUME NEW s, IsSock(s), SockType(s), NEW n \in 0..Len(s.outq)
    PROVE  LET t == PeerRead(s, n) IN
           /\ IsSock(t) /\ SockType(t)
           /\ t.got \o t.outq = s.got \o s.outq
           /\ t.sent = s.sent /\ t.inq = s.inq /\ t.fin = s.fin /\ t.rst = s.rst
  <1> DEFINE t == PeerRead(s, n)
             f == First(n, s.outq)
             r == Rest(n, s.outq)
  <1>0. s.outq \in Stream /\ Len(s.outq) \in Nat /\ s.got \in Stream
    BY DEF SockType, Stream
  <1>1. /\ IsSock(t) /\ t.got = s.got \o f /\ t.outq = r
        /\ t.sent = s.sent /\ t.inq = s.inq /\ t.fin = s.fin /\ t.rst = s.rst
    BY DEF PeerRead, IsSock
  <1>2. f \in Stream /\ r \in Stream /\ f \o r = s.outq /\ Len(r) = Len(s.outq) - n
    BY <1>0, Split DEF Stream
  <1> HIDE DEF t, f, r
  <1>3. s.got \o f \in Stream
    BY <1>0, <1>2, StreamConcat
  <1>4. t.got \o t.outq = s.got \o s.outq
    <2>1. (s.got \o f) \o r = s.got \o (f \o r)
      BY <1>0, <1>2, StreamAssoc, Zenon
    <2> QED
      BY <2>1, <1>1, <1>2
  <1>5. Len(r) <= SockCap
    BY <1>0, <1>2, SockAssumption DEF SockType
  <1>6. SockType(t)
    BY <1>1, <1>2, <1>3, <1>5 DEF SockType, Stream
  <1> QED
    BY <1>1, <1>4, <1>6 DEF t

\* The peer ends its stream, or the connection is reset.
LEMMA PeerEndProps ==
    ASSUME NEW s, IsSock(s), SockType(s)
    PROVE  /\ IsSock(PeerFin(s)) /\ SockType(PeerFin(s))
           /\ PeerFin(s).fin /\ \A x \in DOMAIN s \ {"fin"} : PeerFin(s)[x] = s[x]
           /\ IsSock(PeerReset(s)) /\ SockType(PeerReset(s))
           /\ PeerReset(s).rst
           /\ \A x \in DOMAIN s \ {"rst", "outq"} : PeerReset(s)[x] = s[x]
  <1>1. /\ IsSock(PeerFin(s)) /\ SockType(PeerFin(s))
        /\ PeerFin(s).fin /\ \A x \in DOMAIN s \ {"fin"} : PeerFin(s)[x] = s[x]
    BY DEF PeerFin, IsSock, SockType
  <1>2. /\ IsSock(PeerReset(s)) /\ PeerReset(s).rst /\ PeerReset(s).outq = <<>>
        /\ \A x \in DOMAIN s \ {"rst", "outq"} : PeerReset(s)[x] = s[x]
    BY DEF PeerReset, IsSock
  <1>3. Len(<<>>) <= SockCap /\ <<>> \in Seq(1..MaxBytes)
    BY SockAssumption, EmptySeq
  <1>4. SockType(PeerReset(s))
    BY <1>2, <1>3 DEF IsSock, SockType
  <1> QED
    BY <1>1, <1>2, <1>4

-----------------------------------------------------------------------------
(* A client is a record; these say which fields it has, and which change.  *)

IsClient(k) ==
    /\ k = [x \in DOMAIN k |-> k[x]]
    /\ {"recv_message", "send_buf", "send_offset"} \subseteq DOMAIN k

\* A client before and after a call on its buffers: the same record otherwise.
SameOtherFields(k, l) ==
    /\ IsClient(l) /\ DOMAIN l = DOMAIN k
    /\ \A x \in DOMAIN k \ {"recv_message", "send_buf", "send_offset"} : l[x] = k[x]

\* The offset is behind the last byte of send_buf only where that is empty, so
\* send_buf is empty when nothing of it is unsent (handle_send resets both).
OffsetInside(k) == k.send_offset < Len(k.send_buf) \/ k.send_buf = <<>>

-----------------------------------------------------------------------------
(* handle_recv.                                                            *)

\* recv has room for a byte.
LEMMA RecvSize == RecvBuf \in Nat \ {0}
  BY BufferAssumption

\* Line ends are positions of the message.
LEMMA LineEndsType ==
    ASSUME NEW message \in Seq(1..MaxBytes), NEW newlines
    PROVE  /\ LineEnds(message, newlines) \subseteq 1..Len(message)
           /\ Len(message) \in Nat
  BY DEF LineEnds

\* The part of a message that moves ends at the last line end that fits.
LEMMA FittingProps ==
    ASSUME NEW k, BufferType(k), NEW message \in Seq(1..MaxBytes), NEW newlines
    PROVE  /\ Fitting(k, message, newlines) \in 0..Len(message)
           /\ Len(k.send_buf) + Fitting(k, message, newlines) <= SendCap
           /\ \A i \in LineEnds(message, newlines) :
                 Len(k.send_buf) + i <= SendCap => i <= Fitting(k, message, newlines)
  <1> DEFINE fit == {i \in LineEnds(message, newlines) : Len(k.send_buf) + i <= SendCap}
             T == {0} \cup fit
  <1>1. /\ LineEnds(message, newlines) \subseteq 1..Len(message)
        /\ Len(message) \in Nat
    BY LineEndsType
  <1>2. Len(k.send_buf) \in Nat /\ Len(k.send_buf) <= SendCap /\ SendCap \in Nat
    BY BufferAssumption DEF BufferType
  <1>3. T \subseteq Nat /\ T # {} /\ \A x \in T : x <= Len(message)
    BY <1>1
  <1> DEFINE m == Max(T)
  <1>4. m \in T /\ \A y \in T : y <= m
    BY <1>1, <1>3, MaxNat
  <1>5. Fitting(k, message, newlines) = m
    BY DEF Fitting
  <1> HIDE DEF m
  <1>6. m \in 0..Len(message) /\ Len(k.send_buf) + m <= SendCap
    BY <1>1, <1>2, <1>4
  <1>7. \A i \in LineEnds(message, newlines) : Len(k.send_buf) + i <= SendCap => i <= m
    BY <1>4
  <1> QED
    BY <1>5, <1>6, <1>7

\* Data that fits in recv_message: the buffers keep their bounds, each byte stays
\* in its place in the stream, and unless send_buf was too small no complete line
\* is left in recv_message; send_buf is too small only where it is not empty.
LEMMA StoredProps ==
    ASSUME NEW k, IsClient(k), BufferType(k), NEW bytes \in Seq(1..MaxBytes),
           NEW newlines, ~MessageTooLong(k, bytes)
    PROVE  LET h == Stored(k, bytes, newlines) IN
           /\ SameOtherFields(k, h.client) /\ BufferType(h.client)
           /\ h.client.send_offset = k.send_offset
           /\ Unsent(h.client) \o h.client.recv_message
                = Unsent(k) \o (k.recv_message \o bytes)
           /\ Len(Unsent(k)) <= Len(Unsent(h.client))
           /\ Len(k.send_buf) <= Len(h.client.send_buf)
           /\ h.full \in BOOLEAN /\ h.ret = IF h.full THEN -1 ELSE 0
           /\ ~h.full => LineEnds(h.client.recv_message, newlines) = {}
           /\ h.full /\ MsgCap <= SendCap => k.send_buf # <<>>
  <1> DEFINE message == k.recv_message \o bytes
             cut     == Fitting(k, message, newlines)
             full    == SendBufFull(k, message, newlines)
             l       == [k EXCEPT !.recv_message = Rest(cut, message),
                                  !.send_buf = @ \o First(cut, message)]
             h       == Stored(k, bytes, newlines)
             S       == 1..MaxBytes
  <1>1. /\ k.recv_message \in Seq(S) /\ Len(k.recv_message) \in Nat
        /\ k.send_buf \in Seq(S) /\ Len(k.send_buf) \in Nat
        /\ k.send_offset \in 0..Len(k.send_buf)
        /\ Len(bytes) \in Nat /\ {MsgCap, SendCap} \subseteq Nat
    BY BufferAssumption DEF BufferType
  <1>2. message \in Seq(S) /\ Len(message) = Len(k.recv_message) + Len(bytes)
    BY <1>1, ConcatProperties
  <1>3. Len(message) <= MsgCap
    BY <1>1, <1>2 DEF MessageTooLong
  <1>h. h.client = l /\ h.full = full /\ h.ret = IF full THEN -1 ELSE 0
    BY DEF Stored
  <1>4. /\ cut \in 0..Len(message) /\ Len(k.send_buf) + cut <= SendCap
        /\ \A i \in LineEnds(message, newlines) :
              Len(k.send_buf) + i <= SendCap => i <= cut
    BY <1>2, FittingProps
  <1> HIDE DEF message, cut, full, h
  <1>5. /\ First(cut, message) \in Seq(S) /\ Len(First(cut, message)) = cut
        /\ Rest(cut, message) \in Seq(S) /\ Len(Rest(cut, message)) = Len(message) - cut
        /\ \A i \in 1..(Len(message) - cut) : Rest(cut, message)[i] = message[cut + i]
        /\ First(cut, message) \o Rest(cut, message) = message
    BY <1>2, <1>4, Split
  <1>6. /\ SameOtherFields(k, l) /\ l.recv_message = Rest(cut, message)
        /\ l.send_buf = k.send_buf \o First(cut, message)
        /\ l.send_offset = k.send_offset
    BY DEF IsClient, SameOtherFields
  <1> HIDE DEF l, S
  <1>7. /\ l.send_buf \in Seq(S) /\ Len(l.send_buf) = Len(k.send_buf) + cut
    <2>1. /\ k.send_buf \o First(cut, message) \in Seq(S)
          /\ Len(k.send_buf \o First(cut, message))
               = Len(k.send_buf) + Len(First(cut, message))
      BY <1>1, <1>5, ConcatProperties
    <2> QED
      BY <2>1, <1>5, <1>6
  <1>8. BufferType(l)
    <2>1. Len(Rest(cut, message)) <= MsgCap
      BY <1>1, <1>3, <1>4, <1>5
    <2> QED
      BY <2>1, <1>1, <1>4, <1>5, <1>6, <1>7 DEF BufferType, S
  <1>9. Unsent(l) = Unsent(k) \o First(cut, message)
    BY <1>1, <1>5, <1>6, RestConcat DEF Unsent
  <1>10. Unsent(k) \in Seq(S)
    BY <1>1, Split DEF Unsent
  <1>11. Unsent(l) \o l.recv_message = Unsent(k) \o message
    <2> DEFINE u == Unsent(k)
               f == First(cut, message)
               r == Rest(cut, message)
    <2>0. u \in Seq(S) /\ f \in Seq(S) /\ r \in Seq(S)
      BY <1>5, <1>10
    <2> HIDE DEF u, f, r
    <2>1. (u \o f) \o r = u \o (f \o r)
      BY <2>0, ConcatAssociative
    <2> QED
      BY <2>1, <1>5, <1>6, <1>9 DEF u, f, r
  <1>12. Len(Unsent(k)) <= Len(Unsent(l))
    <2>1. Len(Unsent(l)) = Len(Unsent(k)) + cut
      <3>1. Len(Unsent(k) \o First(cut, message))
              = Len(Unsent(k)) + Len(First(cut, message))
        BY <1>5, <1>10, ConcatProperties
      <3> QED
        BY <3>1, <1>5, <1>9
    <2> QED
      BY <2>1, <1>4, <1>10
  <1>13. ASSUME ~full PROVE LineEnds(l.recv_message, newlines) = {}
    <2>1. SUFFICES ASSUME NEW i \in LineEnds(l.recv_message, newlines) PROVE FALSE
      OBVIOUS
    <2>2. i \in 1..(Len(message) - cut) /\ message[cut + i] \in newlines
      BY <2>1, <1>5, <1>6 DEF LineEnds
    <2>3. cut + i \in LineEnds(message, newlines)
      BY <2>2, <1>1, <1>2, <1>4 DEF LineEnds
    <2> DEFINE n == cut + i
    <2>4. ~(Len(k.send_buf) + n > SendCap)
      BY <2>3, <1>13 DEF full, SendBufFull
    <2>5. cut \in Nat /\ i \in Nat /\ i > 0 /\ n \in Nat
      BY <2>2, <1>1, <1>2, <1>4
    <2>6. ASSUME n <= cut PROVE FALSE
      BY <2>5, <2>6
    <2> HIDE DEF n
    <2>7. Len(k.send_buf) + n <= SendCap
      <3>1. Len(k.send_buf) \in Nat /\ SendCap \in Nat
        BY <1>1
      <3> QED
        BY <2>4, <2>5, <3>1
    <2> QED
      BY <2>3, <2>6, <2>7, <1>4 DEF n
  <1>14. ASSUME full, MsgCap <= SendCap PROVE k.send_buf # <<>>
    <2>1. PICK i \in LineEnds(message, newlines) : Len(k.send_buf) + i > SendCap
      BY <1>14 DEF full, SendBufFull
    <2>2. i \in 1..Len(message)
      BY <2>1 DEF LineEnds
    <2>3. Len(k.send_buf) > 0
      BY <2>1, <2>2, <1>1, <1>2, <1>3, <1>14
    <2> QED
      BY <2>3, EmptySeq
  <1>15. full \in BOOLEAN
    BY DEF full, SendBufFull
  <1>16. Len(k.send_buf) <= Len(l.send_buf)
    BY <1>1, <1>4, <1>7
  <1> HIDE DEF l
  <1> QED
    BY <1>h, <1>6, <1>8, <1>11, <1>12, <1>13, <1>14, <1>15, <1>16 DEF h, message

\* What holds after handle_recv, whatever recv returned: the buffers keep their
\* bounds; unless one was too small each byte stays in its place and no complete
\* line is left in recv_message; nothing is unsent only where nothing was; and an
\* error leaves the buffers alone or finds something in send_buf.
AfterReceived(k, s, r, newlines, eofRet, h) ==
    /\ SameOtherFields(k, h.client) /\ BufferType(h.client)
    /\ h.full \in BOOLEAN /\ h.ret \in {-1, 0, 1}
    /\ h.client.send_offset = k.send_offset
    /\ Len(Unsent(k)) <= Len(Unsent(h.client))
    /\ Len(k.send_buf) <= Len(h.client.send_buf)
    /\ ~h.full => Unsent(h.client) \o (h.client.recv_message \o AfterRecv(s, r).inq)
                    = Unsent(k) \o (k.recv_message \o s.inq)
    /\ ~h.full /\ LineEnds(k.recv_message, newlines) = {}
         => LineEnds(h.client.recv_message, newlines) = {}
    /\ h.full => r.ret = "data" /\ h.ret = -1
    /\ r.ret = "data" => h.ret \in {-1, 0} /\ (h.ret = -1 => h.full)
    /\ r.ret = "eof" => h.ret = eofRet
    /\ r.ret = "again" => h.ret = 0
    /\ r.ret = "error" => h.ret = -1
    /\ r.ret # "data" => h.client = k
    /\ MsgCap <= SendCap /\ h.ret = -1 => h.client = k \/ k.send_buf # <<>>

\* The result of handle_recv on any client and any result of recv.
LEMMA ReceivedProps ==
    ASSUME NEW k, IsClient(k), BufferType(k), NEW newlines, NEW eofRet \in {-1, 0, 1},
           NEW s, SockType(s), IsSock(s), NEW r \in Recv(s, RecvBuf)
    PROVE  AfterReceived(k, s, r, newlines, eofRet, Received(k, r, newlines, eofRet))
  <1> DEFINE h == Received(k, r, newlines, eofRet)
             S == 1..MaxBytes
  <1>1. /\ r.ret \in {"data", "eof", "again", "error"}
        /\ r.bytes \in Seq(S)
        /\ r.bytes \o AfterRecv(s, r).inq = s.inq
        /\ r.ret # "data" => AfterRecv(s, r) = s
        /\ AfterRecv(s, r).inq \in Seq(S)
    <2>1. SockType(AfterRecv(s, r))
      BY RecvProps, RecvSize
    <2> QED
      BY <2>1, RecvProps, RecvSize DEF SockType
  <1>2. SameOtherFields(k, k) /\ Len(Unsent(k)) \in Nat /\ Len(k.send_buf) \in Nat
    <2>1. Unsent(k) \in Seq(S)
      BY Split DEF Unsent, BufferType
    <2> QED
      BY <2>1 DEF SameOtherFields, BufferType
  <1>3. CASE r.ret = "data" /\ ~MessageTooLong(k, r.bytes)
    <2>1. h = Stored(k, r.bytes, newlines)
      BY <1>3 DEF Received
    <2> HIDE DEF h
    <2>2. /\ SameOtherFields(k, h.client) /\ BufferType(h.client)
          /\ h.client.send_offset = k.send_offset
          /\ Unsent(h.client) \o h.client.recv_message
               = Unsent(k) \o (k.recv_message \o r.bytes)
          /\ Len(Unsent(k)) <= Len(Unsent(h.client))
          /\ Len(k.send_buf) <= Len(h.client.send_buf)
          /\ h.full \in BOOLEAN /\ h.ret = IF h.full THEN -1 ELSE 0
          /\ ~h.full => LineEnds(h.client.recv_message, newlines) = {}
          /\ h.full /\ MsgCap <= SendCap => k.send_buf # <<>>
      BY <1>1, <1>3, <2>1, StoredProps
    <2>3. Unsent(h.client) \o (h.client.recv_message \o AfterRecv(s, r).inq)
            = Unsent(k) \o (k.recv_message \o s.inq)
      <3> DEFINE u1 == Unsent(h.client)
                 m1 == h.client.recv_message
                 q1 == AfterRecv(s, r).inq
                 u  == Unsent(k)
                 m  == k.recv_message
                 b  == r.bytes
      <3>1. u1 \in Stream /\ m1 \in Stream /\ u \in Stream /\ m \in Stream
        BY <2>2, Split DEF BufferType, Unsent, Stream
      <3>2. q1 \in Stream /\ b \in Stream /\ b \o q1 = s.inq /\ u1 \o m1 = u \o (m \o b)
        BY <1>1, <2>2 DEF Stream
      <3> HIDE DEF u1, m1, q1, u, m, b, S
      <3>3. u1 \o (m1 \o q1) = (u1 \o m1) \o q1
        BY <3>1, <3>2, StreamAssoc, Zenon
      <3>4. m \o b \in Stream
        BY <3>1, <3>2, StreamConcat
      <3>5. (u \o (m \o b)) \o q1 = u \o ((m \o b) \o q1)
        BY <3>1, <3>2, <3>4, StreamAssoc, Zenon
      <3>6. (m \o b) \o q1 = m \o (b \o q1)
        BY <3>1, <3>2, StreamAssoc, Zenon
      <3>7. u1 \o (m1 \o q1) = u \o (m \o s.inq)
        BY <3>2, <3>3, <3>5, <3>6
      <3> QED
        BY <3>7 DEF u1, m1, q1, u, m
    <2> QED
      BY <1>3, <2>2, <2>3 DEF h, AfterReceived
  <1>4. CASE r.ret = "data" /\ MessageTooLong(k, r.bytes)
    <2>1. h = [client |-> k, ret |-> -1, full |-> TRUE]
      BY <1>4 DEF Received, NotStored
    <2> HIDE DEF h
    <2> QED
      BY <2>1, <1>2, <1>4 DEF h, AfterReceived
  <1>5. CASE r.ret # "data"
    <2>1. h = [client |-> k, full |-> FALSE,
               ret |-> IF r.ret = "eof" THEN eofRet ELSE IF r.ret = "again" THEN 0 ELSE -1]
      BY <1>1, <1>5 DEF Received, NotStored
    <2> HIDE DEF h
    <2>2. h.client = k /\ h.full = FALSE /\ h.ret \in {-1, 0, 1}
      BY <2>1
    <2>3. /\ r.ret = "eof" => h.ret = eofRet
          /\ r.ret = "again" => h.ret = 0
          /\ r.ret = "error" => h.ret = -1
      BY <2>1
    <2>4. SameOtherFields(k, h.client) /\ BufferType(h.client) /\ h.full \in BOOLEAN
      BY <2>2, <1>2
    <2>5. /\ h.client.send_offset = k.send_offset
          /\ Len(Unsent(k)) <= Len(Unsent(h.client))
          /\ Len(k.send_buf) <= Len(h.client.send_buf)
      BY <2>2, <1>2
    <2>6. Unsent(h.client) \o (h.client.recv_message \o AfterRecv(s, r).inq)
            = Unsent(k) \o (k.recv_message \o s.inq)
      BY <2>2, <1>1, <1>5
    <2> QED
      BY <2>2, <2>3, <2>4, <2>5, <2>6, <1>5 DEF h, AfterReceived
  <1> QED
    BY <1>3, <1>4, <1>5

-----------------------------------------------------------------------------
(* handle_send.                                                            *)

\* What is unsent, and that it is everything or nothing at the ends of send_buf.
LEMMA UnsentProps ==
    ASSUME NEW k, BufferType(k)
    PROVE  /\ Unsent(k) \in Stream /\ Len(Unsent(k)) = Len(k.send_buf) - k.send_offset
           /\ Len(Unsent(k)) \in Nat /\ Len(k.send_buf) \in Nat /\ k.send_offset \in Nat
           /\ k.send_offset <= Len(k.send_buf)
           /\ Unsent(k) = <<>> <=> Len(Unsent(k)) = 0
           /\ OffsetInside(k) /\ Unsent(k) = <<>> => k.send_buf = <<>>
  <1>1. /\ k.send_buf \in Seq(1..MaxBytes) /\ Len(k.send_buf) \in Nat
        /\ k.send_offset \in 0..Len(k.send_buf)
    BY DEF BufferType
  <1>2. /\ Unsent(k) \in Seq(1..MaxBytes)
        /\ Len(Unsent(k)) = Len(k.send_buf) - k.send_offset
    BY <1>1, Split DEF Unsent
  <1>3. Unsent(k) = <<>> <=> Len(Unsent(k)) = 0
    BY <1>2, EmptySeq
  <1>4. OffsetInside(k) /\ Unsent(k) = <<>> => k.send_buf = <<>>
    BY <1>1, <1>2, <1>3 DEF OffsetInside
  <1> QED
    BY <1>1, <1>2, <1>3, <1>4 DEF Stream

\* send took n bytes: they are the first of those unsent, and send_buf is used
\* from its start again once it is empty.
LEMMA AfterSendingProps ==
    ASSUME NEW k, IsClient(k), BufferType(k), NEW n \in 0..Len(Unsent(k))
    PROVE  LET l == AfterSending(k, n) IN
           /\ SameOtherFields(k, l) /\ BufferType(l)
           /\ l.recv_message = k.recv_message
           /\ Unsent(l) = Rest(n, Unsent(k))
           /\ OffsetInside(l)
           /\ n = Len(Unsent(k)) <=> Unsent(l) = <<>>
  <1> DEFINE l == AfterSending(k, n)
             S == 1..MaxBytes
  <1>1. /\ k.send_buf \in Seq(S) /\ Len(k.send_buf) \in Nat
        /\ k.send_offset \in 0..Len(k.send_buf)
        /\ k.recv_message \in Seq(S) /\ Len(k.recv_message) <= MsgCap
        /\ Len(k.send_buf) <= SendCap /\ SendCap \in Nat
    BY BufferAssumption DEF BufferType
  <1>2. /\ Unsent(k) \in Seq(S) /\ Len(Unsent(k)) = Len(k.send_buf) - k.send_offset
    BY UnsentProps DEF Stream
  <1>3. CASE n = Len(Unsent(k))
    <2>1. l = [k EXCEPT !.send_buf = <<>>, !.send_offset = 0]
      BY <1>3 DEF AfterSending, Emptied
    <2>2. /\ SameOtherFields(k, l) /\ l.recv_message = k.recv_message
          /\ l.send_buf = <<>> /\ l.send_offset = 0
      BY <2>1 DEF IsClient, SameOtherFields
    <2> HIDE DEF l
    <2>3. BufferType(l)
      BY <2>2, <1>1, EmptySeq DEF BufferType
    <2>4. Unsent(l) = <<>>
      BY <2>2, SubSeqEmpty DEF Unsent, Rest
    <2>5. Rest(n, Unsent(k)) = <<>>
      BY <1>2, <1>3, SplitEnds
    <2> QED
      BY <1>3, <2>2, <2>3, <2>4, <2>5 DEF l, OffsetInside
  <1>4. CASE n # Len(Unsent(k))
    <2>1. l = [k EXCEPT !.send_offset = @ + n]
      BY <1>4 DEF AfterSending
    <2>2. /\ SameOtherFields(k, l) /\ l.recv_message = k.recv_message
          /\ l.send_buf = k.send_buf /\ l.send_offset = k.send_offset + n
      BY <2>1 DEF IsClient, SameOtherFields
    <2> HIDE DEF l
    <2>3. /\ n \in 0..(Len(k.send_buf) - k.send_offset)
          /\ k.send_offset + n < Len(k.send_buf) /\ k.send_offset + n \in Nat
      BY <1>1, <1>2, <1>4
    <2>4. BufferType(l)
      BY <2>2, <2>3, <1>1 DEF BufferType
    <2>5. Rest(n, Unsent(k)) = Rest(k.send_offset + n, k.send_buf)
      BY <1>1, <2>3, RestRest DEF Unsent
    <2>6. Unsent(l) = Rest(n, Unsent(k))
      BY <2>2, <2>5 DEF Unsent
    <2>7. Len(Unsent(l)) # 0
      BY <2>2, <2>3, <2>4, UnsentProps
    <2> QED
      BY <1>4, <2>2, <2>3, <2>4, <2>6, <2>7, UnsentProps DEF l, OffsetInside
  <1> QED
    BY <1>3, <1>4

-----------------------------------------------------------------------------
(* The trail of a connection: each call moves bytes along it, and leaves it *)
(* as it is.                                                               *)

\* All bytes the peer sent are there, in order.
InOrder(k, s) == Trail(k, s) = [i \in 1..s.sent |-> i]

\* The trail, grouped: what is out, and what is not.
LEMMA TrailGrouped ==
    ASSUME NEW k, BufferType(k), NEW s, SockType(s)
    PROVE  /\ s.got \in Stream /\ s.outq \in Stream /\ s.inq \in Stream
           /\ k.recv_message \in Stream /\ Unsent(k) \in Stream
           /\ s.got \o s.outq \in Stream
           /\ Unsent(k) \o (k.recv_message \o s.inq) \in Stream
           /\ Trail(k, s) = (s.got \o s.outq) \o (Unsent(k) \o (k.recv_message \o s.inq))
  <1> DEFINE g == s.got \o s.outq
             u == Unsent(k)
             m == k.recv_message
             q == s.inq
  <1>1. /\ s.got \in Stream /\ s.outq \in Stream /\ q \in Stream
        /\ m \in Stream /\ u \in Stream
    BY UnsentProps DEF SockType, BufferType, Stream
  <1>2. g \in Stream /\ m \o q \in Stream
    BY <1>1, StreamConcat
  <1>3. Trail(k, s) = ((g \o u) \o m) \o q
    BY DEF Trail
  <1> HIDE DEF g, u, m, q
  <1>4. u \o (m \o q) \in Stream /\ g \o u \in Stream
    BY <1>1, <1>2, StreamConcat
  <1>5. ((g \o u) \o m) \o q = (g \o u) \o (m \o q)
    <2>1. g \o u \in Stream /\ m \in Stream /\ q \in Stream
      BY <1>1, <1>4
    <2> QED
      BY <2>1, StreamAssoc, Zenon
  <1>6. (g \o u) \o (m \o q) = g \o (u \o (m \o q))
    <2>1. g \in Stream /\ u \in Stream /\ m \o q \in Stream
      BY <1>1, <1>2
    <2> QED
      BY <2>1, StreamAssoc, Zenon
  <1>7. Trail(k, s) = g \o (u \o (m \o q))
    BY <1>3, <1>5, <1>6
  <1> QED
    BY <1>1, <1>2, <1>4, <1>7 DEF g, u, m, q

\* handle_recv: bytes move from the socket to recv_message and send_buf.
LEMMA TrailReceived ==
    ASSUME NEW k, IsClient(k), BufferType(k), NEW newlines, NEW eofRet \in {-1, 0, 1},
           NEW s, SockType(s), IsSock(s), NEW r \in Recv(s, RecvBuf),
           ~Received(k, r, newlines, eofRet).full
    PROVE  Trail(Received(k, r, newlines, eofRet).client, AfterRecv(s, r)) = Trail(k, s)
  <1> DEFINE l == Received(k, r, newlines, eofRet).client
             t == AfterRecv(s, r)
  <1>1. BufferType(l) /\ Unsent(l) \o (l.recv_message \o t.inq)
                           = Unsent(k) \o (k.recv_message \o s.inq)
    <2> DEFINE h == Received(k, r, newlines, eofRet)
    <2>1. AfterReceived(k, s, r, newlines, eofRet, h)
      BY ReceivedProps
    <2>2. ~h.full
      OBVIOUS
    <2>3. l = h.client
      OBVIOUS
    <2> HIDE DEF h, l
    <2> QED
      BY <2>1, <2>2, <2>3 DEF AfterReceived
  <1>2. SockType(t) /\ t.got = s.got /\ t.outq = s.outq
    <2>1. \A x \in DOMAIN s \ {"inq"} : t[x] = s[x]
      BY RecvProps, RecvSize
    <2>2. "got" \in DOMAIN s \ {"inq"} /\ "outq" \in DOMAIN s \ {"inq"}
      BY DEF IsSock
    <2>3. SockType(t)
      BY RecvProps, RecvSize
    <2> HIDE DEF t
    <2> QED
      BY <2>1, <2>2, <2>3
  <1> HIDE DEF l, t
  <1>3. Trail(l, t) = (t.got \o t.outq) \o (Unsent(l) \o (l.recv_message \o t.inq))
    BY <1>1, <1>2, TrailGrouped
  <1>4. Trail(k, s) = (s.got \o s.outq) \o (Unsent(k) \o (k.recv_message \o s.inq))
    BY TrailGrouped
  <1> QED
    BY <1>1, <1>2, <1>3, <1>4 DEF l, t

\* handle_send: bytes move from send_buf to the socket.
LEMMA TrailSent ==
    ASSUME NEW k, IsClient(k), BufferType(k), NEW s, SockType(s), IsSock(s)
    PROVE  Trail(AfterSending(k, SendCount(s, Unsent(k))), AfterSend(s, Unsent(k)))
             = Trail(k, s)
  <1> DEFINE q == Unsent(k)
             n == SendCount(s, q)
             l == AfterSending(k, n)
             t == AfterSend(s, q)
             f == First(n, q)
             r == Rest(n, q)
             b == k.recv_message \o s.inq
             g == s.got
             o == s.outq
  <1>1. /\ g \in Stream /\ o \in Stream /\ q \in Stream
        /\ Trail(k, s) = (g \o o) \o (q \o b) /\ k.recv_message \in Stream
        /\ s.inq \in Stream
    BY TrailGrouped
  <1>2. n \in 0..Len(q)
    BY <1>1, SendCountProps
  <1>3. BufferType(l) /\ Unsent(l) = r /\ l.recv_message = k.recv_message
    BY <1>2, AfterSendingProps
  <1>4. /\ SockType(t) /\ t.outq = o \o f /\ t.got = g /\ t.inq = s.inq
    BY <1>1, AfterSendProps
  <1>5. f \in Stream /\ r \in Stream /\ f \o r = q
    BY <1>1, <1>2, Split DEF Stream
  <1>6. b \in Stream
    BY <1>1, StreamConcat
  <1>7. Trail(l, t) = (t.got \o t.outq) \o (Unsent(l) \o (l.recv_message \o t.inq))
    <2> HIDE DEF l, t
    <2> QED
      BY <1>3, <1>4, TrailGrouped
  <1>8. Trail(l, t) = (g \o (o \o f)) \o (r \o b)
    <2> HIDE DEF l, t, f, r, g, o
    <2> QED
      BY <1>3, <1>4, <1>7
  <1> HIDE DEF q, n, l, t, f, r, b, g, o
  <1>9. g \o (o \o f) = (g \o o) \o f
    <2>1. g \in Stream /\ o \in Stream /\ f \in Stream
      BY <1>1, <1>5
    <2> QED
      BY <2>1, StreamAssoc, Zenon
  <1>10. g \o o \in Stream /\ r \o b \in Stream
    BY <1>1, <1>5, <1>6, StreamConcat
  <1>11. ((g \o o) \o f) \o (r \o b) = (g \o o) \o (f \o (r \o b))
    BY <1>5, <1>10, StreamAssoc, Zenon
  <1>12. f \o (r \o b) = (f \o r) \o b
    BY <1>5, <1>6, StreamAssoc, Zenon
  <1>13. Trail(l, t) = Trail(k, s)
    BY <1>1, <1>5, <1>8, <1>9, <1>11, <1>12
  <1> QED
    BY <1>13 DEF l, t, n, q

\* The peer sends: the stream grows at its end.
LEMMA TrailPeerSend ==
    ASSUME NEW k, BufferType(k), NEW s, IsSock(s), SockType(s),
           NEW n \in Nat, s.sent + n <= MaxBytes, InOrder(k, s)
    PROVE  InOrder(k, PeerSend(s, n))
  <1> DEFINE t == PeerSend(s, n)
             b == [i \in 1..n |-> s.sent + i]
             g == s.got \o s.outq
             u == Unsent(k)
             m == k.recv_message
             q == s.inq
  <1>0. s.sent \in Nat
    BY DEF SockType
  <1>1. /\ SockType(t) /\ t.sent = s.sent + n /\ t.inq = q \o b
        /\ t.got \o t.outq = g
    BY PeerSendProps
  <1>2. /\ b \in Stream
        /\ [i \in 1..s.sent |-> i] \o b = [i \in 1..(s.sent + n) |-> i]
    BY <1>0, NextBytes
  <1>3. /\ g \in Stream /\ u \in Stream /\ m \in Stream /\ q \in Stream
        /\ u \o (m \o q) \in Stream
        /\ Trail(k, s) = g \o (u \o (m \o q))
    BY TrailGrouped
  <1>4. Trail(k, t) = (t.got \o t.outq) \o (u \o (m \o t.inq))
    <2> HIDE DEF t
    <2> QED
      BY <1>1, TrailGrouped
  <1> HIDE DEF t, b, g, u, m, q
  <1>5. Trail(k, t) = g \o (u \o (m \o (q \o b)))
    BY <1>1, <1>4
  <1>6. m \o (q \o b) = (m \o q) \o b
    BY <1>2, <1>3, StreamAssoc, Zenon
  <1>7. m \o q \in Stream
    BY <1>3, StreamConcat
  <1>8. u \o ((m \o q) \o b) = (u \o (m \o q)) \o b
    <2>1. u \in Stream /\ m \o q \in Stream /\ b \in Stream
      BY <1>2, <1>3, <1>7
    <2> QED
      BY <2>1, StreamAssoc, Zenon
  <1>9. g \o ((u \o (m \o q)) \o b) = (g \o (u \o (m \o q))) \o b
    <2>1. g \in Stream /\ u \o (m \o q) \in Stream /\ b \in Stream
      BY <1>2, <1>3
    <2> QED
      BY <2>1, StreamAssoc, Zenon
  <1>10. Trail(k, t) = Trail(k, s) \o b
    BY <1>3, <1>5, <1>6, <1>8, <1>9
  <1> QED
    BY <1>1, <1>2, <1>10 DEF InOrder, t

\* The peer reads: what it got is still at the start of the stream.
LEMMA TrailPeerRead ==
    ASSUME NEW k, BufferType(k), NEW s, IsSock(s), SockType(s),
           NEW n \in 0..Len(s.outq)
    PROVE  Trail(k, PeerRead(s, n)) = Trail(k, s)
  <1> DEFINE t == PeerRead(s, n)
  <1>1. /\ SockType(t) /\ t.inq = s.inq
        /\ t.got \o t.outq = s.got \o s.outq
    BY PeerReadProps
  <1> HIDE DEF t
  <1>2. Trail(k, t) = (t.got \o t.outq) \o (Unsent(k) \o (k.recv_message \o t.inq))
    BY <1>1, TrailGrouped
  <1>3. Trail(k, s) = (s.got \o s.outq) \o (Unsent(k) \o (k.recv_message \o s.inq))
    BY TrailGrouped
  <1> QED
    BY <1>1, <1>2, <1>3 DEF t

\* Only the peer's bytes that are not there yet tell apart two sockets.
LEMMA TrailSame ==
    ASSUME NEW k, NEW s, NEW t, t.got = s.got, t.outq = s.outq, t.inq = s.inq
    PROVE  Trail(k, t) = Trail(k, s)
  BY DEF Trail

-----------------------------------------------------------------------------
(* A slot in the array of a select server, and what a call does to it.     *)

SlotFields == {"client_fd", "recv_message", "send_buf", "send_offset"}

\* A slot with client k whose descriptor has socket s and line ends nl; o: a
\* buffer was too small.
SlotOK(k, s, nl, o) ==
    /\ IsClient(k) /\ DOMAIN k = SlotFields /\ BufferType(k)
    /\ IsSock(s) /\ SockType(s)
    /\ ~o /\ ~s.rst => InOrder(k, s)
    /\ ~o => LineEnds(k.recv_message, nl) = {}

\* A descriptor number that accept returned, in a slot that was free.
LEMMA SlotAdmitted ==
    ASSUME NEW f, NEW nl, NEW k,
           k = [client_fd |-> f, recv_message |-> <<>>, send_buf |-> <<>>, send_offset |-> 0]
    PROVE  /\ SlotOK(k, NewSock, nl, FALSE) /\ Unsent(k) = <<>> /\ k.client_fd = f
           /\ IsSock(NewSock) /\ SockType(NewSock)
  <1>0. MaxBytes \in Nat /\ MsgCap \in Nat /\ SendCap \in Nat /\ SockCap \in Nat
    BY BufferAssumption, SockAssumption
  <1>1. <<>> \in Seq(1..MaxBytes) /\ Len(<<>>) = 0
    BY EmptySeq
  <1>2. Unsent(k) = <<>>
    BY <1>1, SubSeqEmpty DEF Unsent, Rest
  <1>3. IsSock(NewSock) /\ SockType(NewSock)
    BY <1>0, <1>1 DEF SockType, NewSock, IsSock
  <1>4. BufferType(k) /\ IsClient(k) /\ DOMAIN k = SlotFields /\ k.client_fd = f
    BY <1>0, <1>1 DEF BufferType, IsClient, SlotFields
  <1>5. LineEnds(k.recv_message, nl) = {}
    BY <1>1 DEF LineEnds
  <1>6. Trail(k, NewSock) = <<>>
    <2>1. Trail(k, NewSock) = (((<<>> \o <<>>) \o <<>>) \o <<>>) \o <<>>
      BY <1>2 DEF Trail, NewSock
    <2>2. <<>> \o <<>> = <<>>
      BY <1>1, ConcatEmptySeq
    <2> QED
      BY <2>1, <2>2
  <1>7. InOrder(k, NewSock)
    <2>1. [b \in 1..0 |-> b] = <<>>
      OBVIOUS
    <2> QED
      BY <2>1, <1>6 DEF InOrder, NewSock
  <1> QED
    BY <1>2, <1>3, <1>4, <1>5, <1>7 DEF SlotOK

\* What a peer does leaves its slot as it should be, and takes back neither a byte
\* nor an end that recv would have found.
LEMMA SlotPeer ==
    ASSUME NEW k, NEW s, NEW nl, NEW o \in BOOLEAN,
           IsSock(s), SockType(s), NEW t,
           \/ \E n \in Nat : CanSend(s) /\ s.sent + n <= MaxBytes /\ t = PeerSend(s, n)
           \/ CanSend(s) /\ t = PeerFin(s)
           \/ t = PeerReset(s)
           \/ t = PeerRead(s, Len(s.outq))
    PROVE  /\ IsSock(t) /\ SockType(t) /\ (Readable(s) => Readable(t))
           /\ SlotOK(k, s, nl, o) => SlotOK(k, t, nl, o)
  <1>0. DOMAIN s = {"sent", "inq", "outq", "got", "fin", "rst"} /\ s.inq \in Stream
    BY DEF IsSock, SockType, Stream
  <1>1. ASSUME NEW n \in Nat, CanSend(s), s.sent + n <= MaxBytes, t = PeerSend(s, n)
        PROVE  /\ IsSock(t) /\ SockType(t) /\ (Readable(s) => Readable(t))
               /\ SlotOK(k, s, nl, o) => SlotOK(k, t, nl, o)
    <2>1. /\ IsSock(t) /\ SockType(t) /\ t.fin = s.fin /\ t.rst = s.rst
          /\ t.inq = s.inq \o [j \in 1..n |-> s.sent + j] /\ t.sent = s.sent + n
      BY <1>1, PeerSendProps
    <2>2. s.inq # <<>> => t.inq # <<>>
      <3> DEFINE b == [j \in 1..n |-> s.sent + j]
      <3>1. b \in Stream
        <4>1. s.sent \in Nat
          BY DEF SockType
        <4> QED
          BY <4>1, <1>1, NextBytes
      <3> HIDE DEF b
      <3>2. s.inq \o b = <<>> => s.inq = <<>>
        BY <1>0, <3>1, ConcatEqualIffEmpty DEF Stream
      <3> QED
        BY <2>1, <3>2 DEF b
    <2>3. BufferType(k) /\ InOrder(k, s) => InOrder(k, t)
      BY <1>1, TrailPeerSend
    <2> QED
      BY <2>1, <2>2, <2>3 DEF SlotOK, Readable
  <1>2. ASSUME CanSend(s), t = PeerFin(s)
        PROVE  /\ IsSock(t) /\ SockType(t) /\ (Readable(s) => Readable(t))
               /\ SlotOK(k, s, nl, o) => SlotOK(k, t, nl, o)
    <2>1. IsSock(t) /\ SockType(t) /\ t.fin /\ \A x \in DOMAIN s \ {"fin"} : t[x] = s[x]
      BY <1>2, PeerEndProps
    <2>2. t.sent = s.sent /\ t.inq = s.inq /\ t.outq = s.outq /\ t.got = s.got /\ t.rst = s.rst
      BY <2>1, <1>0
    <2>3. InOrder(k, s) => InOrder(k, t)
      BY <2>2, TrailSame DEF InOrder
    <2> QED
      BY <2>1, <2>2, <2>3 DEF SlotOK, Readable
  <1>3. ASSUME t = PeerReset(s)
        PROVE  /\ IsSock(t) /\ SockType(t) /\ (Readable(s) => Readable(t))
               /\ SlotOK(k, s, nl, o) => SlotOK(k, t, nl, o)
    <2>1. IsSock(t) /\ SockType(t) /\ t.rst
      BY <1>3, PeerEndProps
    <2> QED
      BY <2>1 DEF SlotOK, Readable
  <1>4. ASSUME t = PeerRead(s, Len(s.outq))
        PROVE  /\ IsSock(t) /\ SockType(t) /\ (Readable(s) => Readable(t))
               /\ SlotOK(k, s, nl, o) => SlotOK(k, t, nl, o)
    <2>0. Len(s.outq) \in 0..Len(s.outq)
      BY DEF SockType
    <2>1. /\ IsSock(t) /\ SockType(t) /\ t.sent = s.sent
          /\ t.fin = s.fin /\ t.rst = s.rst /\ t.inq = s.inq
      BY <1>4, <2>0, PeerReadProps
    <2>2. BufferType(k) => Trail(k, t) = Trail(k, s)
      BY <1>4, <2>0, TrailPeerRead
    <2>3. BufferType(k) /\ InOrder(k, s) => InOrder(k, t)
      BY <2>1, <2>2 DEF InOrder
    <2> QED
      BY <2>1, <2>3 DEF SlotOK, Readable
  <1> QED
    BY <1>1, <1>2, <1>3, <1>4

\* handle_recv: what it returns -1 for, and the slot after it.
LEMMA SlotReceived ==
    ASSUME NEW k, NEW s, NEW nl, NEW o \in BOOLEAN, SlotOK(k, s, nl, o),
           NEW r \in Recv(s, RecvBuf), NEW h, h = Received(k, r, nl, -1)
    PROVE  /\ SlotOK(h.client, AfterRecv(s, r), nl, o \/ h.full)
           /\ h.full \in BOOLEAN
           /\ h.client.client_fd = k.client_fd
           /\ Unsent(k) # <<>> => Unsent(h.client) # <<>>
           /\ h.ret = -1 => s.rst \/ h.full \/ (s.fin /\ s.inq = <<>>)
           /\ IsSock(AfterRecv(s, r)) /\ SockType(AfterRecv(s, r))
  <1> DEFINE t == AfterRecv(s, r)
             l == h.client
  <1>1. IsClient(k) /\ BufferType(k) /\ DOMAIN k = SlotFields /\ IsSock(s) /\ SockType(s)
    BY DEF SlotOK
  <1>3. AfterReceived(k, s, r, nl, -1, h)
    BY <1>1, ReceivedProps
  <1>4. /\ IsClient(l) /\ DOMAIN l = SlotFields /\ BufferType(l)
        /\ l.client_fd = k.client_fd /\ h.full \in BOOLEAN
    BY <1>1, <1>3 DEF AfterReceived, SameOtherFields, SlotFields
  <1>5. /\ IsSock(t) /\ SockType(t) /\ t.sent = s.sent /\ t.rst = s.rst
    <2>1. /\ IsSock(t) /\ SockType(t)
          /\ \A x \in DOMAIN s \ {"inq"} : t[x] = s[x]
      BY <1>1, RecvProps, RecvSize
    <2>2. DOMAIN s = {"sent", "inq", "outq", "got", "fin", "rst"}
      BY <1>1 DEF IsSock
    <2> HIDE DEF t
    <2> QED
      BY <2>1, <2>2
  <1>6. ~h.full => Trail(l, t) = Trail(k, s)
    BY <1>1, TrailReceived
  <1>7. /\ r.ret \in {"data", "eof", "again", "error"}
        /\ r.ret = "eof" => s.fin \/ s.rst
        /\ r.ret = "error" => s.rst
        /\ r.ret # "data" => s.inq = <<>>
    BY <1>1, RecvProps, RecvSize
  <1> HIDE DEF t, l
  <1>8. SlotOK(l, t, nl, o \/ h.full)
    <2>1. ASSUME ~o, ~h.full, ~t.rst PROVE InOrder(l, t)
      <3>1. InOrder(k, s)
        BY <2>1, <1>5 DEF SlotOK
      <3> QED
        BY <3>1, <2>1, <1>5, <1>6 DEF InOrder
    <2>2. ASSUME ~o, ~h.full PROVE LineEnds(l.recv_message, nl) = {}
      <3>1. LineEnds(k.recv_message, nl) = {}
        BY <2>2 DEF SlotOK
      <3> QED
        BY <3>1, <2>2, <1>3 DEF AfterReceived, l
    <2> QED
      BY <2>1, <2>2, <1>4, <1>5 DEF SlotOK
  <1>9. ASSUME Unsent(k) # <<>> PROVE Unsent(l) # <<>>
    <2>1. Len(Unsent(k)) # 0 /\ Len(Unsent(k)) \in Nat
      BY <1>1, <1>9, UnsentProps
    <2>2. Len(Unsent(k)) <= Len(Unsent(l)) /\ Len(Unsent(l)) \in Nat
      BY <1>3, <1>4, UnsentProps DEF AfterReceived, l
    <2>3. Len(Unsent(l)) # 0
      BY <2>1, <2>2
    <2> QED
      BY <1>4, <2>3, UnsentProps
  <1>10. ASSUME h.ret = -1 PROVE s.rst \/ h.full \/ (s.fin /\ s.inq = <<>>)
    <2>1. /\ r.ret = "data" => (h.ret = -1 => h.full)
          /\ r.ret = "again" => h.ret = 0
      BY <1>3 DEF AfterReceived
    <2> QED
      BY <2>1, <1>7, <1>10
  <1> QED
    BY <1>4, <1>5, <1>8, <1>9, <1>10 DEF t, l

\* handle_send: the slot after send took what there was room for.
LEMMA SlotSent ==
    ASSUME NEW k, NEW s, NEW nl, NEW o \in BOOLEAN, SlotOK(k, s, nl, o),
           NEW n, n = SendCount(s, Unsent(k))
    PROVE  LET l == AfterSending(k, n)
               t == AfterSend(s, Unsent(k)) IN
           /\ SlotOK(l, t, nl, o)
           /\ l.client_fd = k.client_fd
           /\ n = Len(Unsent(k)) <=> Unsent(l) = <<>>
           /\ IsSock(t) /\ SockType(t)
  <1> DEFINE l == AfterSending(k, n)
             t == AfterSend(s, Unsent(k))
  <1>1. IsClient(k) /\ BufferType(k) /\ DOMAIN k = SlotFields /\ IsSock(s) /\ SockType(s)
    BY DEF SlotOK
  <1>2. Unsent(k) \in Stream /\ n \in 0..Len(Unsent(k))
    BY <1>1, UnsentProps, SendCountProps
  <1>3. /\ SameOtherFields(k, l) /\ BufferType(l) /\ l.recv_message = k.recv_message
        /\ n = Len(Unsent(k)) <=> Unsent(l) = <<>>
    BY <1>1, <1>2, AfterSendingProps
  <1>4. IsSock(t) /\ SockType(t) /\ t.sent = s.sent /\ t.rst = s.rst
    BY <1>1, <1>2, AfterSendProps
  <1>5. Trail(l, t) = Trail(k, s)
    BY <1>1, TrailSent
  <1> HIDE DEF l, t
  <1>6. l.client_fd = k.client_fd /\ IsClient(l) /\ DOMAIN l = SlotFields
    BY <1>1, <1>3 DEF SameOtherFields, SlotFields
  <1>7. InOrder(k, s) => InOrder(l, t)
    BY <1>4, <1>5 DEF InOrder
  <1>8. SlotOK(l, t, nl, o)
    BY <1>3, <1>4, <1>6, <1>7 DEF SlotOK
  <1> QED
    BY <1>3, <1>4, <1>6, <1>8 DEF l, t
==============================================================================
