---------------------------- MODULE StreamSocket -----------------------------
(***************************************************************************)
(* A connected, non-blocking stream socket as the servers under            *)
(* socket_test use it: what recv and send return, and what the peer can    *)
(* do.  The kernel is not part of the repository, so this module only      *)
(* states what the servers rely on.                                        *)
(*                                                                         *)
(* The peer's bytes are numbered 1, 2, 3, ... in the order it sends them,  *)
(* and every byte the server sends is a copy of one of them, so a number   *)
(* tells which byte it is.  Operators take a socket s and give the         *)
(* sockets, results or conditions that follow.                             *)
(***************************************************************************)
EXTENDS Naturals, Sequences

CONSTANTS
    MaxBytes,   \* bound: bytes each peer sends
    SockCap     \* bytes the kernel holds for a peer that does not read

ASSUME SockAssumption == MaxBytes \in Nat /\ SockCap \in Nat \ {0}

\* sent: bytes the peer has sent; inq: those of them recv has not returned;
\* outq: bytes sent by the server and not read by the peer; got: those it read;
\* fin: the peer ended its stream; rst: the connection was reset.
NewSock == [sent |-> 0, inq |-> <<>>, outq |-> <<>>, got |-> <<>>,
            fin |-> FALSE, rst |-> FALSE]

SockType(s) ==
    /\ s.sent \in 0..MaxBytes
    /\ s.inq \in Seq(1..MaxBytes)
    /\ s.outq \in Seq(1..MaxBytes) /\ Len(s.outq) <= SockCap
    /\ s.got \in Seq(1..MaxBytes)
    /\ s.fin \in BOOLEAN /\ s.rst \in BOOLEAN

First(n, q) == SubSeq(q, 1, n)
Rest(n, q)  == SubSeq(q, n + 1, Len(q))
Least(a, b) == IF a <= b THEN a ELSE b

-----------------------------------------------------------------------------
(* The peer.                                                               *)

CanSend(s)   == ~s.fin /\ ~s.rst
PeerSend(s, n) ==
    [s EXCEPT !.sent = @ + n,
              !.inq = @ \o [i \in 1..n |-> s.sent + i]]

PeerFin(s) == [s EXCEPT !.fin = TRUE]

PeerRead(s, n) ==
    [s EXCEPT !.outq = Rest(n, @), !.got = @ \o First(n, s.outq)]

\* A reset drops what the peer has not read; what the server has not read stays.
PeerReset(s) == [s EXCEPT !.rst = TRUE, !.outq = <<>>]

-----------------------------------------------------------------------------
(* recv and send.                                                          *)

\* Data first; then the end of the stream, or the error of a reset; else EAGAIN.
\* A reset connection reports its error once, and the end of the stream after.
Recv(s, max) ==
    IF s.inq # <<>>
    THEN {[ret |-> "data", bytes |-> First(Least(max, Len(s.inq)), s.inq)]}
    ELSE {[ret |-> r, bytes |-> <<>>] :
            r \in IF s.rst THEN {"error", "eof"}
                  ELSE IF s.fin THEN {"eof"} ELSE {"again"}}

AfterRecv(s, r) == [s EXCEPT !.inq = Rest(Len(r.bytes), @)]

\* As many bytes as there is room for; none of them is EAGAIN.
Room(s) == SockCap - Len(s.outq)

SendCount(s, q) == Least(Room(s), Len(q))

AfterSend(s, q) == [s EXCEPT !.outq = @ \o First(SendCount(s, q), q)]

-----------------------------------------------------------------------------
(* What poll, select and epoll report.                                     *)

Readable(s) == s.inq # <<>> \/ s.fin \/ s.rst
Rdhup(s)    == s.fin \/ s.rst
Writable(s) == s.rst \/ Room(s) > 0
==============================================================================
