----------------------------- MODULE EchoBuffers -----------------------------
(***************************************************************************)
(* The two buffers of a connection and the framing between them, as the    *)
(* select and epoll servers under socket_test have them: what recv returns *)
(* is appended to recv_message, and the complete lines of recv_message     *)
(* move to send_buf, from which send takes bytes at send_offset.           *)
(*                                                                         *)
(* A client is a record with at least recv_message (its first `used`       *)
(* bytes), send_buf (its first send_len bytes) and send_offset; newlines   *)
(* is the set of its peer's bytes that are '\n'.                           *)
(***************************************************************************)
EXTENDS StreamSocket, Integers, FiniteSetsExt

CONSTANTS
    RecvBuf,    \* sizeof(recv_buf)
    MsgCap,     \* sizeof(recv_message)
    SendCap     \* sizeof(send_buf)

ASSUME BufferAssumption ==
    /\ {RecvBuf, MsgCap, SendCap} \subseteq Nat
    /\ RecvBuf > 0

BufferType(k) ==
    /\ k.recv_message \in Seq(1..MaxBytes) /\ Len(k.recv_message) <= MsgCap
    /\ k.send_buf \in Seq(1..MaxBytes) /\ Len(k.send_buf) <= SendCap
    /\ k.send_offset \in 0..Len(k.send_buf)

-----------------------------------------------------------------------------
(* handle_recv.                                                            *)

LineEnds(message, newlines) == {i \in 1..Len(message) : message[i] \in newlines}

\* Mutated form of Fitting: only the first line of a receive is moved.
Fitting_OneLine(k, message, newlines) ==
    LET fit == {i \in LineEnds(message, newlines) : Len(k.send_buf) + i <= SendCap}
    IN  IF fit = {} THEN 0 ELSE Min(fit)

\* The complete lines of message that fit behind what send_buf holds: they are
\* moved one by one, and the first that does not fit ends the move.
Fitting(k, message, newlines) ==
    Max({0} \cup {i \in LineEnds(message, newlines) : Len(k.send_buf) + i <= SendCap})

SendBufFull(k, message, newlines) ==
    \E i \in LineEnds(message, newlines) : Len(k.send_buf) + i > SendCap

\* Mutated form of MessageTooLong: the room in recv_message is not checked.
MessageTooLong_Never(k, bytes) == FALSE

\* What recv returned does not fit in recv_message.
MessageTooLong(k, bytes) == Len(k.recv_message) + Len(bytes) > MsgCap

\* Data that fits is appended, and its complete lines move to send_buf.
Stored(k, bytes, newlines) ==
    LET message == k.recv_message \o bytes
        cut     == Fitting(k, message, newlines)
        full    == SendBufFull(k, message, newlines)
    IN  [client |-> [k EXCEPT !.recv_message = Rest(cut, message),
                              !.send_buf = @ \o First(cut, message)],
         ret    |-> IF full THEN -1 ELSE 0,
         full   |-> full]

\* Nothing is stored: data that does not fit is lost.
NotStored(k, ret, full) == [client |-> k, ret |-> ret, full |-> full]

\* The client after recv returned r, the result, and whether a buffer was too
\* small.  The result of the end of the stream is the server's own.
Received(k, r, newlines, eofRet) ==
    CASE r.ret = "data" /\ MessageTooLong(k, r.bytes)  -> NotStored(k, -1, TRUE)
      [] r.ret = "data" /\ ~MessageTooLong(k, r.bytes) -> Stored(k, r.bytes, newlines)
      [] r.ret = "eof"   -> NotStored(k, eofRet, FALSE)
      [] r.ret = "again" -> NotStored(k, 0, FALSE)
      [] r.ret = "error" -> NotStored(k, -1, FALSE)

-----------------------------------------------------------------------------
(* handle_send.                                                            *)

Unsent(k) == Rest(k.send_offset, k.send_buf)

\* Mutated form of Emptied: the offset is not reset with the length.
Emptied_KeepsOffset(k) == [k EXCEPT !.send_buf = <<>>, !.send_offset = Len(k.send_buf)]

Emptied(k) == [k EXCEPT !.send_buf = <<>>, !.send_offset = 0]

\* The client after send took n bytes: the buffer is reused once it is empty.
AfterSending(k, n) ==
    IF n = Len(Unsent(k)) THEN Emptied(k) ELSE [k EXCEPT !.send_offset = @ + n]

-----------------------------------------------------------------------------
\* Where the bytes of a connection are, oldest first.
Trail(k, s) == s.got \o s.outq \o Unsent(k) \o k.recv_message \o s.inq
==============================================================================
