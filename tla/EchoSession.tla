----------------------------- MODULE EchoSession -----------------------------
(***************************************************************************)
(* One connection of the thread-pool server: handle_client of              *)
(* socket_test/server_pthread_pool.c, with send_all, against a peer that   *)
(* sends, reads, ends its stream or disappears at any moment.              *)
(*                                                                         *)
(* buf is only a copy between recv and message; its size bounds a recv.    *)
(* message is the sequence of its first `used` bytes.  The session asks    *)
(* for O_NONBLOCK; if fcntl fails it goes on with a blocking socket, whose *)
(* recv and send wait where the other's return EAGAIN.                     *)
(***************************************************************************)
EXTENDS StreamSocket, FiniteSetsExt

CONSTANTS
    BufSize,      \* sizeof(buf)
    MessageSize   \* sizeof(message)

ASSUME SessionAssumption ==
    /\ BufSize \in Nat /\ BufSize >= 2
    /\ MessageSize \in Nat \ {0}

VARIABLES
    sock,      \* the connection
    newlines,  \* which of the peer's bytes are '\n'
    nonblock,  \* O_NONBLOCK is set
    message,   \* bytes received and not echoed
    line,      \* what send_all has still to send of the current line
    dropped,   \* bytes of lines on which send_all gave up
    pc         \* fcntl, recv, frame, send_all, or how the session ended

vars == <<sock, newlines, nonblock, message, line, dropped, pc>>

Ends == {"eof", "too_long", "recv_error", "sigpipe"}

Init ==
    /\ sock = NewSock
    /\ newlines \in SUBSET (1..MaxBytes)
    /\ nonblock = FALSE
    /\ message = <<>> /\ line = <<>> /\ dropped = {}
    /\ pc = "fcntl"

-----------------------------------------------------------------------------
(* The peer.                                                               *)

Peer(s) == sock' = s /\ UNCHANGED <<newlines, nonblock, message, line, dropped, pc>>

Send(n) ==
    /\ CanSend(sock)
    /\ sock.sent + n <= MaxBytes
    /\ Peer(PeerSend(sock, n))

Fin == CanSend(sock) /\ Peer(PeerFin(sock))

Reset == ~sock.rst /\ Peer(PeerReset(sock))

Read(n) == n <= Len(sock.outq) /\ Peer(PeerRead(sock, n))

-----------------------------------------------------------------------------
(* handle_client.                                                          *)

SetNonblock ==
    /\ pc = "fcntl"
    /\ nonblock' \in BOOLEAN
    /\ pc' = "recv"
    /\ UNCHANGED <<sock, newlines, message, line, dropped>>

\* Mutated form of TooLong: message is not checked for room.
TooLong_Never(n) == FALSE

\* Mutated form of TooLong: message may not be filled to its last byte.
TooLong_OffByOne(n) == Len(message) + n >= MessageSize

TooLong(n) == Len(message) + n > MessageSize

\* recv returned data: it is appended, or the session ends.
Receive ==
    /\ pc = "recv"
    /\ \E r \in Recv(sock, BufSize - 1) :
         /\ r.ret = "data"
         /\ sock' = AfterRecv(sock, r)
         /\ IF TooLong(Len(r.bytes))
            THEN pc' = "too_long" /\ UNCHANGED message
            ELSE pc' = "frame" /\ message' = message \o r.bytes
    /\ UNCHANGED <<newlines, nonblock, line, dropped>>

\* Mutated form of ReceiveEnd: the end of the stream is taken for EAGAIN.
ReceiveEnd_IgnoresEof ==
    /\ pc = "recv"
    /\ \E r \in Recv(sock, BufSize - 1) :
         \/ r.ret = "eof" /\ pc' = "frame"
         \/ r.ret = "error" /\ pc' = "recv_error"
    /\ UNCHANGED <<sock, newlines, nonblock, message, line, dropped>>

\* recv returned 0 or an error.
ReceiveEnd ==
    /\ pc = "recv"
    /\ \E r \in Recv(sock, BufSize - 1) :
         \/ r.ret = "eof" /\ pc' = "eof"
         \/ r.ret = "error" /\ pc' = "recv_error"
    /\ UNCHANGED <<sock, newlines, nonblock, message, line, dropped>>

\* EAGAIN: the framing loop runs on what is left, then recv is called again.
ReceiveAgain ==
    /\ pc = "recv" /\ nonblock
    /\ \E r \in Recv(sock, BufSize - 1) : r.ret = "again"
    /\ pc' = "frame"
    /\ UNCHANGED <<sock, newlines, nonblock, message, line, dropped>>

MessageEnds == {i \in 1..Len(message) : message[i] \in newlines}

\* Mutated form of FrameLine: the memmove starts one byte early.
FrameLine_OffByOne ==
    /\ pc = "frame"
    /\ MessageEnds # {}
    /\ LET msg_len == Min(MessageEnds)
       IN  /\ line' = First(msg_len, message)
           /\ message' = Rest(msg_len - 1, message)
    /\ pc' = "send_all"
    /\ UNCHANGED <<sock, newlines, nonblock, dropped>>

\* The first complete line is handed to send_all and leaves message; the
\* buffers are the thread's own, so the memmove may as well come first.
FrameLine ==
    /\ pc = "frame"
    /\ MessageEnds # {}
    /\ LET msg_len == Min(MessageEnds)
       IN  /\ line' = First(msg_len, message)
           /\ message' = Rest(msg_len, message)
    /\ pc' = "send_all"
    /\ UNCHANGED <<sock, newlines, nonblock, dropped>>

FrameNone ==
    /\ pc = "frame"
    /\ MessageEnds = {}
    /\ pc' = "recv"
    /\ UNCHANGED <<sock, newlines, nonblock, message, line, dropped>>

-----------------------------------------------------------------------------
(* send_all: it sends until the line is out or send fails, and handle_client *)
(* does not look at what it returns.                                       *)

SendSome ==
    /\ pc = "send_all"
    /\ ~sock.rst /\ SendCount(sock, line) > 0
    /\ sock' = AfterSend(sock, line)
    /\ line' = Rest(SendCount(sock, line), line)
    /\ pc' = IF line' = <<>> THEN "frame" ELSE "send_all"
    /\ UNCHANGED <<newlines, nonblock, message, dropped>>

\* Mutated form of SendGivesUp: the failed send counts as a byte sent.
SendGivesUp_SkipsByte ==
    /\ pc = "send_all"
    /\ sock.rst \/ (nonblock /\ Room(sock) = 0)
    /\ dropped' = dropped \cup {line[1]}
    /\ line' = Tail(line)
    /\ pc' = IF line' = <<>> THEN "frame" ELSE "send_all"
    /\ UNCHANGED <<sock, newlines, nonblock, message>>

\* send returns -1 with EAGAIN, or with the error of a reset: the rest of the
\* line is lost and the session continues.
SendGivesUp ==
    /\ pc = "send_all"
    /\ sock.rst \/ (nonblock /\ Room(sock) = 0)
    /\ dropped' = dropped \cup {line[i] : i \in 1..Len(line)}
    /\ line' = <<>>
    /\ pc' = "frame"
    /\ UNCHANGED <<sock, newlines, nonblock, message>>

\* On a reset connection send may instead raise SIGPIPE, which nobody handles.
SendKills ==
    /\ pc = "send_all"
    /\ sock.rst
    /\ pc' = "sigpipe"
    /\ UNCHANGED <<sock, newlines, nonblock, message, line, dropped>>

-----------------------------------------------------------------------------
Session ==
    \/ SetNonblock \/ Receive \/ ReceiveEnd \/ ReceiveAgain
    \/ FrameLine \/ FrameNone \/ SendSome \/ SendGivesUp \/ SendKills

Next ==
    \/ pc \notin Ends /\ (Fin \/ Reset)
    \/ \E n \in 1..MaxBytes : pc \notin Ends /\ (Send(n) \/ Read(n))
    \/ Session

Spec == Init /\ [][Next]_vars

\* The worker keeps running; the peer need not do anything.
FairSpec == Spec /\ WF_vars(Session)

-----------------------------------------------------------------------------
(* Properties                                                              *)

TypeOK ==
    /\ SockType(sock)
    /\ newlines \subseteq 1..MaxBytes
    /\ nonblock \in BOOLEAN
    /\ message \in Seq(1..MaxBytes) /\ Len(message) <= MessageSize
    /\ line \in Seq(1..MaxBytes)
    /\ dropped \subseteq 1..MaxBytes
    /\ pc \in {"fcntl", "recv", "frame", "send_all"} \cup Ends

Increasing(q) == \A i, j \in 1..Len(q) : i < j => q[i] < q[j]

Bytes(q) == {q[i] : i \in 1..Len(q)}

\* What the peer has read or will read, and what the session has still to do.
Echoed  == sock.got \o sock.outq
Pending == line \o message \o sock.inq

\* On a connection that is not reset every byte is in one place: echoed, in
\* order; dropped by a send_all that gave up; or pending, and then the pending
\* bytes are the last ones sent, in order.  So nothing is echoed twice, out of
\* order, or after it was dropped (lines 73-74, 87-103 and send_all).
Conserved ==
    ~sock.rst /\ pc # "too_long" =>
        LET done == sock.sent - Len(Pending) IN
        /\ Pending = [i \in 1..Len(Pending) |-> done + i]
        /\ Increasing(Echoed)
        /\ Bytes(Echoed) \cup dropped = 1..done
        /\ Bytes(Echoed) \cap dropped = {}

\* A line that send_all gave up on is cut for good, its newline included: the
\* peer gets a prefix of it, joined to the next line it is sent (lines 42-48
\* and 100: the rest of the line is not kept for a retry).
CutToTheEnd ==
    \A i \in dropped : \A j \in i..sock.sent :
        (\A k \in i..(j - 1) : k \notin newlines) => j \in dropped

\* Any n bytes in a row of those sent contain the end of a line.
LinesWithin(n) ==
    \A i \in 0..sock.sent : i + n <= sock.sent =>
        \E j \in (i + 1)..(i + n) : j \in newlines

\* A peer whose lines, newlines included, leave room in message for a whole
\* recv and one byte less is never told that its message is too long.  The
\* bound is not sizeof(message): the bytes received behind the end of a line
\* count against that line (lines 67-72).
ShortLinesAccepted ==
    MessageSize + 2 > BufSize /\ LinesWithin(MessageSize + 2 - BufSize) =>
        pc # "too_long"

\* A peer that ends its stream ends the session, whether or not it reads its
\* echo; only where fcntl failed may the worker be held in send instead, by a
\* peer that does not read (lines 55-61 and 66-105).
EndsAfterFin ==
    sock.fin ~> (pc \in Ends \/ (~nonblock /\ pc = "send_all" /\ Room(sock) = 0))

\* stress_test_client.c:450: the echo is equal to what was sent, byte for byte.
ExactEcho == ~sock.rst => \A i \in 1..Len(Echoed) : Echoed[i] = i
==============================================================================
