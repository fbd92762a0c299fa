-------------------------------- MODULE Fifo ---------------------------------
(***************************************************************************)
(* process_test/fifo_write.c and fifo_read.c: the writer makes the named   *)
(* pipe, copies its standard input to it and removes the name; the reader  *)
(* copies from it to its standard output.                                  *)
(*                                                                         *)
(* Both take strlen(buf) for the number of bytes, and the reader's buf is  *)
(* never initialised: what the memory holds in front of its first zero     *)
(* sets, once and for all, how many bytes a read asks for and how many are *)
(* printed after it.  A buffer is the string it holds, 0 in it stands for  *)
(* a byte of memory that nobody wrote.  The input has no '\0'.             *)
(***************************************************************************)
EXTENDS Integers, Sequences, SequencesExt

CONSTANTS
    MaxChunks,    \* bound: reads of the standard input before its end
    ChunkLen,     \* MAX_SIZE - 1, the most that one of them returns
    MaxString,    \* bound: the length of the string in the reader's memory
    FifoCap       \* bytes the pipe holds; a write of one chunk fits as a whole

ASSUME FifoAssumption == ChunkLen \in Nat \ {0} /\ FifoCap >= ChunkLen

VARIABLES
    path,        \* who made the pipe at pipe_path: none, writer or earlier
    inFifo,      \* the bytes in the writer's pipe
    writerPc,    \* mkfifo, open, read, write, unlink, end, failed or killed
    readerPc,    \* open, opening, stale, read, print or end
    writerBuf, readerBuf,
    chunks, bytesIn,   \* reads of the standard input, and bytes they gave
    intoFifo,    \* history: the bytes written to the pipe
    fromFifo,    \* history: the bytes read from it
    fifoPrinted  \* what the reader printed

fifoVars == <<path, inFifo, writerPc, readerPc, writerBuf, readerBuf, chunks, bytesIn,
              intoFifo, fromFifo, fifoPrinted>>

\* The pipe may be there from a writer that was killed.
FifoInit ==
    /\ path \in {"none", "earlier"} /\ inFifo = <<>>
    /\ writerPc = "mkfifo" /\ readerPc = "open"
    /\ writerBuf \in {<<>>, <<0>>}
    /\ readerBuf \in {[k \in 1..n |-> 0] : n \in 0..MaxString}
    /\ chunks = 0 /\ bytesIn = 0
    /\ intoFifo = <<>> /\ fromFifo = <<>> /\ fifoPrinted = <<>>

ReaderGone == readerPc = "end"

-----------------------------------------------------------------------------
(* fifo_write.c                                                            *)

\* mkfifo fails when the name exists.
WriterMakes ==
    /\ writerPc = "mkfifo"
    /\ IF path = "none" THEN path' = "writer" /\ writerPc' = "open"
                        ELSE writerPc' = "failed" /\ UNCHANGED path
    /\ UNCHANGED <<inFifo, readerPc, writerBuf, readerBuf, chunks, bytesIn, intoFifo,
                   fromFifo, fifoPrinted>>

\* Each open waits for the other: they return together.
FifoOpens ==
    /\ writerPc = "open" /\ readerPc = "opening"
    /\ writerPc' = "read" /\ readerPc' = "read"
    /\ UNCHANGED <<path, inFifo, writerBuf, readerBuf, chunks, bytesIn, intoFifo, fromFifo,
                   fifoPrinted>>

\* open fails: the writer exits and leaves the name, so that a reader waits in
\* vain; or the reader does, and the writer waits.
WriterOpenFails ==
    /\ writerPc = "open"
    /\ writerPc' = "failed"
    /\ UNCHANGED <<path, inFifo, readerPc, writerBuf, readerBuf, chunks, bytesIn, intoFifo,
                   fromFifo, fifoPrinted>>

\* read_char is unsigned, so that an error is a number above zero too: what is
\* in buf is written again (the zero goes to buf[-1]), and `read_char < 0' below
\* the loop is never true.
WriterReads ==
    /\ writerPc = "read"
    /\ \E n \in (IF chunks < MaxChunks THEN 1..ChunkLen ELSE {}) \cup {0} :
         /\ writerBuf' = IF n = 0 THEN writerBuf ELSE [k \in 1..n |-> bytesIn + k]
         /\ bytesIn' = bytesIn + n /\ chunks' = chunks + 1
         /\ writerPc' = IF n = 0 THEN "unlink" ELSE "write"
    /\ UNCHANGED <<path, inFifo, readerPc, readerBuf, intoFifo, fromFifo, fifoPrinted>>

WriterReadFails ==
    /\ writerPc = "read" /\ chunks < MaxChunks
    /\ chunks' = chunks + 1 /\ writerPc' = "write"
    /\ UNCHANGED <<path, inFifo, readerPc, writerBuf, readerBuf, bytesIn, intoFifo,
                   fromFifo, fifoPrinted>>

\* The result of write is not looked at; without a reader SIGPIPE ends the
\* writer, and the name stays.
WriterWrites ==
    /\ writerPc = "write"
    /\ IF ReaderGone /\ writerBuf # <<>>
       THEN writerPc' = "killed" /\ UNCHANGED <<inFifo, intoFifo>>
       ELSE /\ Len(inFifo) + Len(writerBuf) <= FifoCap
            /\ inFifo' = inFifo \o writerBuf /\ intoFifo' = intoFifo \o writerBuf
            /\ writerPc' = "read"
    /\ UNCHANGED <<path, readerPc, writerBuf, readerBuf, chunks, bytesIn, fromFifo,
                   fifoPrinted>>

\* Mutated form of RemovesName: the name stays.
RemovesName_Not == UNCHANGED path

RemovesName == path' = "none"

\* The name is removed, and the end of the process closes the pipe.
WriterUnlinks ==
    /\ writerPc = "unlink"
    /\ RemovesName /\ writerPc' = "end"
    /\ UNCHANGED <<inFifo, readerPc, writerBuf, readerBuf, chunks, bytesIn, intoFifo,
                   fromFifo, fifoPrinted>>

-----------------------------------------------------------------------------
(* fifo_read.c                                                             *)

\* Without the name open fails; with an earlier writer's it waits for a writer
\* that never comes.
ReaderOpens ==
    /\ readerPc = "open"
    /\ readerPc' = CASE path = "none"    -> "end"
                     [] path = "writer"  -> "opening"
                     [] path = "earlier" -> "stale"
    /\ UNCHANGED <<path, inFifo, writerPc, writerBuf, readerBuf, chunks, bytesIn, intoFifo,
                   fromFifo, fifoPrinted>>

ReaderOpenFails ==
    /\ readerPc \in {"open", "opening", "stale"}
    /\ readerPc' = "end"
    /\ UNCHANGED <<path, inFifo, writerPc, writerBuf, readerBuf, chunks, bytesIn, intoFifo,
                   fromFifo, fifoPrinted>>

\* Mutated form of Overlaid: the string is ended one byte early.
Overlaid_OffByOne(bytes) == SubSeq(bytes, 1, Len(bytes) - 1)

\* What buf holds after bytes were read to its front.
Overlaid(bytes) == bytes \o SubSeq(readerBuf, Len(bytes) + 1, Len(readerBuf))

ReaderReads ==
    /\ readerPc = "read" /\ readerBuf # <<>> /\ inFifo # <<>>
    /\ LET n     == IF Len(inFifo) < Len(readerBuf) THEN Len(inFifo) ELSE Len(readerBuf)
           bytes == SubSeq(inFifo, 1, n)
       IN  /\ inFifo' = SubSeq(inFifo, n + 1, Len(inFifo))
           /\ readerBuf' = Overlaid(bytes)
           /\ fromFifo' = fromFifo \o bytes
    /\ readerPc' = "print"
    /\ UNCHANGED <<path, writerPc, writerBuf, chunks, bytesIn, intoFifo, fifoPrinted>>

ReaderPrints ==
    /\ readerPc = "print"
    /\ fifoPrinted' = fifoPrinted \o readerBuf
    /\ readerPc' = "read"
    /\ UNCHANGED <<path, inFifo, writerPc, writerBuf, readerBuf, chunks, bytesIn, intoFifo,
                   fromFifo>>

\* The end of the stream, or a read of no bytes, which looks the same.
ReaderEnds ==
    /\ readerPc = "read"
    /\ readerBuf = <<>> \/ (inFifo = <<>> /\ writerPc \in {"end", "killed"})
    /\ readerPc' = "end"
    /\ UNCHANGED <<path, inFifo, writerPc, writerBuf, readerBuf, chunks, bytesIn, intoFifo,
                   fromFifo, fifoPrinted>>

\* So does an error: read_char is the result of a comparison.
ReaderReadFails ==
    /\ readerPc = "read" /\ readerBuf # <<>>
    /\ readerPc' = "end"
    /\ UNCHANGED <<path, inFifo, writerPc, writerBuf, readerBuf, chunks, bytesIn, intoFifo,
                   fromFifo, fifoPrinted>>

FifoWriter == WriterMakes \/ WriterReads \/ WriterReadFails \/ WriterWrites \/ WriterUnlinks
FifoReader == ReaderOpens \/ ReaderReads \/ ReaderPrints \/ ReaderEnds

FifoFails  == WriterOpenFails \/ ReaderOpenFails \/ ReaderReadFails

FifoNext == FifoWriter \/ FifoReader \/ FifoFails \/ FifoOpens

-----------------------------------------------------------------------------
(* Properties                                                              *)

\* What the reader prints is as long as its reads asked for, not as what they
\* returned: it is what was sent while every read is filled, and else repeats
\* bytes of before; nothing that was read is left out (lines 24-28 of
\* fifo_read.c).
PrintsWhatIsRead ==
    readerPc \in {"read", "end"} =>
        /\ Len(fifoPrinted) >= Len(fromFifo)
        /\ Len(fifoPrinted) = Len(fromFifo) => fifoPrinted = fromFifo
        /\ ToSet(fromFifo) \subseteq ToSet(fifoPrinted)
        /\ IsPrefix(fromFifo, intoFifo)

\* When the writer's input has ended, or nobody reads any more, both end; the
\* name is left only by a writer that was killed because the reader was gone.
FifoEnds ==
    (writerPc \in {"unlink", "killed"}) ~>
        /\ writerPc \in {"end", "killed"} /\ ReaderGone
        /\ path = "writer" => writerPc = "killed"
==============================================================================
