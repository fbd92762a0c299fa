---------------------------- MODULE FlagHandOver -----------------------------
(***************************************************************************)
(* The two threads of thread_test/pthread_create.c: one reads the standard *)
(* input into BUF, the other prints BUF, and they hand it over with two    *)
(* plain ints, flag and running.                                           *)
(*                                                                         *)
(* These are data races.  Beside the order of the statements, the outcomes *)
(* a build can produce are that a compiler which sees no write in an empty *)
(* loop reads the flag only once: `hoisted' are the threads it did so for. *)
(***************************************************************************)
EXTENDS Integers, Sequences, SequencesExt

CONSTANT MaxReads    \* bound: reads before the end of the input

VARIABLES
    flag, running,
    BUF,         \* the number of the read whose data is in BUF, 0 at first
    inputPc,     \* test, read, flag, check, spin or end
    lastRead,    \* what the read returned: data, error or eof
    echoPc,      \* test, loop, print, clear, spin or end
    reads,       \* history: the number of reads that returned
    handed,      \* history: what BUF held at each end of a read
    echoed,      \* what was printed
    hoisted

flagVars == <<flag, running, BUF, inputPc, lastRead, echoPc, reads, handed, echoed, hoisted>>

FlagInit ==
    /\ flag = 0 /\ running = 1 /\ BUF = 0
    /\ inputPc = "test" /\ lastRead = "data"
    /\ echoPc = "test"
    /\ reads = 0 /\ handed = <<>> /\ echoed = <<>>
    /\ hoisted \in SUBSET {"input", "echo"}

-----------------------------------------------------------------------------
(* thread_input                                                            *)

\* The flag that it has just set itself is what a hoisted test sees.
InputTest ==
    /\ inputPc = "test"
    /\ inputPc' = IF flag = 0 THEN "read"
                  ELSE IF "input" \in hoisted THEN "spin" ELSE "test"
    /\ UNCHANGED <<flag, running, BUF, lastRead, echoPc, reads, handed, echoed, hoisted>>

\* An error writes a zero in front of BUF (BUF[-1]) and leaves BUF as it was; the
\* end of the input makes it empty.
InputRead ==
    /\ inputPc = "read"
    /\ \E n \in {"data", "error", "eof"} :
         /\ n # "eof" => reads < MaxReads
         /\ lastRead' = n
         /\ BUF' = CASE n = "data"  -> reads + 1
                     [] n = "error" -> BUF
                     [] n = "eof"   -> 0
    /\ reads' = reads + 1
    /\ handed' = Append(handed, BUF')
    /\ inputPc' = "flag"
    /\ UNCHANGED <<flag, running, echoPc, echoed, hoisted>>

InputFlag ==
    /\ inputPc = "flag"
    /\ flag' = 1
    /\ inputPc' = IF lastRead = "eof" THEN "check" ELSE "test"
    /\ UNCHANGED <<running, BUF, lastRead, echoPc, reads, handed, echoed, hoisted>>

InputEnds ==
    /\ inputPc = "check"
    /\ running' = 0
    /\ inputPc' = "end"
    /\ UNCHANGED <<flag, BUF, lastRead, echoPc, reads, handed, echoed, hoisted>>

-----------------------------------------------------------------------------
(* thread_echo                                                             *)

\* Mutated form of MustEnd: running is not looked at.
MustEnd_AnyFlag == flag = 1

MustEnd == running = 0 /\ flag = 1

EchoTest ==
    /\ echoPc = "test"
    /\ echoPc' = IF MustEnd THEN "end" ELSE "loop"
    /\ UNCHANGED <<flag, running, BUF, inputPc, lastRead, reads, handed, echoed, hoisted>>

\* Without the print no statement of the loop writes, and a hoisted flag and
\* running stay what they were.
EchoLoop ==
    /\ echoPc = "loop"
    /\ echoPc' = IF flag = 1 THEN "print"
                 ELSE IF "echo" \in hoisted THEN "spin" ELSE "test"
    /\ UNCHANGED <<flag, running, BUF, inputPc, lastRead, reads, handed, echoed, hoisted>>

EchoPrint ==
    /\ echoPc = "print"
    /\ echoed' = Append(echoed, BUF)
    /\ echoPc' = "clear"
    /\ UNCHANGED <<flag, running, BUF, inputPc, lastRead, reads, handed, hoisted>>

\* Mutated form of EchoClear: the flag stays.
EchoClear_Not ==
    /\ echoPc = "clear"
    /\ echoPc' = "loop"
    /\ UNCHANGED <<flag, running, BUF, inputPc, lastRead, reads, handed, echoed, hoisted>>

EchoClear ==
    /\ echoPc = "clear"
    /\ flag' = 0
    /\ echoPc' = "loop"
    /\ UNCHANGED <<running, BUF, inputPc, lastRead, reads, handed, echoed, hoisted>>

FlagInput == InputTest \/ InputRead \/ InputFlag \/ InputEnds
FlagEcho  == EchoTest \/ EchoLoop \/ EchoPrint \/ EchoClear

FlagNext == FlagInput \/ FlagEcho

-----------------------------------------------------------------------------
(* Properties                                                              *)

\* What is printed is what the reads left in BUF, each at most once and in their
\* order; the input never fills BUF while it is being printed (lines 13-16 and
\* 34-36).
EchoedInOrder ==
    /\ IsPrefix(echoed, handed)
    /\ Len(handed) <= Len(echoed) + 1
    /\ ~(inputPc = "read" /\ echoPc \in {"print", "clear"})

\* What was read is printed, or the input has ended and the echo thread too.  It
\* need not end: flag is set before running is cleared, and when the echo thread
\* prints the empty end in between, flag is 0 and it loops for ever; or its
\* compiler had it look only once (lines 16-18 and 30-37).
EveryReadEchoed ==
    \A k \in 1..(MaxReads + 1) :
        (reads >= k) ~> \/ Len(echoed) >= k \/ echoPc = "spin"
                        \/ inputPc = "end" /\ echoPc = "end"
==============================================================================
