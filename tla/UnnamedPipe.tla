----------------------------- MODULE UnnamedPipe -----------------------------
(***************************************************************************)
(* process_test/unamed_pipe_test.c: the parent writes its argument to a    *)
(* pipe, and the child copies it byte by byte until the end of the stream, *)
(* which comes when no process has the pipe open for writing any more: the *)
(* child inherits that end too.                                            *)
(***************************************************************************)
EXTENDS Integers, Sequences, SequencesExt

CONSTANTS ArgLen,    \* bound: the length of the argument
          PipeCap    \* bytes the pipe holds

ASSUME PipeAssumption == ArgLen \in Nat

VARIABLES
    inPipe,      \* the bytes in it
    writeEnds,   \* the processes that have its writing end open
    argLeft,     \* the bytes of argv[1] that write has still to take
    pipeParent,  \* write, close, wait, end or killed
    pipeChild,   \* none, close, read, end or killed
    copied       \* what the child printed

pipeVars == <<inPipe, writeEnds, argLeft, pipeParent, pipeChild, copied>>

Argument == [k \in 1..ArgLen |-> k]

PipeInit ==
    /\ inPipe = <<>> /\ writeEnds = {"parent"} /\ argLeft = Argument
    /\ pipeParent = "fork" /\ pipeChild = "none" /\ copied = <<>>

\* To write an empty argument is to do nothing.
PipeFork ==
    /\ pipeParent = "fork"
    /\ \/ /\ pipeParent' = IF argLeft = <<>> THEN "close" ELSE "write"
          /\ pipeChild' = "close"
          /\ writeEnds' = {"parent", "child"}
       \/ /\ pipeParent' = "end" /\ writeEnds' = {} /\ UNCHANGED pipeChild
    /\ UNCHANGED <<inPipe, argLeft, copied>>

\* Mutated form of AfterWrite: what the pipe has not taken at once is dropped.
AfterWrite_AtOnce == "close"

AfterWrite == IF argLeft' = <<>> THEN "close" ELSE "write"

\* write waits until the pipe has taken every byte.
PipeWrite ==
    /\ pipeParent = "write" /\ pipeChild # "killed"
    /\ Len(inPipe) < PipeCap
    /\ inPipe' = Append(inPipe, Head(argLeft)) /\ argLeft' = Tail(argLeft)
    /\ pipeParent' = AfterWrite
    /\ UNCHANGED <<writeEnds, pipeChild, copied>>

\* SIGPIPE: nobody is left to read.
PipeBroken ==
    /\ pipeParent = "write" /\ pipeChild = "killed"
    /\ pipeParent' = "killed" /\ writeEnds' = writeEnds \ {"parent"}
    /\ UNCHANGED <<inPipe, argLeft, pipeChild, copied>>

PipeClose ==
    /\ pipeParent = "close"
    /\ pipeParent' = "wait" /\ writeEnds' = writeEnds \ {"parent"}
    /\ UNCHANGED <<inPipe, argLeft, pipeChild, copied>>

\* waitpid.
PipeWait ==
    /\ pipeParent = "wait" /\ pipeChild \in {"end", "killed"}
    /\ pipeParent' = "end"
    /\ UNCHANGED <<inPipe, writeEnds, argLeft, pipeChild, copied>>

\* Mutated form of ChildCloses: the child keeps the end that it does not use.
ChildCloses_Not == UNCHANGED writeEnds

ChildCloses == writeEnds' = writeEnds \ {"child"}

PipeChildStarts ==
    /\ pipeChild = "close"
    /\ ChildCloses /\ pipeChild' = "read"
    /\ UNCHANGED <<inPipe, argLeft, pipeParent, copied>>

PipeChildReads ==
    /\ pipeChild = "read"
    /\ \/ /\ inPipe # <<>>
          /\ copied' = Append(copied, Head(inPipe)) /\ inPipe' = Tail(inPipe)
          /\ UNCHANGED pipeChild
       \/ /\ inPipe = <<>> /\ writeEnds = {}
          /\ pipeChild' = "end" /\ UNCHANGED <<copied, inPipe>>
    /\ UNCHANGED <<writeEnds, argLeft, pipeParent>>

\* The child is killed: its ends are closed.
PipeChildKilled ==
    /\ pipeChild \in {"close", "read"}
    /\ pipeChild' = "killed" /\ writeEnds' = writeEnds \ {"child"}
    /\ UNCHANGED <<inPipe, argLeft, pipeParent, copied>>

\* The parent is killed, which may be in the middle of its write.
PipeParentKilled ==
    /\ pipeParent \in {"fork", "write", "close", "wait"}
    /\ pipeParent' = "killed" /\ writeEnds' = writeEnds \ {"parent"}
    /\ UNCHANGED <<inPipe, argLeft, pipeChild, copied>>

PipeParent == PipeFork \/ PipeWrite \/ PipeBroken \/ PipeClose \/ PipeWait
PipeChild  == PipeChildStarts \/ PipeChildReads

PipeNext == PipeParent \/ PipeChild \/ PipeChildKilled \/ PipeParentKilled

-----------------------------------------------------------------------------
(* Properties                                                              *)

\* What the child prints is the front of the argument, and a child that ends by
\* itself has printed it whole, however much longer than the pipe it is: unless
\* the parent was killed before its write was done, which to the child looks like
\* the end (lines 27-37 and 41-43).
CopiedWhole ==
    /\ IsPrefix(copied, Argument)
    /\ pipeChild = "end" /\ pipeParent # "killed" => copied = Argument

\* Parent and child never wait for each other for ever: the child for the end of
\* a stream that it keeps open itself, the parent for a child that is gone.
PipeEnds == (pipeParent = "write") ~> (pipeParent \in {"end", "killed"})
==============================================================================
