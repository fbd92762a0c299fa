----------------------------- MODULE MessageFork -----------------------------
(***************************************************************************)
(* process_test/mq_p&s.c: a process creates a message queue that holds     *)
(* mq_maxmsg messages and forks; the parent sends as many, the child       *)
(* receives as many, and the parent waits for the child.                   *)
(***************************************************************************)
EXTENDS Integers, Sequences

CONSTANT forkMaxmsg    \* attr.mq_maxmsg, the capacity and the rounds

ASSUME ForkAssumption == forkMaxmsg \in Nat \ {0}

VARIABLES
    linked,                  \* the name of the queue exists
    inQueue,                 \* the messages in it
    parentPc, parentI,       \* the parent's place, and its loop counter
    childPc, childGot,       \* the child's, and the messages it printed
    unsent                   \* history: messages that mq_send refused

forkVars == <<linked, inQueue, parentPc, parentI, childPc, childGot, unsent>>

\* The name may be there from an earlier run.
ForkInit ==
    /\ linked \in BOOLEAN /\ inQueue = <<>>
    /\ parentPc = "open" /\ parentI = 0
    /\ childPc = "none" /\ childGot = <<>> /\ unsent = {}

ForkOpen ==
    /\ parentPc = "open" /\ ~linked
    /\ linked' = TRUE /\ parentPc' = "fork"
    /\ UNCHANGED <<inQueue, parentI, childPc, childGot, unsent>>

\* mq_open fails, if only because the name exists; or fork fails, and the name
\* stays.
ForkExits ==
    /\ parentPc \in {"open", "fork"}
    /\ parentPc' = "failed"
    /\ UNCHANGED <<linked, inQueue, parentI, childPc, childGot, unsent>>

Fork ==
    /\ parentPc = "fork"
    /\ parentPc' = "send" /\ childPc' = "receive"
    /\ UNCHANGED <<linked, inQueue, parentI, childGot, unsent>>

\* The loop's next round, or its end.
NextRound ==
    /\ parentI' = parentI + 1
    /\ parentPc' = IF parentI' = forkMaxmsg THEN "wait" ELSE "send"

ParentSend ==
    /\ parentPc = "send" /\ Len(inQueue) < forkMaxmsg
    /\ inQueue' = Append(inQueue, parentI)
    /\ NextRound
    /\ UNCHANGED <<linked, childPc, childGot, unsent>>

\* mq_send fails, which is only printed.
ParentSendFails ==
    /\ parentPc = "send"
    /\ unsent' = unsent \cup {parentI}
    /\ NextRound
    /\ UNCHANGED <<linked, inQueue, childPc, childGot>>

\* Mutated form of ChildHasAll: one message more.
ChildHasAll_OffByOne == Len(childGot') = forkMaxmsg + 1

ChildHasAll == Len(childGot') = forkMaxmsg

ChildReceive ==
    /\ childPc = "receive" /\ inQueue # <<>>
    /\ childGot' = Append(childGot, Head(inQueue))
    /\ inQueue' = Tail(inQueue)
    /\ childPc' = IF ChildHasAll THEN "end" ELSE "receive"
    /\ UNCHANGED <<linked, parentPc, parentI, unsent>>

\* mq_receive fails and the child exits, or it is killed.
ChildDies ==
    /\ childPc = "receive"
    /\ childPc' = "dead"
    /\ UNCHANGED <<linked, inQueue, parentPc, parentI, childGot, unsent>>

\* Mutated form of ParentWait: the parent does not wait.
ParentWait_Not == TRUE

ParentWait == childPc \in {"end", "dead"}

\* waitpid returned: mq_close and mq_unlink.
ParentUnlinks ==
    /\ parentPc = "wait" /\ ParentWait
    /\ linked' = FALSE /\ parentPc' = "end"
    /\ UNCHANGED <<inQueue, parentI, childPc, childGot, unsent>>

ForkParent == ForkOpen \/ ForkExits \/ Fork \/ ParentSend \/ ParentSendFails \/ ParentUnlinks

ForkNext == ForkParent \/ ChildReceive \/ ChildDies

-----------------------------------------------------------------------------
(* Properties                                                              *)

\* The child gets the messages in order, all those that were sent if it lives,
\* and the parent is not done before it (lines 40-49 and 55-64).
ChildGetsAll ==
    /\ \A j, k \in 1..Len(childGot) : j < k => childGot[j] < childGot[k]
    /\ childPc = "end" => childGot = [k \in 1..forkMaxmsg |-> k - 1]
    /\ parentPc = "end" => childPc \in {"end", "dead"}

\* The parent ends and takes the name away, even when its child is dead: the
\* queue has room for all messages.  The one thing that keeps both waiting for
\* ever is a message that mq_send refused, for the child waits for as many as
\* there are rounds (lines 42-44, 58-60 and 64-75).
ParentEnds == (parentPc = "send") ~> ((parentPc = "end" /\ ~linked) \/ unsent # {})
==============================================================================
