------------------------------- MODULE HandOff -------------------------------
(***************************************************************************)
(* What a task queue between one acceptor and a pool of workers promises:  *)
(* an item offered by the acceptor is queued in order, within a capacity,  *)
(* taken exactly once, in the order it was queued, served, and finished.   *)
(* There is no thread, lock, condition variable, index or buffer here.     *)
(***************************************************************************)
EXTENDS Naturals, Sequences

CONSTANTS Items,     \* what is handed over
          Capacity   \* how many items may be queued

VARIABLES offered,   \* the item the acceptor holds: a set of at most one
          queue,     \* the items queued, oldest first
          serving    \* the items a worker is serving

vars == <<offered, queue, serving>>

Queued == {queue[i] : i \in 1..Len(queue)}

Init == offered = {} /\ queue = <<>> /\ serving = {}

Offer(x) ==
    /\ offered = {}
    /\ x \notin Queued \cup serving
    /\ offered' = {x}
    /\ UNCHANGED <<queue, serving>>

Enqueue(x) ==
    /\ x \in offered
    /\ Len(queue) < Capacity
    /\ queue' = Append(queue, x)
    /\ offered' = offered \ {x}
    /\ UNCHANGED serving

Dequeue ==
    /\ queue # <<>>
    /\ queue' = Tail(queue)
    /\ serving' = serving \cup {Head(queue)}
    /\ UNCHANGED offered

Finish(x) ==
    /\ x \in serving
    /\ serving' = serving \ {x}
    /\ UNCHANGED <<offered, queue>>

\* The process ends and takes every item with it.
Halt == offered' = {} /\ queue' = <<>> /\ serving' = {}

Next ==
    \/ \E x \in Items : Offer(x) \/ Enqueue(x) \/ Finish(x)
    \/ Dequeue
    \/ Halt

Spec == Init /\ [][Next]_vars
==============================================================================
