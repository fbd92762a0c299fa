------------------------------- MODULE OneSlot -------------------------------
(***************************************************************************)
(* The producer and the consumer of thread_test/prod_cons_prob.c: one int, *)
(* a flag, a mutex and two conditions.  What a thread does with the mutex  *)
(* held is one step; the consumer prints data after it has unlocked, which *)
(* is a step of its own and races with the producer's next write.          *)
(***************************************************************************)
EXTENDS Integers, Sequences

CONSTANT Rounds    \* the rounds of the two loops

ASSUME SlotAssumption == Rounds \in Nat \ {0}

VARIABLES
    data, ready,
    slotPc,      \* thread -> lock, sleeping, print or end
    putI, takeI, \* the loop counters
    printed      \* what the consumer printed

slotVars == <<data, ready, slotPc, putI, takeI, printed>>

SlotInit ==
    /\ data = 0 /\ ready = 0
    /\ slotPc = [producer |-> "lock", consumer |-> "lock"]
    /\ putI = 0 /\ takeI = 0 /\ printed = <<>>

\* The place of thread t is p, and the signal wakes thread s if it sleeps.
GoAndSignal(t, p, s) ==
    slotPc' = [slotPc EXCEPT ![t] = p,
                             ![s] = IF @ = "sleeping" THEN "lock" ELSE @]

\* Mutated form of MayPut: the slot may hold a number that nobody took.
MayPut_Always == TRUE

MayPut == ready = 0

PutWaits ==
    /\ slotPc.producer = "lock" /\ ~MayPut
    /\ slotPc' = [slotPc EXCEPT !.producer = "sleeping"]
    /\ UNCHANGED <<data, ready, putI, takeI, printed>>

Put ==
    /\ slotPc.producer = "lock" /\ MayPut
    /\ data' = putI + 1 /\ ready' = 1
    /\ putI' = putI + 1
    /\ GoAndSignal("producer", IF putI' = Rounds THEN "end" ELSE "lock", "consumer")
    /\ UNCHANGED <<takeI, printed>>

TakeWaits ==
    /\ slotPc.consumer = "lock" /\ ready = 0
    /\ slotPc' = [slotPc EXCEPT !.consumer = "sleeping"]
    /\ UNCHANGED <<data, ready, putI, takeI, printed>>

\* Mutated form of SignalNotFull: the consumer does not tell the producer.
SignalNotFull_Missing == slotPc' = [slotPc EXCEPT !.consumer = "print"]

SignalNotFull == GoAndSignal("consumer", "print", "producer")

Take ==
    /\ slotPc.consumer = "lock" /\ ready = 1
    /\ ready' = 0
    /\ takeI' = takeI + 1
    /\ SignalNotFull
    /\ UNCHANGED <<data, putI, printed>>

TakePrints ==
    /\ slotPc.consumer = "print"
    /\ printed' = Append(printed, data)
    /\ slotPc' = [slotPc EXCEPT !.consumer = IF takeI = Rounds THEN "end" ELSE "lock"]
    /\ UNCHANGED <<data, ready, putI, takeI>>

\* pthread_cond_wait may return without a signal.
SlotSpurious(t) ==
    /\ slotPc[t] = "sleeping"
    /\ slotPc' = [slotPc EXCEPT ![t] = "lock"]
    /\ UNCHANGED <<data, ready, putI, takeI, printed>>

SlotProducer == PutWaits \/ Put
SlotConsumer == TakeWaits \/ Take \/ TakePrints

SlotNext == SlotProducer \/ SlotConsumer \/ SlotSpurious("producer") \/ SlotSpurious("consumer")

-----------------------------------------------------------------------------
(* Properties                                                              *)

\* Numbers are put and taken alternately, though the consumer may print the one
\* that comes after its own: the k-th line is k or, when the producer was faster
\* than the printf behind the unlock, k + 1 (lines 18-20 and 33-36).
PrintsOwnOrNext ==
    /\ putI - takeI = ready
    /\ \A k \in 1..Len(printed) : printed[k] \in {k, k + 1} /\ printed[k] <= Rounds

\* Once a number was put, both loops end (lines 15-17, 20, 30-34).
BothLoopsEnd == (putI > 0) ~> (slotPc = [producer |-> "end", consumer |-> "end"])
==============================================================================
