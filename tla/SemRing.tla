------------------------------- MODULE SemRing -------------------------------
(***************************************************************************)
(* The producer and the consumer of thread_test/sem_pro_con_prob.c: a ring *)
(* of BUF_SIZE slots between two counting semaphores.  Each thread finds   *)
(* its slot from its own loop counter; front and rear are never used.      *)
(***************************************************************************)
EXTENDS Integers, Sequences

CONSTANTS BUF_SIZE, Missions    \* Missions: the rounds of the two loops

ASSUME SemAssumption == BUF_SIZE \in Nat \ {0} /\ Missions \in Nat

VARIABLES
    full, empty,        \* the semaphores
    ringData,           \* buffer.data
    prodI, prodPc,      \* the producer's loop counter and place
    consI, consPc,      \* the consumer's
    shown               \* the missions that consume printed

semVars == <<full, empty, ringData, prodI, prodPc, consI, consPc, shown>>

SemInit ==
    /\ full = 0 /\ empty = BUF_SIZE
    /\ ringData = [k \in 0..(BUF_SIZE - 1) |-> 0]
    /\ prodI = 0 /\ prodPc = "wait"
    /\ consI = 0 /\ consPc = "wait"
    /\ shown = <<>>

ProducerWait ==
    /\ prodPc = "wait" /\ prodI < Missions
    /\ empty > 0
    /\ empty' = empty - 1
    /\ prodPc' = "produce"
    /\ UNCHANGED <<full, ringData, prodI, consI, consPc, shown>>

Produce ==
    /\ prodPc = "produce"
    /\ ringData' = [ringData EXCEPT ![prodI % BUF_SIZE] = prodI]
    /\ prodPc' = "post"
    /\ UNCHANGED <<full, empty, prodI, consI, consPc, shown>>

\* Mutated form of PostFull: the slot is given back instead.
PostFull_Empty == empty' = empty + 1 /\ UNCHANGED full

PostFull == full' = full + 1 /\ UNCHANGED empty

ProducerPost ==
    /\ prodPc = "post"
    /\ PostFull
    /\ prodI' = prodI + 1 /\ prodPc' = "wait"
    /\ UNCHANGED <<ringData, consI, consPc, shown>>

\* Mutated form of ConsumerWait: the consumer waits for its own semaphore.
ConsumerWait_Empty ==
    /\ consPc = "wait" /\ consI < Missions
    /\ empty > 0
    /\ empty' = empty - 1
    /\ consPc' = "consume"
    /\ UNCHANGED <<full, ringData, prodI, prodPc, consI, shown>>

ConsumerWait ==
    /\ consPc = "wait" /\ consI < Missions
    /\ full > 0
    /\ full' = full - 1
    /\ consPc' = "consume"
    /\ UNCHANGED <<empty, ringData, prodI, prodPc, consI, shown>>

Consume ==
    /\ consPc = "consume"
    /\ shown' = Append(shown, ringData[consI % BUF_SIZE])
    /\ ringData' = [ringData EXCEPT ![consI % BUF_SIZE] = 0]
    /\ consPc' = "post"
    /\ UNCHANGED <<full, empty, prodI, prodPc, consI>>

ConsumerPost ==
    /\ consPc = "post"
    /\ empty' = empty + 1
    /\ consI' = consI + 1 /\ consPc' = "wait"
    /\ UNCHANGED <<full, ringData, prodI, prodPc, shown>>

SemProducer == ProducerWait \/ Produce \/ ProducerPost
SemConsumer == ConsumerWait \/ Consume \/ ConsumerPost

SemNext == SemProducer \/ SemConsumer

SemSpec == SemInit /\ [][SemNext]_semVars

-----------------------------------------------------------------------------
(* Properties                                                              *)

Bit(b) == IF b THEN 1 ELSE 0

\* Missions written to the ring, and missions taken out of it.
Written == prodI + Bit(prodPc = "post")
Taken   == consI + Bit(consPc = "post")

SemTypeOK ==
    /\ full \in Nat /\ empty \in Nat
    /\ ringData \in [0..(BUF_SIZE - 1) -> Int]
    /\ prodI \in 0..Missions /\ prodPc \in {"wait", "produce", "post"}
    /\ consI \in 0..Missions /\ consPc \in {"wait", "consume", "post"}
    /\ shown \in Seq(Int)
    /\ prodPc # "wait" => prodI < Missions
    /\ consPc # "wait" => consI < Missions

\* The two semaphores and the two threads together account for the slots.
SemAccounting ==
    /\ full + Bit(consPc # "wait") = prodI - consI
    /\ empty + Bit(prodPc # "wait") = BUF_SIZE - (prodI - consI)

\* What was written and not yet taken is still in its slot: the producer never
\* overwrites it, and the consumer clears no slot but the one it has read.
SlotsKept == \A m \in Taken..(Written - 1) : ringData[m % BUF_SIZE] = m

\* The missions are accomplished in the order of their creation, none twice,
\* none skipped and none read from a slot that was cleared (lines 41-54: slots
\* come from loop counters that the two threads do not share).
ShownInOrder ==
    /\ Len(shown) = Taken
    /\ \A k \in 1..Len(shown) : shown[k] = k - 1

SemInv == SemTypeOK /\ SemAccounting /\ SlotsKept /\ ShownInOrder

\* Once the first mission is created, all of them are accomplished: the threads
\* never wait for each other with the ring full or empty (lines 56-73).
AllAccomplished == (prodI > 0) ~> (Len(shown) = Missions)
==============================================================================
