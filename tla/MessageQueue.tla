---------------------------- MODULE MessageQueue -----------------------------
(***************************************************************************)
(* The programs process_test/mq_producer.c and mq_consumer.c, each started *)
(* any number of times, around the POSIX message queue named /my_queue.    *)
(* A producer sends the lines of its standard input until it ends, then a  *)
(* message of the one byte EOF; a consumer prints messages until one begins *)
(* with that byte (char is signed).  That may be a line too; and a line    *)
(* that begins with '\0' makes an empty message, which leaves in the       *)
(* consumer's buffer the byte that was there.  Of a line the model keeps   *)
(* its number and what it begins with.                                     *)
(*                                                                         *)
(* A queue goes by the producer that created it; unlinking takes its name  *)
(* away from it, and who has it open goes on with it.  A timed call fails  *)
(* when it would have to wait and the deadline is over; each program       *)
(* computes its deadline once, before everything else, so that it may be   *)
(* over at any call: one that would have to wait may fail.                 *)
(***************************************************************************)
EXTENDS Integers, Sequences, SequencesExt

CONSTANTS Producers, Consumers, NoQueue,
          mq_maxmsg,
          MaxLines     \* bound: lines that a producer reads

ASSUME QueueAssumption == NoQueue \notin Producers /\ Producers \cap Consumers = {}

VARIABLES
    queueName,    \* the queue that the name stands for
    messages,     \* queue -> the messages in it, oldest first
    mqPc,         \* program -> its place
    mqdes,        \* consumer -> the queue it has open
    linesRead,    \* producer -> lines read
    send_buf,     \* producer -> the first byte of its buffer
    receive_buf,  \* consumer -> the first byte of its buffer
    taken,        \* history: queue -> the numbers of the messages received from it
    endedOn       \* history: consumer -> the message that it took for the last

mqVars == <<queueName, messages, mqPc, mqdes, linesRead, send_buf, receive_buf, taken, endedOn>>

\* The first byte of a message or a buffer: EOF, another one, or none if the
\* message is empty or nothing was put into the buffer.
FirstBytes == {"EOF", "other", "none"}

\* Lines have the numbers from 1.
Message(number, start) == [number |-> number, start |-> start]

EofNumber  == 0
EofMessage == Message(EofNumber, "EOF")

MqInit ==
    /\ queueName = NoQueue /\ messages = [p \in Producers |-> <<>>]
    /\ mqPc = [x \in Producers \cup Consumers |-> "open"]
    /\ mqdes = [c \in Consumers |-> NoQueue]
    /\ linesRead = [p \in Producers |-> 0]
    /\ send_buf = [p \in Producers |-> "none"]
    /\ receive_buf = [c \in Consumers |-> "none"]
    /\ taken = [p \in Producers |-> <<>>]
    /\ endedOn = [c \in Consumers |-> EofMessage]

Goes(x, place) == mqPc' = [mqPc EXCEPT ![x] = place]

Ended(x) == mqPc[x] \in {"exit", "complete", "failed"}

\* A producer ends early, and its buffer with it.
EndsEarly(p) ==
    /\ Goes(p, "failed")
    /\ send_buf' = [send_buf EXCEPT ![p] = "none"]
    /\ UNCHANGED <<queueName, messages, mqdes, linesRead, receive_buf, taken, endedOn>>

\* The user interrupts a producer, whatever it is at.
MqKill(p) == mqPc[p] # "open" /\ ~Ended(p) /\ EndsEarly(p)

-----------------------------------------------------------------------------
(* mq_producer.c                                                           *)

\* Mutated form of MayCreate: without O_EXCL.
MayCreate_NoExcl == TRUE

MayCreate == queueName = NoQueue

\* mq_open with O_CREAT and O_EXCL.
ProducerOpen(p) ==
    /\ mqPc[p] = "open" /\ MayCreate
    /\ queueName' = p
    /\ Goes(p, "read")
    /\ UNCHANGED <<messages, mqdes, linesRead, send_buf, receive_buf, taken, endedOn>>

\* mq_open or read fails: the program exits and leaves the queue as it is.
ProducerFails(p) == mqPc[p] \in {"open", "read"} /\ EndsEarly(p)

ProducerRead(p) ==
    /\ mqPc[p] = "read"
    /\ \/ /\ linesRead[p] < MaxLines
          /\ linesRead' = [linesRead EXCEPT ![p] = @ + 1]
          /\ \E byte \in FirstBytes : send_buf' = [send_buf EXCEPT ![p] = byte]
          /\ Goes(p, "send")
       \/ Goes(p, "eof") /\ UNCHANGED <<linesRead, send_buf>>
    /\ UNCHANGED <<queueName, messages, mqdes, receive_buf, taken, endedOn>>

Sends(p, message) ==
    /\ Len(messages[p]) < mq_maxmsg
    /\ messages' = [messages EXCEPT ![p] = Append(@, message)]

\* A timed call that finds the queue full.
TimesOut(p) == Len(messages[p]) = mq_maxmsg

ProducerSend(p) ==
    /\ mqPc[p] = "send"
    /\ Sends(p, Message(linesRead[p], send_buf[p]))
    /\ send_buf' = [send_buf EXCEPT ![p] = "none"]
    /\ Goes(p, "read")
    /\ UNCHANGED <<queueName, mqdes, linesRead, receive_buf, taken, endedOn>>

\* The queue is full, or strlen of a line that fills send_buf is more than the
\* queue takes.
ProducerSendFails(p) == mqPc[p] = "send" /\ EndsEarly(p)

\* Mutated form of AfterEof: the loop goes on.
AfterEof_ReadsOn == "read"

AfterEof == "unlink"

\* The message EOF, whose result is not looked at: it is lost when the queue is
\* full and stays full until the deadline.
ProducerSendEof(p) ==
    /\ mqPc[p] = "eof"
    /\ \/ Sends(p, EofMessage)
       \/ TimesOut(p) /\ UNCHANGED messages
    /\ Goes(p, AfterEof)
    /\ UNCHANGED <<queueName, mqdes, linesRead, send_buf, receive_buf, taken, endedOn>>

\* mq_close and mq_unlink.
ProducerUnlink(p) ==
    /\ mqPc[p] = "unlink"
    /\ queueName' = NoQueue
    /\ Goes(p, "exit")
    /\ UNCHANGED <<messages, mqdes, linesRead, send_buf, receive_buf, taken, endedOn>>

-----------------------------------------------------------------------------
(* mq_consumer.c                                                           *)

\* The result of mq_open is not looked at.
ConsumerOpen(c) ==
    /\ mqPc[c] = "open"
    /\ mqdes' = [mqdes EXCEPT ![c] = queueName]
    /\ Goes(c, "receive")
    /\ UNCHANGED <<queueName, messages, linesRead, send_buf, receive_buf, taken, endedOn>>

\* What receive_buf may begin with after a message: an empty one leaves the byte
\* that was there, which is any if nothing was received before.
FirstAfter(c, start) ==
    IF start # "none" THEN {start}
    ELSE IF receive_buf[c] # "none" THEN {receive_buf[c]}
    ELSE {"EOF", "other"}

ConsumerReceive(c) ==
    /\ mqPc[c] = "receive" /\ mqdes[c] # NoQueue
    /\ LET q == mqdes[c]
           message == Head(messages[q])
       IN  /\ messages[q] # <<>>
           /\ messages' = [messages EXCEPT ![q] = Tail(@)]
           /\ taken' = [taken EXCEPT ![q] = Append(@, message.number)]
           /\ \E byte \in FirstAfter(c, message.start) :
                receive_buf' = [receive_buf EXCEPT ![c] = byte]
           /\ IF receive_buf'[c] = "EOF"
              THEN Goes(c, "complete") /\ endedOn' = [endedOn EXCEPT ![c] = message]
              ELSE UNCHANGED <<mqPc, endedOn>>
    /\ UNCHANGED <<queueName, mqdes, linesRead, send_buf>>

\* Mutated form of AfterError: the consumer tries again.
AfterError_Retries == "receive"

AfterError == "failed"

\* Nothing arrived before the deadline, or there is no queue.
ConsumerReceiveFails(c) ==
    /\ mqPc[c] = "receive"
    /\ mqdes[c] # NoQueue => messages[mqdes[c]] = <<>>
    /\ Goes(c, AfterError)
    /\ UNCHANGED <<queueName, messages, mqdes, linesRead, send_buf, receive_buf, taken, endedOn>>

-----------------------------------------------------------------------------

MqProducer(p) ==
    \/ ProducerOpen(p) \/ ProducerFails(p) \/ ProducerRead(p) \/ ProducerSend(p)
    \/ ProducerSendFails(p) \/ ProducerSendEof(p) \/ ProducerUnlink(p)

MqConsumer(c) == ConsumerReceive(c) \/ ConsumerReceiveFails(c)

MqNext ==
    \/ \E p \in Producers : MqProducer(p) \/ MqKill(p)
    \/ \E c \in Consumers : ConsumerOpen(c) \/ MqConsumer(c)

-----------------------------------------------------------------------------
(* Properties                                                              *)

\* The name keeps producers apart: one that has created its queue finds it under
\* the name until it ends, whoever started, failed or unlinked in the meantime
\* (lines 20-24 and 46-48 of mq_producer.c).
NameIsItsProducers ==
    \A p \in Producers : mqPc[p] \in {"read", "send", "eof", "unlink"} => queueName = p

\* The messages that a producer sends when all goes well, by their numbers: the
\* lines that it read, and behind them EOF.
AllMessages(p) == [k \in 1..linesRead[p] |-> k] \o <<EofNumber>>

\* The messages go to the consumers in order and each to one, whatever is lost,
\* refused or interrupted (lines 25-43 of mq_producer.c, 23-35 of mq_consumer.c).
TakenInOrder == \A p \in Producers : IsPrefix(taken[p], AllMessages(p))

\* A consumer that says it is complete is right, and all that its producer read
\* was received, by it or by another consumer, unless it ended on a line that
\* looks like EOF, for it begins with that byte or is empty: then lines may be
\* left that nobody receives.  No other line ends a consumer that way (lines
\* 33-37 of mq_producer.c and 29-32 of mq_consumer.c).
CompleteHasAll ==
    \A c \in Consumers : mqPc[c] = "complete" =>
        \/ endedOn[c] = EofMessage /\ taken[mqdes[c]] = AllMessages(mqdes[c])
        \/ /\ endedOn[c].number \in 1..linesRead[mqdes[c]]
           /\ endedOn[c].start # "other"

\* A queue whose producer ended early stays under the name for ever, and so no
\* producer can start again (lines 20-24, 30-32 and 39-42).
LeftBehindStays ==
    [][(queueName # NoQueue /\ Ended(queueName)) =>
          /\ queueName' = queueName
          /\ \A p \in Producers : mqPc[p] = "open" => mqPc'[p] # "read"]_mqVars

\* A consumer ends, though no message may come and its producer may be gone.
ConsumerEnds == \A c \in Consumers : (mqPc[c] = "receive") ~> Ended(c)
==============================================================================
