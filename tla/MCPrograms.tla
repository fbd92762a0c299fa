----------------------------- MODULE MCPrograms ------------------------------
\* Instances for TLC of one session of the thread-pool server and of the programs
\* under thread_test and process_test.  They share nothing, so one run checks them
\* all: at the start a program is chosen, and the others keep their initial state.
EXTENDS EchoSession, TaskPool, SemRing, OneSlot, FlagHandOver, SharedCounter,
        ConfigLock, MessageQueue, MessageFork, SharedMemory, UnnamedPipe, Fifo

VARIABLE program    \* the program that is started

programsVars ==
    <<program, vars, taskVars, semVars, slotVars, flagVars, countVars, configVars, mqVars,
      forkVars, shmVars, pipeVars, fifoVars>>

Programs ==
    {"session", "task", "sem", "slot", "flag", "count", "config", "queue", "fork",
     "memory", "pipe", "fifo"}

\* Of a program that is not started one initial state is enough.
ProgramsInit ==
    /\ program \in Programs
    /\ Init /\ (program # "session" => newlines = {})
    /\ TaskInit /\ (program # "task" => taskPc = [w \in PoolWorkers |-> "pop"])
    /\ SemInit
    /\ SlotInit
    /\ FlagInit /\ (program # "flag" => hoisted = {})
    /\ CountInit /\ (program # "count" => ~haveMutex /\ ~inRegister)
    /\ ConfigInit
    /\ MqInit
    /\ ForkInit /\ (program # "fork" => ~linked)
    /\ ShmInit /\ (program # "memory" => ~readsOnce /\ shmName = NoRun)
    /\ PipeInit
    /\ FifoInit /\ (program # "fifo" => path = "none" /\ writerBuf = <<>> /\ readerBuf = <<>>)

Frozen(p) ==
    /\ UNCHANGED program
    /\ IF p = "session" THEN TRUE ELSE UNCHANGED vars
    /\ IF p = "task" THEN TRUE ELSE UNCHANGED taskVars
    /\ IF p = "sem" THEN TRUE ELSE UNCHANGED semVars
    /\ IF p = "slot" THEN TRUE ELSE UNCHANGED slotVars
    /\ IF p = "flag" THEN TRUE ELSE UNCHANGED flagVars
    /\ IF p = "count" THEN TRUE ELSE UNCHANGED countVars
    /\ IF p = "config" THEN TRUE ELSE UNCHANGED configVars
    /\ IF p = "queue" THEN TRUE ELSE UNCHANGED mqVars
    /\ IF p = "fork" THEN TRUE ELSE UNCHANGED forkVars
    /\ IF p = "memory" THEN TRUE ELSE UNCHANGED shmVars
    /\ IF p = "pipe" THEN TRUE ELSE UNCHANGED pipeVars
    /\ IF p = "fifo" THEN TRUE ELSE UNCHANGED fifoVars

ProgramsNext ==
    \/ program = "session" /\ Next /\ Frozen("session")
    \/ program = "task" /\ TaskNext /\ Frozen("task")
    \/ program = "sem" /\ SemNext /\ Frozen("sem")
    \/ program = "slot" /\ SlotNext /\ Frozen("slot")
    \/ program = "flag" /\ FlagNext /\ Frozen("flag")
    \/ program = "count" /\ CountNext /\ Frozen("count")
    \/ program = "config" /\ ConfigNext /\ Frozen("config")
    \/ program = "queue" /\ MqNext /\ Frozen("queue")
    \/ program = "fork" /\ ForkNext /\ Frozen("fork")
    \/ program = "memory" /\ ShmNext /\ Frozen("memory")
    \/ program = "pipe" /\ PipeNext /\ Frozen("pipe")
    \/ program = "fifo" /\ FifoNext /\ Frozen("fifo")

\* The threads and processes of the program that is started go on; nothing is
\* assumed of what is typed, of peers, and of calls that may fail.
ProgramsSpec ==
    /\ ProgramsInit /\ [][ProgramsNext]_programsVars
    /\ WF_vars(program = "session" /\ Session)
    /\ WF_taskVars(program = "task" /\ TaskMain)
    /\ \A w \in PoolWorkers : WF_taskVars(program = "task" /\ TaskWorker(w))
    /\ WF_semVars(program = "sem" /\ SemProducer)
    /\ WF_semVars(program = "sem" /\ SemConsumer)
    /\ WF_slotVars(program = "slot" /\ SlotProducer)
    /\ WF_slotVars(program = "slot" /\ SlotConsumer)
    /\ WF_flagVars(program = "flag" /\ FlagEcho)
    /\ WF_flagVars(program = "flag" /\ (InputFlag \/ InputEnds))
    /\ WF_configVars(program = "config" /\ ConfigWriter)
    /\ \A r \in Readers : WF_configVars(program = "config" /\ ConfigReader(r))
    /\ \A c \in Consumers : WF_mqVars(program = "queue" /\ MqConsumer(c))
    /\ WF_forkVars(program = "fork" /\ ForkParent)
    /\ WF_forkVars(program = "fork" /\ ChildReceive)
    /\ \A a \in Runs : WF_shmVars(program = "memory" /\ ShmParent(a))
    /\ \A a \in Runs : WF_shmVars(program = "memory" /\ ShmChild(a))
    /\ WF_pipeVars(program = "pipe" /\ PipeParent)
    /\ WF_pipeVars(program = "pipe" /\ PipeChild)
    /\ WF_fifoVars(program = "fifo" /\ FifoWriter)
    /\ WF_fifoVars(program = "fifo" /\ FifoReader)

-----------------------------------------------------------------------------
(* Properties: conjunctions of those of the programs.                      *)

\* The session's buffers and the indices of the task ring stay in their bounds,
\* and push refuses no task (server_pthread_pool.c:66-103, thread_pool.c:34-69).
ProgramsTypeOK == TypeOK /\ TaskTypeOK /\ NoTaskRefused

\* What one thread hands to another comes once and in order, with the freedom that
\* a printf behind the unlock has (prod_cons_prob.c:15-36, pthread_create.c:13-37).
HandedInOrder == PrintsOwnOrNext /\ EchoedInOrder

\* No update is lost under a lock and none is seen half done (pthread_no_mutex.c:10-18,
\* pthread_have_mutex.c:10-19, wr_rd_lock.c:13-24).
UpdatesKept == FinalCount /\ ReadIsCurrent

\* Who creates a queue finds it under its name, messages are received in order and
\* once, and who reads to the end of a queue has all that was sent, but for a
\* consumer that took a line for the end (mq_producer.c:20-48, mq_consumer.c:23-35,
\* mq_p&s.c:40-64).
MessagesKept == NameIsItsProducers /\ TakenInOrder /\ CompleteHasAll /\ ChildGetsAll

\* A run prints its own message and takes its name away, whatever other runs do
\* (shared_memory.c:59-227).
OwnObject == OwnFrontOfMessage /\ NoNameLeft

\* The reader of a pipe prints all the bytes that it read, in order (fifo_read.c:24-28,
\* unamed_pipe_test.c:27-43).
BytesKept == CopiedWhole /\ PrintsWhatIsRead

\* A program that is under way ends, and does its work: no signal, post or end of a
\* stream that a thread waits for is lost.  The exceptions are named in its part:
\* the echo thread of pthread_create.c that missed `running', the parent and child
\* of mq_p&s.c after a refused message, the child of shared_memory.c that was built
\* to look once, and processes that are killed.
ProgramsEnd ==
    /\ TaskEventuallyRun
    /\ AllAccomplished
    /\ BothLoopsEnd
    /\ EveryReadEchoed
    /\ ConfigThreadsEnd
    /\ ConsumerEnds
    /\ ParentEnds
    /\ ShmRunEnds
    /\ PipeEnds
    /\ FifoEnds
==============================================================================
