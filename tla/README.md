# Verification of LinuxSystemPrograming

The repository is a collection of Linux system programs in C and C++. Most are
samples of one system call; the programs with logic of their own are four kinds
of echo server under `socket_test/`, the load generator that tests them, and a
few programs with threads, semaphores and queues. This directory models those
programs in TLA+, checks the models with TLC and proves theorems about the core
of them with TLAPS. Paths are relative to `src/`.

To repeat a run: `tlc -config <name>.cfg <module>.tla` with the names in section 3.
To repeat the proofs: `tlapm <module>_proof.tla` for each of the `_proof` modules of
section 5 (SMT, Zenon and LS4 are enough).

## 1. Inventory

| Component | State | Operations | Interaction |
|---|---|---|---|
| **Thread-pool echo server**, `socket_test/server_pthread_pool.c` | a ring `task_queue` with `front`, `rear`, `count`; a mutex; conditions `not_empty`, `not_full`; the threads | `threadpool_init`, `welcome_client` (accept and push), `worker` (pop and serve) | one acceptor and MAX_THREADS detached workers share the ring |
| **One session of it**, same file | `message`, `used`, the socket and its O_NONBLOCK flag | `handle_client`, `send_all` | one worker and one peer over a stream socket |
| **Epoll echo servers**, `socket_test/tcp_epoll_server_v1.c`, `_v2.c` | per connection a `Client` with a buffer each way and `should_close`; the epoll registrations; `conns` | `handle_recv`, `handle_send`, the event loop of `main` | one thread, many peers; a batch of events is handled while the peers go on |
| **Select echo servers**, `socket_test/tcp_select_server_v1.c`, `_v2.c` | an array of `Client`s, four descriptor sets, `max_fd` | `alloc_client` (v2), `handle_recv`, `handle_send`, the loop of `main` | as above |
| **Poll echo server**, `socket_test/tcp_poll_server_v1.c` | arrays `fds` and `client`, `active_conns` | `handle_recv`, `handle_send`, `remove_conn`, the loop of `main` | as above |
| **Load generator**, `socket_test/stress_test_client.c` | per client a state (CONNECTING, WRITING, READING, DONE, FAILED), buffers, `next_sequence`; `Stats` | `reconnect_client`, `prepare_request`, `handle_connect`, `handle_send`, `handle_recv`, the poll loop of `main`, SIGINT | one thread, many connections to one of the servers |
| **Task pool**, `thread_test/thread_pool.c` | a ring of tasks, a mutex, one condition | `push` (fails when full), `pop`, `worker` | one producer and the workers that could be created |
| **Producers and consumers**, `thread_test/sem_pro_con_prob.c`, `prod_cons_prob.c` | slots between two semaphores; one slot with a flag and two conditions | `producer`, `consumer` | two threads |
| **Synchronisation samples**, `thread_test/pthread_create.c`, `pthread_no_mutex.c`, `pthread_have_mutex.c`, `wr_rd_lock.c` | `flag`, `running` and `BUF`; `count`; `config` | the thread functions | two or more threads |
| **Message queues**, `process_test/mq_producer.c`, `mq_consumer.c`, `mq_p&s.c` | a named queue | timed sends and receives; in `mq_p&s.c` plain ones | processes that are started in any order, and what they leave behind |
| **Shared memory**, `process_test/shared_memory.c` | a named object | create, map, write, wait, read | parent and child; several runs that use the one name |
| **Pipes and FIFOs**, `process_test/fifo_write.c`, `fifo_read.c`, `unamed_pipe_test.c` | the pipe, the buffers, the name | copy loops | two processes |
| **Samples**: the single-connection TCP programs, fork/exec/wait, thread life cycle, `File_IO/` | none | straight-line calls | none |

### What is hard, and what makes each component correct

* *Thread-pool server.* Interleavings of many workers around one mutex; one
  signal for each element; spurious wake-ups; a ring whose indices wrap; numbers
  of descriptors that come back. Correct: every open descriptor has one holder,
  no wake-up is lost, connections are served in the order they were accepted.
* *Session.* Lines split over receives, a peer that does not read, EAGAIN in the
  middle of a line. Correct: each byte is echoed once and in order or dropped
  with its line, and the session ends when its peer does.
* *Epoll server.* Events are a snapshot; the Client of an event may be freed by
  an earlier one; EPOLLOUT must be registered exactly while there is output; the
  close is put off until the output is out; the counter is changed on six paths.
* *Select server.* Four sets, an array and `max_fd` describe the same
  connections; the sets of select are used for a whole turn in which connections
  come and go and numbers come back.
* *Load generator.* A state machine for each client driven by poll, with
  failures at every point; the loop ends on a sum of two counters that count
  different things.
* *Select server v1.* Its sockets block, so a call that was not reported ready,
  or one large send, stops it for everybody; its array is indexed by descriptor.
* *Poll server.* Its result 0 means both success and disconnection, its arrays
  are compacted with an index that is one off, and an entry can outlive its
  connection. Correct: the arrays belong together, and no data stays unread.
* *The others.* Slots without a common index, lost updates, data read after its
  lock was released, plain ints between threads, deadlines computed once, ends of
  pipes that stay open, uninitialised buffers, names left behind by a process
  that failed or was killed. Correct: what arrives is what was sent, in order,
  and the program ends unless its code lets it wait for ever.

`PROJECT.json` lists each hazard at its line, with the properties that cover it. Two
have none, because the code does nothing about them and nothing true can be said
against them: SIGPIPE ends the whole pool server (`server_pthread_pool.c:43`), and a
failing poll ends the load generator with an exit status that does not show it
(`stress_test_client.c:810`). Both are steps of the models (`Sigpipe`, `PollFails`).

## 2. Modules

| Module | What it is |
|---|---|
| `HandOff` | abstract: a bounded first-in-first-out queue from which each item is taken once |
| `PoolServer` | the pool: one action for each statement of `threadpool_init`, `welcome_client` and `worker` that changes shared state |
| `PoolServer_proof`, `EpollServer_proof`, `SelectServer_proof`, `SelectServerV1_proof`, `StressClient_proof` | theorems about the module of that name |
| `ServersV1_proof` | theorems about `PollServer`, and about both servers of `MCServersV1` |
| `Programs_proof` | theorems about `MCPrograms` and each module in it, `EchoSession` first |
| `EchoBuffers_proof` | lemmas about the operators of `StreamSocket` and `EchoBuffers`, used by the proofs about the servers and the session |
| `StreamSocket` | external: the results of recv and send, what poll, select and epoll report, what a peer can do |
| `EchoSession` | `handle_client` and `send_all` with one peer |
| `EchoBuffers` | the two buffers of a connection and the framing between them: `handle_recv` and `handle_send` of the epoll and select servers, which are the same code |
| `EpollServer` | the event loop of the epoll servers; the constant `Version` selects v1 or v2 |
| `SelectServer` | the loop of the select server v2 |
| `SelectServerV1` | the loop of the select server v1 over descriptor numbers, with blocking sockets |
| `PollServer` | the poll server: its two arrays, `remove_conn` and the scan |
| `StressClient` | the load generator, with the network and a server around it |
| `TaskPool` | `thread_pool.c`; implements `HandOff` |
| `SemRing` | `sem_pro_con_prob.c` |
| `OneSlot` | `prod_cons_prob.c` |
| `FlagHandOver` | `pthread_create.c` |
| `SharedCounter` | `pthread_no_mutex.c` and `pthread_have_mutex.c` |
| `ConfigLock` | `wr_rd_lock.c` |
| `MessageQueue` | `mq_producer.c` and `mq_consumer.c`, each started several times |
| `MessageFork` | `mq_p&s.c` |
| `SharedMemory` | `shared_memory.c`, started several times |
| `UnnamedPipe`, `Fifo` | `unamed_pipe_test.c`; `fifo_write.c` and `fifo_read.c` |
| `MCPoolServer`, `MCEchoSession`, `MCEpollServer`, `MCSelectServer`, `MCPollServer`, `MCStressClient` | the instance of a module for TLC; the constants get their values in the `.cfg` files |
| `MCPrograms` | one session and all the programs of `thread_test` and `process_test`: a variable chosen at the start says which of them runs, the others keep their initial state |
| `MCServersV1` | the poll server and the select server v1, in the same way |

`EpollServer`, `SelectServer`, `SelectServerV1` and `PollServer` extend
`EchoBuffers`, which extends `StreamSocket`; `EchoSession` extends
`StreamSocket`. `PoolServer` and `TaskPool` instantiate `HandOff` with refinement
mappings: the same abstract queue for the ring that makes its producer wait and
for the one that refuses. The programs in `MCPrograms` do not interact, in the
repository or in the model; they share a run, not a state. `PoolServer` has a session as the single
step `HandleClient`; `EchoSession` shows what happens inside it, and
`EndsAfterFin` is what justifies the fairness of that step.

### State and actions against the code

**PoolServer.** The variables have the names of the code; `not_empty` and
`not_full` are the sets of threads blocked on the conditions, `pc` is the next
statement of a thread, `client_fd` and `task` are the locals that hold a
descriptor, `open` the descriptors of the process. `pthread_cond_wait` is two
steps: the wait that gives up the mutex, and the `lock` step after a signal or a
spurious wake-up. A failing accept, and a failing set-up that changes nothing,
is a stuttering step. `Sigpipe` ends the process: `send_all` passes no
MSG_NOSIGNAL and nothing ignores the signal. The stale number that Pop leaves in
a slot is kept, as in the code.

**EchoSession.** Bytes are the numbers 1, 2, 3, ... in the order the peer sent
them and `newlines` says which are `'\n'`, so each byte can be followed through
`inq`, `message`, `line` (what `send_all` has left) and `outq`. A session whose
fcntl fails goes on with a blocking socket: `ReceiveAgain` and the EAGAIN of
`SendGivesUp` do not exist for it.

**EpollServer.** `epoll_wait` chooses a batch of ready events; each is handled
in one or two steps (recv, then send) between which the peers go on. `writers`
are the connections registered with EPOLLOUT. Order inside a batch is arbitrary.
Every failure between accept and the end of `epoll_ctl` is `Refuse`. A close
frees the Client: `phase` says how the connection was closed.

**SelectServer.** The sets and `max_fd` have the names of the code; a turn is
`Select`, `Accept` or `AcceptNone`, then for each slot `Skip`, `HandleRecv`
and `HandleSend`; the copies for the next select are made with the step of the
last slot. `accept` returns the lowest number that is free.

**SelectServerV1.** As above, but the slot is the descriptor and the loop goes up
to `max_fds`, the listening socket included. A send that the kernel does not take
as a whole leaves `pc` at `send`, and nothing else happens in the server until
the peer has read (`HandleSend` again) or reset (`SendReset`). `Accept` clears
only `used` (`recv_message`), as line 177 does.

**PollServer.** `fds` and `client` are the arrays, one index apart; `revents` of an
entry that poll never wrote is any value, of one that it wrote the old one.
`RemoveConn` is `remove_conn` with its index: it copies entry `active_conns - 1`
and clears the one at `active_conns`. `AfterResult` is the two meanings of the
result 0: the entry is removed, the new count dropped, and the scan stays at `i`;
`HandleRest` is handle_send and the hang-up, whose count is kept. So that a byte
that reaches a stranger can be told, the bytes of all peers have numbers in one
sequence and `own` holds those of a descriptor's present peer.

**TaskPool.** `push` and `pop` hold the mutex from first to last line and are one
step each; a wait inside `pop` is a place of its own, left by a signal or
spuriously. Some workers may not exist. **SemRing.** One step for each call on a
semaphore and each access to the ring. **OneSlot.** The printf behind the unlock
is a step of its own. **FlagHandOver**, **SharedCounter**, **SharedMemory.** Data
races: the accesses are steps of their own, and a build that reads a variable
once before an empty loop (`hoisted`, `readsOnce`) or keeps one in a register
(`inRegister`) is chosen at the start; that the compiler or the processor exchanges
two stores (of `BUF` and `flag`, or of `flag` and `running`) is not modelled.
**ConfigLock.** The lock is in the places
of its threads; the writer's load and store are two steps.

**MessageQueue.** A queue goes by the producer that created it; the name stands
for one queue or none. A timed call that would have to wait may fail, since the
deadline was computed before everything else; a producer may be interrupted at
any place. Of a line the model keeps its number and its first byte (`FirstBytes`): the
byte EOF (0xFF, which is -1 in a signed char), another one, or none, for strlen of a
line that begins with `'\0'` is 0 and the message empty. `receive_buf` is the first byte
of the consumer's buffer: an empty message leaves the one of the message before, and in
a buffer that was never written it may be any. `ConsumerReceive` ends the consumer
when it is EOF, whatever message it came with (`endedOn`). A line that fills `send_buf`
has no `'\0'`; strlen may then be more than a message may have, so that a send may fail
at any time (`ProducerSendFails`). **MessageFork.** mq_send may fail, the child may die. **SharedMemory.**
An object goes by the run that created it, and a byte is the run that wrote it;
the bytes of strcpy become visible in any order; a parent may be killed.
**UnnamedPipe.** `writeEnds` are the processes that have the writing end open: the
end of the stream comes when there is none; parent and child may be killed, the parent
in the middle of its write too. **Fifo.** Either open may fail. A buffer is the string it
holds, with 0 for a byte nobody wrote; a read asks for as many bytes as the
string is long, and the print prints as many, whatever the read returned.

**StressClient.** One `pc` for the loop of `main`, and `i` for the index of its
for loops. Each call of `handle_send` and `handle_recv` is one step, their inner
loops included: they run until the socket would block. The server echoes byte by
byte, may send bytes of its own (`Noise`), close or reset. Left out: times, byte
counters, the progress bar and the percentiles.

## 3. Runs

| Run | Module, configuration | Bounds | Shows |
|---|---|---|---|
| `pool` | `MCPoolServer`, `PoolServer.cfg` | 2 workers, ring of 2, 4 descriptor numbers | `FdOwnership`, `NoLostWakeup`; the pool implements `HandOff`; every accepted connection is served |
| `programs` | `MCPrograms`, `Programs.cfg` | session: 5 bytes, 2 per recv, message buffer 3, room for 2 echoed bytes; the others: 2 to 3 threads or processes, 2 to 5 rounds, rings, queues and pipes of 1 to 3 | the session: `Conserved`, `CutToTheEnd`, `ShortLinesAccepted`, `EndsAfterFin`; `TaskHandOffSpec`; `SemInv`; `HandedInOrder`, `UpdatesKept`, `MessagesKept`, `LeftBehindStays`, `OwnObject`, `BytesKept`, `ProgramsEnd`, `ProgramsTypeOK` |
| `echo_exact` | `MCEchoSession`, `EchoSession_exact.cfg` | 4 bytes, room for 1 | *violation*: the echo is not always equal to what was sent |
| `epoll` | `MCEpollServer`, `EpollServer.cfg` | 1 connection, 5 bytes, buffers of 3, 2 per recv, room for 1 | `Inv` (bounds, `WriteInterest`), `Conserved`, `EchoedBeforeClose`, `ClosedOnlyWhileWriting`, `OutputLeaves` |
| `epoll_conns` | `MCEpollServer`, `EpollServer_conns.cfg` | 3 connections, limit 2, 2 events for each epoll_wait | `ConnsAccounting`, `BatchLive` |
| `epoll_v1` | `MCEpollServer`, `EpollServer_v1.cfg` | as `epoll`, version 1, 4 bytes | *violation*: `EchoedBeforeClose` |
| `select` | `MCSelectServer`, `SelectServer.cfg` | 2 slots, 3 peers, 3 descriptor numbers, 3 bytes on the first of them, buffers of 2, room for 1 | `Inv` (bounds, `SetsMatch`, `StillReady`), `Conserved`, `ClosedAtTheEnd`, `EventuallyRead` |
| `select_eof` | `MCSelectServer`, `SelectServer_eof.cfg` | 1 slot, 1 peer, 3 bytes | *violation*: `ClosedAfterEcho` |
| `servers_v1` | `MCServersV1`, `ServersV1.cfg` | poll: 2 peers, 2 bytes between them, arrays of 3; select v1: 3 numbers, an array for 2 connections, 3 peers, 2 bytes on the first number, message buffer of 1, room for 1 | poll: `Inv` (bounds, `Watched`), `NotAnswered`, `EventuallyRead`; select v1: `SelInv`, `SelConserved`, `SelReadUnlessBlocked` |
| `poll_echo` | `MCPollServer`, `PollServer_echo.cfg` | 2 peers, 1 byte | *violation*: `OnlyOwnEcho` |
| `stress` | `MCStressClient`, `StressClient.cfg` | 2 clients, 2 requests of 2 bytes, recv_buf of 3, network of 1 byte, 1 byte of noise | `Inv` (bounds, `Accounting`, `NobodyIdle`), `EndsOnlyIfAccounted`, `SuccessIsComplete`, `NoFalseFailure`, `Terminates` |
| `stress_leftover` | `MCStressClient`, `StressClient_leftover.cfg` | 1 client, 1 byte of noise | *violation*: `LeftoverKept` |

The property of a run that has several parts is the conjunction of named ones
that stand, each with the lines it is about, in the module of its component. In
`MCPrograms`: `HandedInOrder` is `PrintsOwnOrNext` (a consumer prints its own
number or, when the producer was faster than its printf, the next) and
`EchoedInOrder`; `UpdatesKept` is `FinalCount` and `ReadIsCurrent`;
`MessagesKept` is `NameIsItsProducers`, `TakenInOrder` (messages are received once and
in order), `CompleteHasAll` and `ChildGetsAll`;
`OwnObject` is `OwnFrontOfMessage` and `NoNameLeft`; `BytesKept` is `CopiedWhole`
and `PrintsWhatIsRead`; `ProgramsEnd` says of each program that it ends, or
where its code may keep it for ever. `TypeOK` and `IInv` of the pool are proved,
and no run checks them.

**Why the bounds are enough.** Two workers and two slots are the least with which
two workers sleep while two elements arrive, one worker overtakes another that
was woken, the ring wraps while it is full, the acceptor waits, and a number is
closed and accepted again; the theorems remove these bounds. The buffers are
chosen so that a line can be shorter than, equal to and longer than what one
recv returns, what a buffer holds and what the kernel takes, and so that two
lines can arrive in one receive. Two connections are the least that share a
batch or a turn; the third meets the limit, or the number that the first gave
up. In the select servers only the peer on the first descriptor number sends
bytes, so that its buffers are used in full while the other connections come and
go. Two producers and two consumers are the least for a name that is taken over;
two runs and an earlier one for an object whose name another run removes; the
rings of the small programs are shorter than their loops, so that they wrap, but
the task pool's, which in the code is as long as the loop. Each counter is bounded by a named
constant (`MaxBytes`, `MaxSent`, `MaxNoise`, `MaxPeers`, `MaxFd`, `MaxLines`,
`MaxReads`, `MaxChunks`) in the guard of the peer
that would raise it; no guard of a program has a bound that the code has not.

`CHECK_DEADLOCK FALSE` is given everywhere: each of these systems may stop (the
process or the session ends, or the peers have sent all they may send and the
server blocks in epoll_wait, select or recv).

**Fairness.** The scheduler runs every thread that can run (weak fairness for
the steps of a thread). A mutex is not fair: some thread that asks for a free
mutex gets it, not each of them. Sessions end (`HandleClient`), which
`EndsAfterFin` shows for peers that end their streams: with a socket that is
non-blocking always, and else unless the worker is held in send by a peer that
does not read. Spurious wake-ups stop at some time: without that the acceptor
could be kept from the mutex for ever. Connections need not arrive. For the
liveness of the epoll server and of the select server v2 the peers read; for
that of the load generator the server echoes and connection attempts end. For
the poll server and the select server v1 nothing is assumed of the peers, so
that `SelReadUnlessBlocked` has to name the one case in which they matter. In
`MCPrograms` each thread or process that is started goes on, and nothing is
assumed of what is typed, of calls that may fail, of processes that may be
killed, and of a producer of messages.

## 4. What the runs say about the code

Holds: everything not listed here. Disagreements with what the repository says
of itself, each a run that ends in a counterexample:

1. `echo_exact`: `handle_client` does not look at the result of `send_all`, which
   returns -1 at the first EAGAIN, so a peer that sends without reading loses the
   rest of the line (`server_pthread_pool.c:100`); the load generator expects an
   exact echo (`stress_test_client.c:450`).
2. `epoll_v1`: version 1 closes on EPOLLRDHUP alone, with requests unread
   (`tcp_epoll_server_v1.c:242`). Version 2 does not: `EchoedBeforeClose` holds.
3. `select_eof`: the select server closes at the end of the stream with answers
   still in `send_buf` (`tcp_select_server_v2.c:232`).
4. `stress_leftover`: the bytes that `handle_recv` keeps behind an answer are
   dropped by `prepare_request` (`stress_test_client.c:336` against 479-480).
5. `poll_echo`: the poll server closes a connection whose data it has stored and
   drops the new value of `active_conns` (`tcp_poll_server_v1.c:218`): the entry,
   with the output, stays, and becomes that of the next connection with the same
   number, which is sent the lines of another client.

Behaviour that the properties state because it is easily overlooked:
`ConnsAccounting` (the epoll server's `conns` is not lowered when a send fails,
so each such close uses up one connection for ever), `ClosedOnlyWhileWriting`
(a peer that ends its stream with nothing left to send it is never closed),
`EndsOnlyIfAccounted` (a run of the load generator in which a client fails with
requests left does not end by itself), `ShortLinesAccepted` (a line may be
refused as too long although it is shorter than the buffer), `CutToTheEnd`,
`NotAnswered` (the poll server closes each connection when it has received
something, and answers nobody), `SelReadUnlessBlocked` (one send for a peer that
does not read stops the select server v1), `CompleteHasAll` (a consumer of messages
that says it is complete may have ended on a line: `mq_consumer.c:29` looks at the
first byte of any message, so that a line that begins with 0xFF is taken for EOF, and
an empty message may be; only when it ended on EOF was everything received),
`CopiedWhole` (the child of the unnamed pipe takes a parent killed in its write for the
end of the argument), `LeftBehindStays` (a producer of
messages that ends early keeps all later ones from starting), `ParentEnds` (one
refused message makes parent and child of `mq_p&s.c` wait for ever),
`EveryReadEchoed` (the echo thread of `pthread_create.c` may never end),
`FinalCount` (without the mutex as few as two increments may be left),
`OwnFrontOfMessage` (the child may print a part of the message only), `NoNameLeft`
(only a parent that is killed leaves its name) and `PrintsWhatIsRead` (the FIFO's
reader repeats bytes after a short read).

## 5. Proofs

`PoolServer_proof` proves for every finite set of workers, every set of
descriptors and every `MAX_TASK >= 1`, from `PoolAssumption` alone:

* `Invariance`: `Spec => []IInv`; from it `TypeCorrect` and `Ownership`;
* `WakeupsKept`: `Spec => []NoLostWakeup`;
* `Refinement`: `Spec => HandOffSpec`.

**The inductive invariant.** `FdOwnership` alone is not inductive: that Push
does not overwrite a queued descriptor needs `rear = (front + count) % MAX_TASK`
(`RingInv`), that the number it pushes is held by nobody else needs to know
which locals are set in which statement (`LocalInv`), and that no two threads are
in the critical section needs the mutex to agree with the `pc`s (`LockInv`).
`IInv` is their conjunction with `TypeOK` and `WaitInv`. The proof has one step
for each action, on lemmas about indices modulo `MAX_TASK` (`ModInjective`,
`ModShift`, `ModNext`) and one (`OwnershipUnchanged`) for the steps that move no
descriptor. `NoLostWakeup` is inductive relative to `IInv`; its proof counts the
workers on their way to the ring and needs the theorems on finite sets. The
refinement maps Accept to Offer, Push to Enqueue, Pop to Dequeue, HandleClient
to Finish, the end of the process to Halt and every other step to a stutter.

**The programs.** `Programs_proof` proves `ProgramsInvariant`:
`ProgramsSpec => []ProgramsInv`, and from it one theorem for each property without
fairness that the run `programs` checks, for any number of threads, processes, slots,
rounds, lines and bytes; the assumptions are those that the modules name, each on
the constants of one program. `ProgramsInv` joins one inductive invariant for each
program; a step of `MCPrograms` is, to each program, one of its own or none
(`ProgramsSteps`), and so the programs' lemmas are proved apart. What each invariant
adds to the properties, because they are not inductive without it:

* *TaskPool* (`TypesTheorem`, `TaskRefinement`): `front` and `rear` are the numbers of
  tasks popped and pushed modulo `MAX_TASK`, and task t is in slot t - 1. So `push`
  never finds the ring full, `TaskQueued` is a run of numbers (`TaskQueuedIs`,
  `NumberQueue`), Prepare is Offer, Push is Enqueue, a Pop that finds a task is
  Dequeue, Run is Finish, and every other step a stutter.
* *SemRing* (`SemTheorem`): that the slot which the consumer reads holds the mission
  it counts needs `SlotsKept`, and that Produce does not overwrite one that was not
  taken needs the semaphores to agree with the loop counters (`SemAccounting`). The
  missions in the ring are fewer than `BUF_SIZE` apart, and so in different slots
  (`RoundBound`, `SlotsDiffer`).
* *OneSlot*, *FlagHandOver* (`HandedTheorem`): as many lines were printed as numbers
  were taken, but for the one about to be printed; a line is read only while `flag`
  is down and printed only while it is up, and at most one is on its way.
* *SharedCounter*, *ConfigLock* (`UpdatesTheorem`): neither `count` nor a register
  exceeds what both threads have done (`NothingGained`); with the mutex `count` is
  just that (`CountExclusion`); without it a thread that has done a round builds on at
  least one, so that two are left (`SomeAreLeft`). Writer and readers exclude each
  other, and what the writer is about to change is current.
* *MessageQueue*, *MessageFork* (`MessagesTheorem`, `LeftBehindTheorem`): what was
  taken from a queue followed by what is in it are, by their numbers, the lines in order,
  with EOF behind them if it was sent (`SentInOrder`), and the message with EOF's number
  is EOF (`EofIsOne`). A consumer that is complete had EOF and left the queue empty, as
  its producer had no more to send (`HadLast`), or it had a line that does not begin
  with an ordinary byte (`HadLine`). In `mq_p&s.c` what was sent ascends and is below the parent's counter, so
  that `forkMaxmsg` messages are all of them.
* *SharedMemory* (`ObjectTheorem`): a run maps no object but its own and only it
  writes there, while the name belongs to a run that has not unlinked it.
* *UnnamedPipe*, *Fifo* (`BytesTheorem`): copied, in the pipe and left over make up
  the argument, and the child ends only when nothing is left, unless the parent was
  killed; what was read is in
  front of the reader's buffer until it is printed (`LastRead`), and all before it is
  in the output (`Covers`).

`SessionTheorem` states the session's three invariants for this run; their proof is
that of the session by itself.

**The session.** `Programs_proof` proves first for all sizes of `buf` and `message` and
every stream (`SessionAssumption`, `SockAssumption`): `SessionConservedTheorem`,
`CutTheorem` and `ShortLinesTheorem`, from `SessionInvariant`:
`Spec => []SessionInv`. `Conserved` alone is not inductive: it speaks of the
concatenation of what is pending, and a step that moves bytes between `line`,
`message` and the kernel's queue needs to know where each part begins (`Places`);
that the echo stays in order when `send_all` gives up needs that what is dropped
is the end of what was `line` (`Framing`: `line` ends with a `'\n'`, and
`message` holds none at recv), and `DroppedToLineEnd` is the inductive form of
`CutToTheEnd`.

**The epoll servers.** `EpollServer_proof` proves for any sets of peers, sizes of
buffers, `MAX_CONNECTIONS` and both versions (`EpollAssumption`,
`BufferAssumption`, `SockAssumption`) `EpollInvTheorem`, `ConservedTheorem`,
`BatchTheorem`, `ConnsTheorem` and the action property `ClosedTheorem`, and under
the hypothesis `Version = 2`, which is the version that it is about,
`EchoedTheorem`. The inductive invariant `EpollInv` says of each connection by
itself what its phase, Client, socket, registration and line ends have to do with
each other (`ConnOK`); of the batch, besides `BatchLive`, that an event with
EPOLLOUT is for a connection that still has EPOLLOUT registered (`Armed`: so that
a send always finds something to send); and of `conns` that it is the number of connections open and of those closed by a failed send. `ConnOK` adds
to the properties that `recv_message` never holds a complete line between two
events, and that `should_close` means that the stream has ended and was received
whole.

**The select server v2.** `SelectServer_proof` proves for every number of
descriptors, slots and peers `SelectInvTheorem`, `SelectConservedTheorem` and the
action property `ClosedAtTheEndTheorem`, from `SelectAssumption` and those of the
buffers. `SelectInv` adds to `Inv` and `Conserved` that a slot is free and empty or
fits the socket of its descriptor (`SlotsOK`), which is what makes it safe that
`alloc_client` does not clear a slot, and that until accept has returned the
results of select name only descriptors that are open.

**The poll server.** `ServersV1_proof` proves for all sizes of the arrays and the
buffers and any number of peers (`PollAssumption`, `BufferAssumption`,
`SockAssumption`) `PollInvTheorem` and `NotAnsweredTheorem`. `PollInv` adds to
`Watched` that entry 0 alone is the listening socket's, although `remove_conn` copies
entries (`Arrays`); that neither the entries in use nor the open descriptors outnumber
the peers that were accepted (`Counts`), so that `accept` finds a number and no entry
is written past the arrays; and that input reported at entry 0 means that a peer waits
(`Loop`). `NotAnswered` needs to know where bytes are: `Traced` says that what any
buffer or socket of the server holds was sent before, and that none of it is from the
present peer of an open descriptor unless a buffer was too small for that peer. So what
the server sends, through entries that outlive their connections, is never the answer
to the peer that gets it.

**The select server v1.** `SelectServerV1_proof` proves for any sizes of the array and
the buffers, any number of descriptors and peers and whatever they send (`Sizes`: the
array has at least one entry) `SelectV1InvTheorem` and `SelectV1ConservedTheorem`.
`SelectV1Inv` says of an entry of the array that it is free and empty, or that its
client fits the socket of its descriptor (`SlotsOK`): with what the present send
handed to the kernel counted as sent (`Present`), as `send_offset` moves only when a
send returns. That no call waits is inductive in the form of `Asked`: what select
reported of each descriptor that the loop has not passed is still true, also while the
server is blocked in a send to another. It stays true because accept comes first in
the loop, so that a number it hands out is in neither result, and a peer can take back
neither its bytes nor the room it made. A recv and a send are one lemma each on the
entry they touch (`CallKeeps`, `CallCloses`), and the loop's step is another
(`Advanced`). `ServersV1_proof` carries both theorems to the specification that the run
checks (`SelInvTheorem`, `SelConservedTheorem`, with the sizes of the select server as
constants of `MCServersV1`, `SelectAssumption`): it instantiates the proved module with
the substitution of `MCServersV1`, and shows that each step there is one of
`SelectServerV1` or leaves its variables alone (`ServersSelect`).

**Buffers and sockets.** The proofs about the servers and the session rest on lemmas
about one call at a time, in `EchoBuffers_proof`: what recv, send and the peer do to the
parts of a socket; that `handle_recv` and `handle_send` keep each byte in one place,
leave no complete line behind unless a buffer is full, and take an offset no further
than what is in the buffer; and what they do to an entry of a select server's array
(`SlotOK`).

**The load generator.** `StressClient_proof` proves for every number of clients and
requests, every length of a request and every buffer it fits in
(`StressAssumption`) `StressInvTheorem`, `NoFalseFailureTheorem`, `SuccessTheorem`
and `EndsTheorem`. The inductive invariant `StressInv` says of each open client
(`InFlight`) that while its server sends nothing of its own, `recv_buf` and the
kernel's queue hold the echo, byte for byte, of its one unanswered request: so
the first `'\n'` is the last byte of that request (`OneNewline`, `EchoIsRequest`),
and no buffer fills without one. The counters are cardinalities of sets of requests
and of clients (`Counted`); `EndsTheorem` compares them: where the loop ends,
the requests without an answer are no more than the clients given up, each of which
lacks at least its last one, so they are just these (`Unanswered`).
`Unstarted`, `DoneOnlyNow` and `EventsHold` say what the loop relies on: that a
client is connected once, that CLIENT_DONE does not outlive its step, and that
what poll reported of a connection still holds when it is handled.

Each inductive invariant was checked by TLC as an invariant of the runs' instances
before it was proved.

**Only model-checked.** All liveness properties (fairness and ENABLED are out of
the prover's reach), also those that refine a fair specification. Every invariant and
every action property that a passing run checks is also stated by a theorem. That the
properties of the five runs that expect a violation fail is a matter of a
counterexample, which TLC gives.

## 6. Plan

Done, in this order: the pool with its theorems; the session; the epoll server;
the select server v2; the load generator; the poll server; the select server v1;
the programs with threads (`TaskPool`, `SemRing`, `OneSlot`, `FlagHandOver`,
`SharedCounter`, `ConfigLock`); the programs with processes (`MessageQueue`,
`MessageFork`, `SharedMemory`, `UnnamedPipe`, `Fifo`); the theorems about all of these
programs and about all servers. Left: an abstract echo service that `EchoSession`
without EAGAIN, `EpollServer` and `SelectServer` implement.

## 7. Not modelled, and why

* Straight-line samples (one system call each, no state): `File_IO/`, the
  fork/exec/wait programs, the thread life-cycle programs, the single-connection
  TCP programs.
* The percentiles of the load generator (floating-point arithmetic for a report),
  its progress bar and its byte and time counters.
* The set-up errors of a server (socket, bind, listen), which end the process
  before anything is shared; only the pool's, whose workers already run, are
  modelled. Errors of poll and select that only call them again are stuttering.
* What the poll server does beyond its arrays: no line compares `active_conns`
  with their size (208-211), so the model has fewer peers than entries. That
  making a new descriptor of it non-blocking fails is left out as well.
* In `shared_memory.c` a child that is killed; in `fifo_write.c` input with
  `'\0'` in it. In `mq_p&s.c` a parent that is killed. Of the messages that
  `mq_consumer.c` prints, all but the first byte: the bytes of the message before that
  follow a message without a `'\0'` are printed with it.
* Lines longer than what the buffers of the models hold are cut as the code cuts
  them, but the contents of a line beside its end is never looked at.
