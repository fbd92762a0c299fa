----------------------------- MODULE PoolServer ------------------------------
(***************************************************************************)
(* The thread-pool echo server, socket_test/server_pthread_pool.c: the     *)
(* main thread accepts connections and puts their descriptors in a ring    *)
(* buffer, detached workers take them out and serve them to the end.       *)
(*                                                                         *)
(* Every access to the ring is made under one mutex; not_empty and         *)
(* not_full are the two condition variables.  A thread's pc says which     *)
(* statement it runs next:                                                 *)
(*   lock   pthread_mutex_lock, or the return from pthread_cond_wait       *)
(*   test   the while condition, mutex held                                *)
(*   wait   inside pthread_cond_wait, mutex released                       *)
(*   signal pthread_cond_signal    unlock pthread_mutex_unlock             *)
(*   handle handle_client (one connection, modelled in EchoSession)        *)
(* A statement that fails and changes nothing (accept returning -1) is a   *)
(* stuttering step.                                                        *)
(***************************************************************************)
EXTENDS Naturals, Sequences, FiniteSets

CONSTANTS Workers,    \* the MAX_THREADS slots of ThreadPool.threads
          Main,       \* the thread that runs main
          NoThread,   \* the mutex is free
          Fds,        \* the descriptor numbers the process may use
          NoFd,       \* no descriptor (an array slot never written)
          MAX_TASK    \* slots of the ring buffer

Threads == Workers \cup {Main}

ASSUME PoolAssumption ==
    /\ IsFiniteSet(Workers)
    /\ Main \notin Workers
    /\ NoThread \notin Threads
    /\ NoFd \notin Fds
    /\ MAX_TASK \in Nat \ {0}

VARIABLES
    task_queue,   \* Queue.task_queue: slot -> descriptor
    front,        \* Queue.front
    rear,         \* Queue.rear
    count,        \* Queue.count
    mutex,        \* Queue.mutex: its owner
    not_empty,    \* threads blocked on Queue.not_empty
    not_full,     \* threads blocked on Queue.not_full
    pc,           \* thread -> next statement
    client_fd,    \* welcome_client's local, until it is queued
    task,         \* worker -> its local task.client_fd
    open          \* descriptors open in the process

queueVars == <<task_queue, front, rear, count>>
condVars  == <<not_empty, not_full>>
vars == <<task_queue, front, rear, count, mutex, not_empty, not_full, pc,
          client_fd, task, open>>

Slots == 0..(MAX_TASK - 1)

WorkerPc == {"unborn", "failed", "lock", "test", "wait", "signal", "unlock",
             "handle", "exited"}
MainPc   == {"init", "listen", "accept", "lock", "test", "wait", "signal",
             "unlock", "exited"}

Init ==
    /\ task_queue = [i \in Slots |-> NoFd]
    /\ front = 0 /\ rear = 0 /\ count = 0
    /\ mutex = NoThread
    /\ not_empty = {} /\ not_full = {}
    /\ pc = [t \in Threads |-> IF t = Main THEN "init" ELSE "unborn"]
    /\ client_fd = NoFd
    /\ task = [w \in Workers |-> NoFd]
    /\ open = {}

-----------------------------------------------------------------------------
(* pthreads and the process, as the code uses them.                        *)

\* The sets of threads pthread_cond_signal may wake.
Awaken(waiters) == IF waiters = {} THEN {{}} ELSE {{t} : t \in waiters}

\* The threads' pcs when t goes on to label and those in woken leave the wait.
Goto(t, label, woken) ==
    [u \in Threads |-> IF u = t THEN label
                       ELSE IF u \in woken THEN "lock" ELSE pc[u]]

\* POSIX lets pthread_cond_wait return without a signal.
SpuriousWakeup(t) ==
    /\ t \in not_empty \cup not_full
    /\ not_empty' = not_empty \ {t}
    /\ not_full' = not_full \ {t}
    /\ pc' = [pc EXCEPT ![t] = "lock"]
    /\ UNCHANGED <<queueVars, mutex, client_fd, task, open>>

\* The process ends: every thread is gone and every descriptor is closed.
Exit ==
    /\ pc' = [t \in Threads |-> "exited"]
    /\ task_queue' = [i \in Slots |-> NoFd]
    /\ front' = 0 /\ rear' = 0 /\ count' = 0
    /\ mutex' = NoThread
    /\ not_empty' = {} /\ not_full' = {}
    /\ client_fd' = NoFd
    /\ task' = [w \in Workers |-> NoFd]
    /\ open' = {}

-----------------------------------------------------------------------------
(* main, threadpool_init and welcome_client                                *)

\* threadpool_init creates a worker, or reports the failure and continues.
CreateWorker(w) ==
    /\ pc[Main] = "init"
    /\ pc[w] = "unborn"
    /\ \E outcome \in {"lock", "failed"} : pc' = [pc EXCEPT ![w] = outcome]
    /\ UNCHANGED <<queueVars, mutex, condVars, client_fd, task, open>>

PoolReady ==
    /\ pc[Main] = "init"
    /\ \A w \in Workers : pc[w] # "unborn"
    /\ pc' = [pc EXCEPT ![Main] = "listen"]
    /\ UNCHANGED <<queueVars, mutex, condVars, client_fd, task, open>>

\* socket, bind and listen; main calls exit(1) when one of them fails.
Listen ==
    /\ pc[Main] = "listen"
    /\ pc' = [pc EXCEPT ![Main] = "accept"]
    /\ UNCHANGED <<queueVars, mutex, condVars, client_fd, task, open>>

ListenFails == pc[Main] = "listen" /\ Exit

\* accept returns a number that is not open: one closed before may come back.
Accept(fd) ==
    /\ pc[Main] = "accept"
    /\ fd \in Fds \ open
    /\ open' = open \cup {fd}
    /\ client_fd' = fd
    /\ pc' = [pc EXCEPT ![Main] = "lock"]
    /\ UNCHANGED <<queueVars, mutex, condVars, task>>

MainLock ==
    /\ pc[Main] = "lock"
    /\ mutex = NoThread
    /\ mutex' = Main
    /\ pc' = [pc EXCEPT ![Main] = "test"]
    /\ UNCHANGED <<queueVars, condVars, client_fd, task, open>>

Full == count = MAX_TASK

\* Mutated form of MainWait: a full ring drops the connection without closing it.
MainWait_Drop ==
    /\ pc[Main] = "test"
    /\ Full
    /\ client_fd' = NoFd
    /\ pc' = [pc EXCEPT ![Main] = "unlock"]
    /\ UNCHANGED <<queueVars, mutex, condVars, task, open>>

MainWait ==
    /\ pc[Main] = "test"
    /\ Full
    /\ not_full' = not_full \cup {Main}
    /\ mutex' = NoThread
    /\ pc' = [pc EXCEPT ![Main] = "wait"]
    /\ UNCHANGED <<queueVars, not_empty, client_fd, task, open>>

\* Mutated form of Succ: the index does not wrap.
Succ_NoWrap(i) == i + 1

\* The index after i in the ring.
Succ(i) == (i + 1) % MAX_TASK

Push ==
    /\ pc[Main] = "test"
    /\ ~Full
    /\ task_queue' = [task_queue EXCEPT ![rear] = client_fd]
    /\ rear' = Succ(rear)
    /\ count' = count + 1
    /\ client_fd' = NoFd
    /\ pc' = [pc EXCEPT ![Main] = "signal"]
    /\ UNCHANGED <<front, mutex, condVars, task, open>>

\* Mutated form of MainSignal: it signals only when the ring was empty.
MainSignal_OnlyFirst ==
    /\ pc[Main] = "signal"
    /\ \E woken \in (IF count = 1 THEN Awaken(not_empty) ELSE {{}}) :
         /\ not_empty' = not_empty \ woken
         /\ pc' = Goto(Main, "unlock", woken)
    /\ UNCHANGED <<queueVars, mutex, not_full, client_fd, task, open>>

MainSignal ==
    /\ pc[Main] = "signal"
    /\ \E woken \in Awaken(not_empty) :
         /\ not_empty' = not_empty \ woken
         /\ pc' = Goto(Main, "unlock", woken)
    /\ UNCHANGED <<queueVars, mutex, not_full, client_fd, task, open>>

MainUnlock ==
    /\ pc[Main] = "unlock"
    /\ mutex' = NoThread
    /\ pc' = [pc EXCEPT ![Main] = "accept"]
    /\ UNCHANGED <<queueVars, condVars, client_fd, task, open>>

-----------------------------------------------------------------------------
(* worker                                                                  *)

\* Mutated form of WorkerLock: a worker looks at the ring without the mutex.
WorkerLock_Unlocked(w) ==
    /\ pc[w] = "lock"
    /\ mutex' = w
    /\ pc' = [pc EXCEPT ![w] = "test"]
    /\ UNCHANGED <<queueVars, condVars, client_fd, task, open>>

WorkerLock(w) ==
    /\ pc[w] = "lock"
    /\ mutex = NoThread
    /\ mutex' = w
    /\ pc' = [pc EXCEPT ![w] = "test"]
    /\ UNCHANGED <<queueVars, condVars, client_fd, task, open>>

WorkerWait(w) ==
    /\ pc[w] = "test"
    /\ count = 0
    /\ not_empty' = not_empty \cup {w}
    /\ mutex' = NoThread
    /\ pc' = [pc EXCEPT ![w] = "wait"]
    /\ UNCHANGED <<queueVars, not_full, client_fd, task, open>>

\* Mutated form of Pop: the newest connection is taken instead of the oldest.
Pop_Newest(w) ==
    /\ pc[w] = "test"
    /\ count # 0
    /\ rear' = (rear + MAX_TASK - 1) % MAX_TASK
    /\ task' = [task EXCEPT ![w] = task_queue[rear']]
    /\ count' = count - 1
    /\ pc' = [pc EXCEPT ![w] = "signal"]
    /\ UNCHANGED <<task_queue, front, mutex, condVars, client_fd, open>>

Pop(w) ==
    /\ pc[w] = "test"
    /\ count # 0
    /\ task' = [task EXCEPT ![w] = task_queue[front]]
    /\ front' = Succ(front)
    /\ count' = count - 1
    /\ pc' = [pc EXCEPT ![w] = "signal"]
    /\ UNCHANGED <<task_queue, rear, mutex, condVars, client_fd, open>>

\* Mutated form of WorkerSignal: it never signals not_full.
WorkerSignal_Missing(w) ==
    /\ pc[w] = "signal"
    /\ pc' = Goto(w, "unlock", {})
    /\ UNCHANGED <<queueVars, mutex, condVars, client_fd, task, open>>

WorkerSignal(w) ==
    /\ pc[w] = "signal"
    /\ \E woken \in Awaken(not_full) :
         /\ not_full' = not_full \ woken
         /\ pc' = Goto(w, "unlock", woken)
    /\ UNCHANGED <<queueVars, mutex, not_empty, client_fd, task, open>>

WorkerUnlock(w) ==
    /\ pc[w] = "unlock"
    /\ mutex' = NoThread
    /\ pc' = [pc EXCEPT ![w] = "handle"]
    /\ UNCHANGED <<queueVars, condVars, client_fd, task, open>>

\* handle_client ends its loop and closes the descriptor it was given.
HandleClient(w) ==
    /\ pc[w] = "handle"
    /\ open' = open \ {task[w]}
    /\ task' = [task EXCEPT ![w] = NoFd]
    /\ pc' = [pc EXCEPT ![w] = "lock"]
    /\ UNCHANGED <<queueVars, mutex, condVars, client_fd>>

\* send_all sends with flags 0 and nothing ignores SIGPIPE: a send to a peer
\* that is gone ends the whole process.
Sigpipe(w) == pc[w] = "handle" /\ Exit

-----------------------------------------------------------------------------
(* The specification                                                       *)

MainStep ==
    \/ PoolReady \/ Listen \/ ListenFails
    \/ MainLock \/ MainWait \/ Push \/ MainSignal \/ MainUnlock

WorkerStep(w) ==
    \/ WorkerLock(w) \/ WorkerWait(w) \/ Pop(w) \/ WorkerSignal(w)
    \/ WorkerUnlock(w) \/ HandleClient(w)

Next ==
    \/ MainStep
    \/ \E fd \in Fds : Accept(fd)
    \/ \E w \in Workers : CreateWorker(w) \/ WorkerStep(w) \/ Sigpipe(w)
    \/ \E t \in Threads : SpuriousWakeup(t)

Spec == Init /\ [][Next]_vars

(***************************************************************************)
(* The scheduler runs every thread that can run, sessions end, and a free  *)
(* mutex goes to some thread that asks for it: not to each of them, a      *)
(* pthread mutex is not a fair lock.  Connections need not arrive, and     *)
(* spurious wake-ups need not happen but stop happening at some time: for  *)
(* ever, they could keep the mutex from the acceptor.                      *)
(***************************************************************************)
Fairness ==
    /\ WF_vars(MainLock \/ \E w \in Workers : WorkerLock(w))
    /\ WF_vars(PoolReady \/ Listen \/ MainWait \/ Push \/ MainSignal \/ MainUnlock)
    /\ \A w \in Workers :
         /\ WF_vars(CreateWorker(w))
         /\ WF_vars(WorkerWait(w) \/ Pop(w) \/ WorkerSignal(w) \/ WorkerUnlock(w))
         /\ WF_vars(HandleClient(w))
    /\ <>[][~ \E t \in Threads : SpuriousWakeup(t)]_vars

FairSpec == Spec /\ Fairness

-----------------------------------------------------------------------------
(* Properties                                                              *)

\* The types of the variables; front and rear are indices of the array and
\* count never passes its size (Queue, lines 21-29).
TypeOK ==
    /\ task_queue \in [Slots -> Fds \cup {NoFd}]
    /\ front \in Slots /\ rear \in Slots
    /\ count \in 0..MAX_TASK
    /\ mutex \in Threads \cup {NoThread}
    /\ not_empty \subseteq Threads /\ not_full \subseteq Threads
    /\ pc \in [Threads -> WorkerPc \cup MainPc]
    /\ \A w \in Workers : pc[w] \in WorkerPc
    /\ pc[Main] \in MainPc
    /\ client_fd \in Fds \cup {NoFd}
    /\ task \in [Workers -> Fds \cup {NoFd}]
    /\ open \subseteq Fds

\* The descriptors queued: At(0) is the oldest, At(count - 1) the newest.
At(i) == task_queue[(front + i) % MAX_TASK]
QueueIdx == 0..(count - 1)
Queued  == {At(i) : i \in QueueIdx}
Serving == {task[w] : w \in Workers} \ {NoFd}
Offered == {client_fd} \ {NoFd}

\* Every open descriptor has exactly one holder: the acceptor, one slot
\* between front and rear, or one worker.  So no connection is lost or served
\* twice, and none is closed while another thread is to use its number, which
\* accept may have given out again (lines 116-121, 144-155).
FdOwnership ==
    /\ \A i, j \in QueueIdx : At(i) = At(j) => i = j
    /\ \A v, w \in Workers : task[v] = task[w] /\ task[v] # NoFd => v = w
    /\ Queued \cap Serving = {}
    /\ Offered \cap (Queued \cup Serving) = {}
    /\ open = Offered \cup Queued \cup Serving

\* Workers that are on their way to the ring.
Claimers == {w \in Workers : pc[w] \in {"lock", "test"}}

\* No wake-up is lost.  While a worker sleeps on not_empty, each queued
\* connection has a worker of its own on the way to it, or the signal for it
\* is about to be sent; while the acceptor sleeps on not_full and there is a
\* free slot, the worker that freed it is about to signal (lines 113-119 and
\* 150-156: one pthread_cond_signal for each element, tests in while loops).
NoLostWakeup ==
    /\ not_empty # {} =>
         count <= Cardinality(Claimers) + (IF pc[Main] = "signal" THEN 1 ELSE 0)
    /\ not_full # {} /\ ~Full => \E w \in Workers : pc[w] = "signal"

(***************************************************************************)
(* The parts that make FdOwnership and NoLostWakeup inductive: who holds   *)
(* the mutex, who sleeps where, which locals are set, and where rear is.   *)
(***************************************************************************)
LockInv ==
    \A t \in Threads : pc[t] \in {"test", "signal", "unlock"} <=> mutex = t

WaitInv ==
    /\ not_empty = {w \in Workers : pc[w] = "wait"}
    /\ not_full = {t \in {Main} : pc[t] = "wait"}

LocalInv ==
    /\ client_fd # NoFd <=> pc[Main] \in {"lock", "test", "wait"}
    /\ \A w \in Workers :
         task[w] # NoFd <=> pc[w] \in {"signal", "unlock", "handle"}

RingInv == rear = (front + count) % MAX_TASK

IInv == TypeOK /\ LockInv /\ WaitInv /\ LocalInv /\ RingInv /\ FdOwnership

\* A worker was created.
Staffed == \E w \in Workers : pc[w] \notin {"unborn", "failed", "exited"}

\* Once the pool has a worker, every accepted connection is served and closed,
\* however the mutex is handed out and whoever the signals wake.
EventuallyServed ==
    \A fd \in Fds : (fd \in open /\ Staffed) ~> (fd \notin open)

\* The ring buffer, its lock and its conditions implement the hand-off: a
\* first-in first-out queue from which each connection is taken once.
HO == INSTANCE HandOff WITH
        Items    <- Fds,
        Capacity <- MAX_TASK,
        offered  <- Offered,
        queue    <- [i \in 1..count |-> At(i - 1)],
        serving  <- Serving

HandOffSpec == HO!Spec
=============================================================================
