------------------------------ MODULE TaskPool -------------------------------
(***************************************************************************)
(* The task pool, thread_test/thread_pool.c: main pushes MAX_TASK tasks    *)
(* into a ring of MAX_TASK slots, and the workers that could be created    *)
(* pop and run them.  push and pop hold the mutex from their first line to *)
(* their last, so each is one step; a pop that finds the ring empty sleeps *)
(* on cond inside it, and starts over when it wakes.                       *)
(***************************************************************************)
EXTENDS Integers, Sequences

CONSTANTS PoolWorkers, MAX_TASK

ASSUME TaskAssumption == MAX_TASK \in Nat \ {0}

Tasks  == 1..MAX_TASK
NoTask == 0
Absent == "absent"    \* pthread_create failed, and nobody looked

VARIABLES
    taskQueue,    \* the fields of TaskQueue
    nextTask,     \* the task that main is at
    prepared,     \* main has filled it in and is about to push it
    refused,      \* tasks for which push returned -1
    taskPc,       \* worker -> pop, sleeping, awake, run or absent
    taskHeld,     \* worker -> what pop returned
    taskRuns      \* history: task -> how often it was run

taskVars == <<taskQueue, nextTask, prepared, refused, taskPc, taskHeld, taskRuns>>

TaskInit ==
    /\ taskQueue = [queue |-> [k \in 0..(MAX_TASK - 1) |-> NoTask],
                    front |-> 0, rear |-> 0, size |-> 0]
    /\ nextTask = 1 /\ prepared = FALSE /\ refused = {}
    /\ taskPc \in [PoolWorkers -> {"pop", Absent}]
    /\ taskHeld = [w \in PoolWorkers |-> NoTask]
    /\ taskRuns = [t \in Tasks |-> 0]

Sleeping == {w \in PoolWorkers : taskPc[w] = "sleeping"}

\* Mutated form of TaskSignal: nobody is woken.
TaskSignal_Missing == taskPc' = taskPc

\* pthread_cond_signal wakes one of the threads that sleep, if there is one.
TaskSignal ==
    \/ Sleeping = {} /\ UNCHANGED taskPc
    \/ \E w \in Sleeping : taskPc' = [taskPc EXCEPT ![w] = "awake"]

-----------------------------------------------------------------------------
(* main                                                                    *)

TaskPrepare ==
    /\ nextTask \in Tasks /\ ~prepared
    /\ prepared' = TRUE
    /\ UNCHANGED <<taskQueue, nextTask, refused, taskPc, taskHeld, taskRuns>>

\* Mutated form of QueueFull: one slot always stays free.
QueueFull_KeepsOne == taskQueue.size = MAX_TASK - 1

QueueFull == taskQueue.size = MAX_TASK

\* push; main only prints a message about a task that was refused.
TaskPush ==
    /\ prepared
    /\ IF QueueFull
       THEN refused' = refused \cup {nextTask} /\ UNCHANGED <<taskQueue, taskPc>>
       ELSE /\ taskQueue' = [taskQueue EXCEPT !.queue[taskQueue.rear] = nextTask,
                                              !.rear = (@ + 1) % MAX_TASK,
                                              !.size = @ + 1]
            /\ TaskSignal
            /\ UNCHANGED refused
    /\ nextTask' = nextTask + 1 /\ prepared' = FALSE
    /\ UNCHANGED <<taskHeld, taskRuns>>

-----------------------------------------------------------------------------
(* The workers                                                             *)

\* Mutated form of MayPop: `if' for `while', a worker that was woken does not
\* look again.
MayPop_IfForWhile(w) == taskQueue.size > 0 \/ taskPc[w] = "awake"

MayPop(w) == taskQueue.size > 0

TaskPop(w) ==
    /\ taskPc[w] \in {"pop", "awake"}
    /\ IF MayPop(w)
       THEN /\ taskHeld' = [taskHeld EXCEPT ![w] = taskQueue.queue[taskQueue.front]]
            /\ taskQueue' = [taskQueue EXCEPT !.front = (@ + 1) % MAX_TASK, !.size = @ - 1]
            /\ taskPc' = [taskPc EXCEPT ![w] = "run"]
       ELSE /\ taskPc' = [taskPc EXCEPT ![w] = "sleeping"]
            /\ UNCHANGED <<taskQueue, taskHeld>>
    /\ UNCHANGED <<nextTask, prepared, refused, taskRuns>>

\* pthread_cond_wait may return without a signal.
TaskSpurious(w) ==
    /\ taskPc[w] = "sleeping"
    /\ taskPc' = [taskPc EXCEPT ![w] = "awake"]
    /\ UNCHANGED <<taskQueue, nextTask, prepared, refused, taskHeld, taskRuns>>

TaskRun(w) ==
    /\ taskPc[w] = "run"
    /\ taskRuns' = [taskRuns EXCEPT ![taskHeld[w]] = @ + 1]
    /\ taskHeld' = [taskHeld EXCEPT ![w] = NoTask]
    /\ taskPc' = [taskPc EXCEPT ![w] = "pop"]
    /\ UNCHANGED <<taskQueue, nextTask, prepared, refused>>

TaskMain == TaskPrepare \/ TaskPush
TaskWorker(w) == TaskPop(w) \/ TaskRun(w)

TaskNext == TaskMain \/ \E w \in PoolWorkers : TaskWorker(w) \/ TaskSpurious(w)

-----------------------------------------------------------------------------
(* Properties                                                              *)

TaskQueued == [k \in 1..taskQueue.size |->
                 taskQueue.queue[(taskQueue.front + k - 1) % MAX_TASK]]

TaskTypeOK ==
    /\ taskQueue \in [queue : [0..(MAX_TASK - 1) -> Tasks \cup {NoTask}],
                      front : 0..(MAX_TASK - 1), rear : 0..(MAX_TASK - 1),
                      size  : 0..MAX_TASK]
    /\ nextTask \in 1..(MAX_TASK + 1) /\ prepared \in BOOLEAN /\ refused \subseteq Tasks
    /\ taskPc \in [PoolWorkers -> {"pop", "sleeping", "awake", "run", Absent}]
    /\ taskHeld \in [PoolWorkers -> Tasks \cup {NoTask}]
    /\ taskRuns \in [Tasks -> Nat]

\* However few workers there are, the ring is as large as the number of tasks
\* and push refuses none (lines 36-39 and 96-103).
NoTaskRefused == refused = {}

\* The ring with its mutex and its one condition is a first-in-first-out
\* hand-over in which a task is taken by one worker only (lines 34-69).
TaskHandOff ==
    INSTANCE HandOff WITH
        Items <- Tasks, Capacity <- MAX_TASK,
        offered <- IF prepared THEN {nextTask} ELSE {},
        queue   <- TaskQueued,
        serving <- {taskHeld[w] : w \in PoolWorkers} \ {NoTask}
TaskHandOffSpec == TaskHandOff!Spec

\* With a single worker, every task is run in the end, once: no worker sleeps for
\* ever beside a task, though a signal that finds nobody asleep is lost (lines 43
\* and 51-53).
TaskEventuallyRun ==
    ((\E w \in PoolWorkers : taskPc[w] # Absent) /\ nextTask > 1)
        ~> (\A t \in Tasks : taskRuns[t] = 1)
==============================================================================
