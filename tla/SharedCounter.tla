---------------------------- MODULE SharedCounter ----------------------------
(***************************************************************************)
(* thread_test/pthread_no_mutex.c and pthread_have_mutex.c: two threads    *)
(* that increment count, without a mutex and with one that each holds for  *)
(* its whole loop.  An increment is a load and a store; a build may also   *)
(* keep count in a register for the whole loop.  Which program runs, and   *)
(* how it was built, is chosen at the start.                               *)
(***************************************************************************)
EXTENDS Integers

CONSTANTS Counters,      \* the threads th1 and th2
          Increments     \* the rounds of a loop

ASSUME CountAssumption ==
    /\ \E s, t \in Counters : s # t /\ Counters = {s, t}
    /\ Increments \in Nat \ {0, 1}

VARIABLES
    count,
    haveMutex,     \* it is pthread_have_mutex.c
    inRegister,    \* the loop loads once and stores once
    countPc,       \* thread -> start, load, store, unlock or end
    register,      \* thread -> what it loaded
    roundsDone,    \* thread -> i
    mutexHolder    \* the threads in the mutex: at most one

countVars == <<count, haveMutex, inRegister, countPc, register, roundsDone, mutexHolder>>

CountInit ==
    /\ count = 0
    /\ haveMutex \in BOOLEAN /\ inRegister \in BOOLEAN
    /\ countPc = [t \in Counters |-> "start"]
    /\ register = [t \in Counters |-> 0] /\ roundsDone = [t \in Counters |-> 0]
    /\ mutexHolder = {}

\* Mutated form of MayEnter: the mutex does not keep anybody out.
MayEnter_Always == TRUE

MayEnter == haveMutex => mutexHolder = {}

CountStart(t) ==
    /\ countPc[t] = "start" /\ MayEnter
    /\ mutexHolder' = IF haveMutex THEN mutexHolder \cup {t} ELSE {}
    /\ countPc' = [countPc EXCEPT ![t] = "load"]
    /\ UNCHANGED <<count, haveMutex, inRegister, register, roundsDone>>

CountLoad(t) ==
    /\ countPc[t] = "load"
    /\ register' = [register EXCEPT ![t] = count]
    /\ countPc' = [countPc EXCEPT ![t] = "store"]
    /\ UNCHANGED <<count, haveMutex, inRegister, roundsDone, mutexHolder>>

\* The rounds that one store stands for.
Step == IF inRegister THEN Increments ELSE 1

CountStore(t) ==
    /\ countPc[t] = "store"
    /\ count' = register[t] + Step
    /\ roundsDone' = [roundsDone EXCEPT ![t] = @ + Step]
    /\ countPc' = [countPc EXCEPT ![t] =
                     IF roundsDone'[t] < Increments THEN "load" ELSE "unlock"]
    /\ UNCHANGED <<haveMutex, inRegister, register, mutexHolder>>

CountUnlock(t) ==
    /\ countPc[t] = "unlock"
    /\ mutexHolder' = mutexHolder \ {t}
    /\ countPc' = [countPc EXCEPT ![t] = "end"]
    /\ UNCHANGED <<count, haveMutex, inRegister, register, roundsDone>>

CountThread(t) == CountStart(t) \/ CountLoad(t) \/ CountStore(t) \/ CountUnlock(t)

CountNext == \E t \in Counters : CountThread(t)

-----------------------------------------------------------------------------
(* Properties                                                              *)

AllCounted == \A t \in Counters : countPc[t] = "end"

\* The value that main prints after the joins: with the mutex every increment
\* counts; without it some may be lost, never gained, and as few as two rounds
\* may be left, or one thread's when count stays in a register (lines 10-18 of
\* pthread_no_mutex.c and 10-19 of pthread_have_mutex.c).
FinalCount ==
    AllCounted =>
        /\ haveMutex => count = 2 * Increments
        /\ count \in (IF inRegister THEN Increments ELSE 2)..(2 * Increments)
==============================================================================
