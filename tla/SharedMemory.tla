---------------------------- MODULE SharedMemory -----------------------------
(***************************************************************************)
(* process_test/shared_memory.c, started several times, at the same time   *)
(* or after runs that were killed.  A run creates the object under one     *)
(* fixed name, removing the one that has it, forks, and the parent copies  *)
(* a message to the object while the child looks for its first byte and    *)
(* then prints it.                                                         *)
(*                                                                         *)
(* An object goes by the run that created it.  A byte of it is the run     *)
(* whose parent wrote it, so that the runs' equal messages can be told     *)
(* apart.  strcpy's bytes may become visible in any order.  The child's    *)
(* loop over a plain char is a data race: a build may read it only once,   *)
(* `readsOnce'.                                                              *)
(***************************************************************************)
EXTENDS Integers, Sequences, FiniteSets

CONSTANTS
    Runs, NoRun,
    EarlierRun,    \* a run before these that was killed
    MessageLen     \* bound: the characters of the message

ASSUME MemoryAssumption ==
    /\ NoRun \notin Runs \cup {EarlierRun} /\ EarlierRun \notin Runs
    /\ MessageLen \in Nat \ {0}

VARIABLES
    shmName,     \* the object that SHM_NAME stands for, or NoRun
    memory,      \* object -> its bytes, NoRun where there is none
    shmPc,       \* run -> the parent's place
    mapped,      \* run -> the object it has mapped
    childAt,     \* run -> the child's place
    printedBytes,   \* run -> what its child printed
    readsOnce

shmVars == <<shmName, memory, shmPc, mapped, childAt, printedBytes, readsOnce>>

ShmInit ==
    /\ shmName \in {NoRun, EarlierRun}
    /\ memory = [a \in Runs \cup {EarlierRun} |-> [k \in 1..(MessageLen + 1) |-> NoRun]]
    /\ shmPc = [a \in Runs |-> "open"] /\ mapped = [a \in Runs |-> NoRun]
    /\ childAt = [a \in Runs |-> "none"] /\ printedBytes = [a \in Runs |-> <<>>]
    /\ readsOnce \in BOOLEAN

ShmGoes(a, place) == shmPc' = [shmPc EXCEPT ![a] = place]

-----------------------------------------------------------------------------
(* The parent                                                              *)

Creates(a) ==
    /\ shmName' = a
    /\ mapped' = [mapped EXCEPT ![a] = a]
    /\ ShmGoes(a, "map")

\* shm_open with O_CREAT and O_EXCL.
ShmOpen(a) ==
    /\ shmPc[a] = "open"
    /\ IF shmName = NoRun
       THEN Creates(a)
       ELSE ShmGoes(a, "remove") /\ UNCHANGED <<shmName, mapped>>
    /\ UNCHANGED <<memory, childAt, printedBytes, readsOnce>>

\* EEXIST: shm_unlink takes the name from whichever object has it by now.
ShmRemove(a) ==
    /\ shmPc[a] = "remove"
    /\ shmName' = NoRun
    /\ ShmGoes(a, "reopen")
    /\ UNCHANGED <<memory, mapped, childAt, printedBytes, readsOnce>>

\* Mutated form of ShmReopen: without O_EXCL, an object of another run is taken.
ShmReopen_NoExcl(a) ==
    /\ shmPc[a] = "reopen"
    /\ IF shmName = NoRun
       THEN Creates(a)
       ELSE mapped' = [mapped EXCEPT ![a] = shmName] /\ ShmGoes(a, "map") /\ UNCHANGED shmName
    /\ UNCHANGED <<memory, childAt, printedBytes, readsOnce>>

\* The second shm_open.
ShmReopen(a) ==
    /\ shmPc[a] = "reopen"
    /\ IF shmName = NoRun
       THEN Creates(a)
       ELSE ShmGoes(a, "failed") /\ UNCHANGED <<shmName, mapped>>
    /\ UNCHANGED <<memory, childAt, printedBytes, readsOnce>>

\* Mutated form of CleanUp: the name stays.
CleanUp_Not == UNCHANGED shmName

\* shm_unlink at the end of a run.
CleanUp == shmName' = NoRun

\* ftruncate, mmap or fork fails.
ShmFails(a) ==
    /\ shmPc[a] = "map"
    /\ CleanUp /\ ShmGoes(a, "failed")
    /\ UNCHANGED <<memory, mapped, childAt, printedBytes, readsOnce>>

\* ftruncate, mmap, close and fork.
ShmFork(a) ==
    /\ shmPc[a] = "map"
    /\ ShmGoes(a, "write")
    /\ childAt' = [childAt EXCEPT ![a] = "poll"]
    /\ UNCHANGED <<shmName, memory, mapped, printedBytes, readsOnce>>

\* The bytes that strcpy has still to write; the terminator is there already.
Missing(a) == {k \in 1..MessageLen : memory[mapped[a]][k] # a}

\* strcpy: some byte of the message becomes visible.
ShmWrite(a) ==
    /\ shmPc[a] = "write"
    /\ \E k \in Missing(a) : memory' = [memory EXCEPT ![mapped[a]][k] = a]
    /\ ShmGoes(a, IF Cardinality(Missing(a)) = 1 THEN "wait" ELSE "write")
    /\ UNCHANGED <<shmName, mapped, childAt, printedBytes, readsOnce>>

\* waitpid returned: munmap and shm_unlink.
ShmEnd(a) ==
    /\ shmPc[a] = "wait" /\ childAt[a] = "end"
    /\ CleanUp /\ ShmGoes(a, "end")
    /\ UNCHANGED <<memory, mapped, childAt, printedBytes, readsOnce>>

\* The parent is killed; what it leaves behind stays.
ShmKill(a) ==
    /\ shmPc[a] \notin {"open", "end", "failed", "killed"}
    /\ ShmGoes(a, "killed")
    /\ UNCHANGED <<shmName, memory, mapped, childAt, printedBytes, readsOnce>>

-----------------------------------------------------------------------------
(* The child                                                               *)

\* Mutated form of FirstByte: the loop looks at the terminator.
FirstByte_Terminator(a) == memory[mapped[a]][MessageLen + 1]

FirstByte(a) == memory[mapped[a]][1]

ChildPoll(a) ==
    /\ childAt[a] = "poll"
    /\ childAt' = [childAt EXCEPT ![a] =
                     IF FirstByte(a) # NoRun THEN "print" ELSE IF readsOnce THEN "spin" ELSE "poll"]
    /\ UNCHANGED <<shmName, memory, shmPc, mapped, printedBytes, readsOnce>>

\* printf takes one byte after the other, up to the first that is zero.
ChildPrint(a) ==
    /\ childAt[a] = "print"
    /\ LET k == Len(printedBytes[a]) + 1 IN
       IF memory[mapped[a]][k] # NoRun
       THEN /\ printedBytes' = [printedBytes EXCEPT ![a] = Append(@, memory[mapped[a]][k])]
            /\ UNCHANGED childAt
       ELSE /\ childAt' = [childAt EXCEPT ![a] = "end"]
            /\ UNCHANGED printedBytes
    /\ UNCHANGED <<shmName, memory, shmPc, mapped, readsOnce>>

ShmParent(a) ==
    \/ ShmOpen(a) \/ ShmRemove(a) \/ ShmReopen(a) \/ ShmFails(a)
    \/ ShmFork(a) \/ ShmWrite(a) \/ ShmEnd(a)
ShmChild(a) == ChildPoll(a) \/ ChildPrint(a)

ShmNext == \E a \in Runs : ShmParent(a) \/ ShmKill(a) \/ ShmChild(a)

-----------------------------------------------------------------------------
(* Properties                                                              *)

\* A child prints its own parent's message, or the front of it if it looks while
\* strcpy is still at work, but never nothing and never another run's: whoever
\* takes the name away does not touch the object (lines 59-76, 167-172 and 196).
OwnFrontOfMessage ==
    \A a \in Runs :
        /\ \A k \in 1..Len(printedBytes[a]) : printedBytes[a][k] = a
        /\ childAt[a] = "end" => printedBytes[a] # <<>>

\* The name is left only by a run that still goes on or was killed, whatever
\* failed on the way and though a run's shm_unlink may hit another run's object
\* (lines 71-76, 88-93, 116-121, 147-152 and 227).
NoNameLeft ==
    shmName \in Runs =>
        \E a \in Runs : shmPc[a] \in {"map", "write", "wait", "killed"}

\* A child whose parent has written the message ends, and unless it is killed
\* the parent after it.
ShmRunEnds ==
    \A a \in Runs : (shmPc[a] = "wait" /\ ~readsOnce)
                      ~> (childAt[a] = "end" /\ shmPc[a] \in {"end", "killed"})
==============================================================================
