----------------------------- MODULE ConfigLock ------------------------------
(***************************************************************************)
(* thread_test/wr_rd_lock.c: one writer that raises config by ten, with a  *)
(* load and a store, and readers that print it, under a read-write lock.   *)
(***************************************************************************)
EXTENDS Integers

CONSTANTS Readers,
          Updates    \* the rounds of the writer's loop

VARIABLES
    config,
    readPc,      \* reader -> lock, read, locked or end
    readerSaw,   \* reader -> what it printed
    writePc,     \* lock, load, store, unlock or end
    loaded,      \* what the writer loaded
    updates      \* its loop counter

configVars == <<config, readPc, readerSaw, writePc, loaded, updates>>

ConfigInit ==
    /\ config = 100
    /\ readPc = [r \in Readers |-> "lock"] /\ readerSaw = [r \in Readers |-> 0]
    /\ writePc = "lock" /\ loaded = 0 /\ updates = 0

Reading == \E r \in Readers : readPc[r] \in {"read", "locked"}
Writing == writePc \in {"load", "store", "unlock"}

\* Mutated form of MayRead: readers do not wait.
MayRead_Always == TRUE

MayRead == ~Writing

ReadLock(r) ==
    /\ readPc[r] = "lock" /\ MayRead
    /\ readPc' = [readPc EXCEPT ![r] = "read"]
    /\ UNCHANGED <<config, readerSaw, writePc, loaded, updates>>

ReadConfig(r) ==
    /\ readPc[r] = "read"
    /\ readerSaw' = [readerSaw EXCEPT ![r] = config]
    /\ readPc' = [readPc EXCEPT ![r] = "locked"]
    /\ UNCHANGED <<config, writePc, loaded, updates>>

ReadUnlock(r) ==
    /\ readPc[r] = "locked"
    /\ readPc' = [readPc EXCEPT ![r] = "end"]
    /\ UNCHANGED <<config, readerSaw, writePc, loaded, updates>>

WriteLock ==
    /\ writePc = "lock" /\ ~Reading
    /\ writePc' = "load"
    /\ UNCHANGED <<config, readPc, readerSaw, loaded, updates>>

WriteLoad ==
    /\ writePc = "load"
    /\ loaded' = config
    /\ writePc' = "store"
    /\ UNCHANGED <<config, readPc, readerSaw, updates>>

WriteStore ==
    /\ writePc = "store"
    /\ config' = loaded + 10
    /\ writePc' = "unlock"
    /\ UNCHANGED <<readPc, readerSaw, loaded, updates>>

\* Mutated form of WriteUnlock: the lock is not given back after the last round.
WriteUnlock_KeepsLast ==
    /\ writePc = "unlock" /\ updates + 1 < Updates
    /\ updates' = updates + 1
    /\ writePc' = "lock"
    /\ UNCHANGED <<config, readPc, readerSaw, loaded>>

WriteUnlock ==
    /\ writePc = "unlock"
    /\ updates' = updates + 1
    /\ writePc' = IF updates' < Updates THEN "lock" ELSE "end"
    /\ UNCHANGED <<config, readPc, readerSaw, loaded>>

ConfigReader(r) == ReadLock(r) \/ ReadConfig(r) \/ ReadUnlock(r)
ConfigWriter == WriteLock \/ WriteLoad \/ WriteStore \/ WriteUnlock

ConfigNext == ConfigWriter \/ \E r \in Readers : ConfigReader(r)

-----------------------------------------------------------------------------
(* Properties                                                              *)

\* What a reader printed is the configuration until it unlocks, and is the value
\* of a whole number of updates (lines 13-15 and 21-24).
ReadIsCurrent ==
    /\ \A r \in Readers : readPc[r] = "locked" => readerSaw[r] = config
    /\ config = 100 + 10 * (updates + (IF writePc = "unlock" THEN 1 ELSE 0))

\* Once the writer has begun, every thread ends: neither side keeps the other
\* out for ever.
ConfigThreadsEnd ==
    (updates > 0) ~> (writePc = "end" /\ \A r \in Readers : readPc[r] = "end")
==============================================================================
