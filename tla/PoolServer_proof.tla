-------------------------- MODULE PoolServer_proof ---------------------------
(***************************************************************************)
(* Proofs about PoolServer, for any number of workers and descriptors and  *)
(* any ring size.                                                          *)
(***************************************************************************)
EXTENDS PoolServer, TLAPS, FiniteSetTheorems, SequenceTheorems

-----------------------------------------------------------------------------
(* The ring's index arithmetic.                                            *)

\* The place of the i-th oldest element, written without the modulo.
LEMMA ModCases ==
    ASSUME NEW f \in Slots, NEW i \in 0..MAX_TASK
    PROVE  /\ (f + i) % MAX_TASK = IF f + i < MAX_TASK THEN f + i
                                                       ELSE f + i - MAX_TASK
           /\ (f + i) % MAX_TASK \in Slots
  BY SMT, PoolAssumption DEF Slots

\* Distinct positions of the ring are distinct slots.
LEMMA ModInjective ==
    ASSUME NEW f \in Slots, NEW i \in 0..(MAX_TASK - 1), NEW j \in 0..(MAX_TASK - 1),
           (f + i) % MAX_TASK = (f + j) % MAX_TASK
    PROVE  i = j
  <1>1. i \in 0..MAX_TASK /\ j \in 0..MAX_TASK
    BY PoolAssumption
  <1>2. /\ (f + i) % MAX_TASK = IF f + i < MAX_TASK THEN f + i
                                ELSE f + i - MAX_TASK
        /\ (f + j) % MAX_TASK = IF f + j < MAX_TASK THEN f + j
                                ELSE f + j - MAX_TASK
    BY <1>1, ModCases
  <1> QED
    BY <1>2, PoolAssumption DEF Slots

\* Taking the oldest element shifts the positions of the others by one.
LEMMA ModShift ==
    ASSUME NEW f \in Slots, NEW i \in 0..(MAX_TASK - 1)
    PROVE  /\ Succ(f) \in Slots
           /\ (Succ(f) + i) % MAX_TASK = (f + (i + 1)) % MAX_TASK
  <1>1. /\ Succ(f) = IF f + 1 < MAX_TASK THEN f + 1 ELSE f + 1 - MAX_TASK
        /\ Succ(f) \in Slots
    BY ModCases, PoolAssumption DEF Succ, Slots
  <1>2. i \in 0..MAX_TASK /\ i + 1 \in 0..MAX_TASK
    BY PoolAssumption
  <1>3. /\ (Succ(f) + i) % MAX_TASK = IF Succ(f) + i < MAX_TASK THEN Succ(f) + i
                                      ELSE Succ(f) + i - MAX_TASK
        /\ (f + (i + 1)) % MAX_TASK = IF f + (i + 1) < MAX_TASK THEN f + (i + 1)
                                      ELSE f + (i + 1) - MAX_TASK
    BY <1>1, <1>2, ModCases
  <1> QED
    BY <1>1, <1>2, <1>3, PoolAssumption DEF Slots

\* rear after a push is one position further.
LEMMA ModNext ==
    ASSUME NEW f \in Slots, NEW i \in 0..(MAX_TASK - 1)
    PROVE  Succ((f + i) % MAX_TASK) = (f + (i + 1)) % MAX_TASK
  <1>1. i \in 0..MAX_TASK /\ i + 1 \in 0..MAX_TASK /\ 1 \in 0..MAX_TASK
    BY PoolAssumption
  <1> DEFINE m == (f + i) % MAX_TASK
  <1>2. /\ m = IF f + i < MAX_TASK THEN f + i ELSE f + i - MAX_TASK
        /\ m \in Slots
    BY <1>1, ModCases
  <1>3. (f + (i + 1)) % MAX_TASK = IF f + (i + 1) < MAX_TASK THEN f + (i + 1)
                                   ELSE f + (i + 1) - MAX_TASK
    BY <1>1, ModCases
  <1> HIDE DEF m
  <1>4. Succ(m) = IF m + 1 < MAX_TASK THEN m + 1 ELSE m + 1 - MAX_TASK
    BY <1>1, <1>2, ModCases DEF Succ
  <1>5. Succ(m) = (f + (i + 1)) % MAX_TASK
    BY <1>2, <1>3, <1>4, PoolAssumption DEF Slots
  <1> QED
    BY <1>5 DEF m

-----------------------------------------------------------------------------
(* The invariant.                                                          *)

\* The conjuncts of IInv other than FdOwnership, which only Accept, Push, Pop,
\* HandleClient and Exit can disturb.
Control == TypeOK /\ LockInv /\ WaitInv /\ LocalInv /\ RingInv

\* A step that touches no descriptor leaves the ownership as it was.
LEMMA OwnershipUnchanged ==
    ASSUME FdOwnership, UNCHANGED <<queueVars, client_fd, task, open>>
    PROVE  FdOwnership' /\ (RingInv => RingInv')
  BY DEF FdOwnership, RingInv, Queued, Serving, Offered, At, QueueIdx, queueVars

\* The first state.
LEMMA InitIInv == Init => IInv
  <1> SUFFICES ASSUME Init PROVE IInv
    OBVIOUS
  <1> USE PoolAssumption
  <1>1. TypeOK
    BY DEF Init, TypeOK, Slots, Threads, WorkerPc, MainPc
  <1>2. LockInv /\ WaitInv /\ LocalInv
    BY DEF Init, LockInv, WaitInv, LocalInv, Threads
  <1>3. RingInv
    <2>1. 0 \in Slots /\ 0 \in 0..MAX_TASK
      BY DEF Slots
    <2>2. (0 + 0) % MAX_TASK = 0
      BY <2>1, ModCases
    <2> QED
      BY <2>2 DEF Init, RingInv
  <1>4. FdOwnership
    BY DEF Init, FdOwnership, Queued, Serving, Offered, QueueIdx
  <1> QED
    BY <1>1, <1>2, <1>3, <1>4 DEF IInv

\* The steps that touch no descriptor: they move one thread, and hand over the
\* mutex or change who sleeps.
LEMMA QuietSteps ==
    ASSUME IInv,
           \/ PoolReady \/ Listen \/ MainLock \/ MainWait \/ MainSignal \/ MainUnlock
           \/ \E w \in Workers : \/ CreateWorker(w) \/ WorkerLock(w) \/ WorkerWait(w)
                                 \/ WorkerSignal(w) \/ WorkerUnlock(w)
           \/ \E t \in Threads : SpuriousWakeup(t)
    PROVE  IInv'
  <1> USE PoolAssumption DEF IInv, TypeOK, LockInv, WaitInv, LocalInv, Threads,
                             WorkerPc, MainPc, Goto, Awaken, queueVars, condVars
  <1>1. CASE PoolReady
    <2>1. TypeOK'
      BY <1>1 DEF PoolReady
    <2>2. LockInv' /\ WaitInv' /\ LocalInv'
      BY <1>1 DEF PoolReady
    <2>3. RingInv' /\ FdOwnership'
      BY <1>1, OwnershipUnchanged DEF PoolReady
    <2> QED
      BY <2>1, <2>2, <2>3
  <1>2. CASE Listen
    <2>1. TypeOK'
      BY <1>2 DEF Listen
    <2>2. LockInv' /\ WaitInv' /\ LocalInv'
      BY <1>2 DEF Listen
    <2>3. RingInv' /\ FdOwnership'
      BY <1>2, OwnershipUnchanged DEF Listen
    <2> QED
      BY <2>1, <2>2, <2>3
  <1>3. CASE MainLock
    <2>1. TypeOK'
      BY <1>3 DEF MainLock
    <2>2. LockInv' /\ WaitInv' /\ LocalInv'
      BY <1>3 DEF MainLock
    <2>3. RingInv' /\ FdOwnership'
      BY <1>3, OwnershipUnchanged DEF MainLock
    <2> QED
      BY <2>1, <2>2, <2>3
  <1>4. CASE MainWait
    <2>1. TypeOK'
      BY <1>4 DEF MainWait
    <2>2. LockInv' /\ WaitInv' /\ LocalInv'
      BY <1>4 DEF MainWait
    <2>3. RingInv' /\ FdOwnership'
      BY <1>4, OwnershipUnchanged DEF MainWait
    <2> QED
      BY <2>1, <2>2, <2>3
  <1>5. CASE MainSignal
    <2>1. TypeOK'
      BY <1>5 DEF MainSignal
    <2>2. LockInv' /\ WaitInv' /\ LocalInv'
      BY <1>5 DEF MainSignal
    <2>3. RingInv' /\ FdOwnership'
      BY <1>5, OwnershipUnchanged DEF MainSignal
    <2> QED
      BY <2>1, <2>2, <2>3
  <1>6. CASE MainUnlock
    <2>1. TypeOK'
      BY <1>6 DEF MainUnlock
    <2>2. LockInv' /\ WaitInv' /\ LocalInv'
      BY <1>6 DEF MainUnlock
    <2>3. RingInv' /\ FdOwnership'
      BY <1>6, OwnershipUnchanged DEF MainUnlock
    <2> QED
      BY <2>1, <2>2, <2>3
  <1>7. ASSUME NEW w \in Workers, CreateWorker(w) PROVE IInv'
    <2>1. TypeOK'
      BY <1>7 DEF CreateWorker
    <2>2. LockInv' /\ WaitInv' /\ LocalInv'
      BY <1>7 DEF CreateWorker
    <2>3. RingInv' /\ FdOwnership'
      BY <1>7, OwnershipUnchanged DEF CreateWorker
    <2> QED
      BY <2>1, <2>2, <2>3
  <1>8. ASSUME NEW w \in Workers, WorkerLock(w) PROVE IInv'
    <2>1. TypeOK'
      BY <1>8 DEF WorkerLock
    <2>2. LockInv' /\ WaitInv' /\ LocalInv'
      BY <1>8 DEF WorkerLock
    <2>3. RingInv' /\ FdOwnership'
      BY <1>8, OwnershipUnchanged DEF WorkerLock
    <2> QED
      BY <2>1, <2>2, <2>3
  <1>9. ASSUME NEW w \in Workers, WorkerWait(w) PROVE IInv'
    <2>1. TypeOK'
      BY <1>9 DEF WorkerWait
    <2>2. LockInv' /\ WaitInv' /\ LocalInv'
      BY <1>9 DEF WorkerWait
    <2>3. RingInv' /\ FdOwnership'
      BY <1>9, OwnershipUnchanged DEF WorkerWait
    <2> QED
      BY <2>1, <2>2, <2>3
  <1>10. ASSUME NEW w \in Workers, WorkerSignal(w) PROVE IInv'
    <2>1. TypeOK'
      BY <1>10 DEF WorkerSignal
    <2>2. LockInv' /\ WaitInv' /\ LocalInv'
      BY <1>10 DEF WorkerSignal
    <2>3. RingInv' /\ FdOwnership'
      BY <1>10, OwnershipUnchanged DEF WorkerSignal
    <2> QED
      BY <2>1, <2>2, <2>3
  <1>11. ASSUME NEW w \in Workers, WorkerUnlock(w) PROVE IInv'
    <2>1. TypeOK'
      BY <1>11 DEF WorkerUnlock
    <2>2. LockInv' /\ WaitInv' /\ LocalInv'
      BY <1>11 DEF WorkerUnlock
    <2>3. RingInv' /\ FdOwnership'
      BY <1>11, OwnershipUnchanged DEF WorkerUnlock
    <2> QED
      BY <2>1, <2>2, <2>3
  <1>12. ASSUME NEW t \in Threads, SpuriousWakeup(t) PROVE IInv'
    <2>1. TypeOK'
      BY <1>12 DEF SpuriousWakeup
    <2>2. LockInv' /\ WaitInv' /\ LocalInv'
      BY <1>12 DEF SpuriousWakeup
    <2>3. RingInv' /\ FdOwnership'
      BY <1>12, OwnershipUnchanged DEF SpuriousWakeup
    <2> QED
      BY <2>1, <2>2, <2>3
  <1> QED
    BY <1>1, <1>2, <1>3, <1>4, <1>5, <1>6, <1>7, <1>8, <1>9, <1>10, <1>11, <1>12

\* A step that ends the process leaves nothing behind.
LEMMA ExitStep ==
    ASSUME IInv, Exit
    PROVE  IInv'
  <1> USE PoolAssumption DEF Exit
  <1>1. 0 \in Slots /\ 0 \in 0..MAX_TASK
    BY DEF Slots
  <1>2. TypeOK'
    BY <1>1 DEF TypeOK, Threads, WorkerPc, MainPc
  <1>3. LockInv' /\ WaitInv' /\ LocalInv'
    BY DEF LockInv, WaitInv, LocalInv, Threads
  <1>4. RingInv'
    <2>1. (0 + 0) % MAX_TASK = 0
      BY <1>1, ModCases
    <2> QED
      BY <2>1 DEF RingInv
  <1>5. FdOwnership'
    BY DEF FdOwnership, Queued, Serving, Offered, QueueIdx
  <1> QED
    BY <1>2, <1>3, <1>4, <1>5 DEF IInv

\* A new connection gets a number nobody holds.
LEMMA AcceptStep ==
    ASSUME IInv, NEW fd \in Fds, Accept(fd)
    PROVE  IInv'
  <1> USE PoolAssumption DEF IInv, Accept
  <1>1. TypeOK'
    BY DEF TypeOK, Threads, WorkerPc, MainPc, queueVars, condVars
  <1>2. LockInv' /\ WaitInv' /\ LocalInv'
    BY DEF TypeOK, LockInv, WaitInv, LocalInv, Threads, queueVars, condVars
  <1>3. RingInv'
    BY DEF RingInv, queueVars
  <1>4. Offered = {} /\ Offered' = {fd}
    BY DEF Offered, LocalInv
  <1>5. Queued' = Queued /\ Serving' = Serving
    BY DEF Queued, Serving, QueueIdx, At, queueVars
  <1>6. FdOwnership'
    <2>1. QueueIdx' = QueueIdx /\ \A i : At(i)' = At(i)
      BY DEF QueueIdx, At, queueVars
    <2>2. task' = task /\ open' = open \cup {fd} /\ fd \notin open
      OBVIOUS
    <2>3. open = Queued \cup Serving
      BY <1>4 DEF FdOwnership
    <2> QED
      BY <1>4, <1>5, <2>1, <2>2, <2>3, Zenon DEF FdOwnership
  <1> QED
    BY <1>1, <1>2, <1>3, <1>6

\* A worker gives up the number it served, which nobody else holds.
LEMMA HandleClientStep ==
    ASSUME IInv, NEW w \in Workers, HandleClient(w)
    PROVE  IInv'
  <1> USE PoolAssumption DEF IInv, HandleClient
  <1>1. TypeOK'
    BY DEF TypeOK, Threads, WorkerPc, MainPc, queueVars, condVars
  <1>2. LockInv' /\ WaitInv' /\ LocalInv'
    BY DEF TypeOK, LockInv, WaitInv, LocalInv, Threads, queueVars, condVars
  <1>3. RingInv'
    BY DEF RingInv, queueVars
  <1>4. Offered' = Offered /\ Queued' = Queued
    BY DEF Offered, Queued, QueueIdx, At, queueVars
  <1>5. task[w] # NoFd
    BY DEF LocalInv
  <1>6. Serving' = Serving \ {task[w]}
    BY <1>5 DEF FdOwnership, Serving, TypeOK
  <1>7. FdOwnership'
    <2>1. QueueIdx' = QueueIdx /\ \A i : At(i)' = At(i)
      BY DEF QueueIdx, At, queueVars
    <2>2. \A u, v \in Workers : task'[u] = task'[v] /\ task'[u] # NoFd => u = v
      BY DEF FdOwnership, TypeOK
    <2>3. task[w] \in Serving
      BY <1>5 DEF Serving
    <2>4. open' = Offered' \cup Queued' \cup Serving'
      <3>1. task[w] \notin Offered \cup Queued
        BY <2>3 DEF FdOwnership
      <3>2. open = Offered \cup Queued \cup Serving /\ open' = open \ {task[w]}
        BY DEF FdOwnership
      <3> HIDE DEF IInv, HandleClient
      <3> QED
        BY <1>4, <1>6, <3>1, <3>2
    <2> QED
      BY <1>4, <1>6, <2>1, <2>2, <2>4, Zenon DEF FdOwnership
  <1> QED
    BY <1>1, <1>2, <1>3, <1>7

\* Pushing fills the slot after the newest element and moves no other.
LEMMA PushStep ==
    ASSUME IInv, Push
    PROVE  IInv'
  <1> USE PoolAssumption DEF IInv, Push
  <1>1. count \in 0..(MAX_TASK - 1) /\ count' = count + 1
    BY DEF TypeOK, Full
  <1>2. front \in Slots /\ front' = front /\ rear \in Slots
    BY DEF TypeOK
  <1>3. rear = (front + count) % MAX_TASK /\ rear' = (front + (count + 1)) % MAX_TASK
    BY <1>1, <1>2, ModNext DEF RingInv
  <1>4. rear' \in Slots
    <2>1. count + 1 \in 0..MAX_TASK
      BY <1>1
    <2>2. (front + (count + 1)) % MAX_TASK \in Slots
      BY <2>1, <1>2, ModCases
    <2> QED
      BY <2>2, <1>3
  <1>5. client_fd \in Fds /\ client_fd' = NoFd
    BY DEF TypeOK, LocalInv
  <1>6. TypeOK'
    BY <1>1, <1>2, <1>4 DEF TypeOK, Threads, WorkerPc, MainPc, condVars
  <1>7. LockInv' /\ WaitInv' /\ LocalInv'
    BY DEF TypeOK, LockInv, WaitInv, LocalInv, Threads, condVars
  <1>8. RingInv'
    BY <1>1, <1>2, <1>3 DEF RingInv
  <1>9. QueueIdx' = QueueIdx \cup {count} /\ QueueIdx \subseteq 0..(MAX_TASK - 1)
    BY <1>1 DEF QueueIdx
  <1>10. task_queue' = [task_queue EXCEPT ![rear] = client_fd]
         /\ task_queue \in [Slots -> Fds \cup {NoFd}]
    BY DEF TypeOK
  <1>11. ASSUME NEW c, c = count PROVE At(c)' = client_fd
    BY <1>2, <1>3, <1>10, <1>11 DEF At
  <1>12. ASSUME NEW i \in QueueIdx PROVE At(i)' = At(i)
    <2>1. i # count /\ i \in 0..(MAX_TASK - 1)
      BY <1>1 DEF QueueIdx
    <2>2. (front + i) % MAX_TASK # rear
      BY <2>1, <1>1, <1>2, <1>3, ModInjective
    <2> QED
      BY <2>2, <1>2, <1>10 DEF At
  <1>13. Offered = {client_fd} /\ Offered' = {}
    BY <1>5 DEF Offered
  <1>14. Queued' = Queued \cup {client_fd}
    <2>1. ASSUME NEW i \in QueueIdx' PROVE At(i)' \in Queued \cup {client_fd}
      BY <2>1, <1>9, <1>11, <1>12 DEF Queued
    <2>2. ASSUME NEW i \in QueueIdx PROVE At(i) \in Queued'
      BY <2>2, <1>9, <1>12 DEF Queued
    <2>3. client_fd \in Queued'
      <3>1. PICK c : c = count
        OBVIOUS
      <3>2. c \in QueueIdx' /\ At(c)' = client_fd
        BY <3>1, <1>9, <1>11
      <3> QED
        BY <3>2 DEF Queued
    <2> QED
      BY <2>1, <2>2, <2>3 DEF Queued
  <1>15. client_fd \notin Queued \cup Serving
    BY <1>13 DEF FdOwnership
  <1>16. FdOwnership'
    <2>1. \A i, j \in QueueIdx' : At(i)' = At(j)' => i = j
      <3> SUFFICES ASSUME NEW i \in QueueIdx', NEW j \in QueueIdx', At(i)' = At(j)'
                   PROVE  i = j
        OBVIOUS
      <3>1. \A k \in QueueIdx : At(k) # client_fd
        BY <1>15 DEF Queued
      <3>2. \A k, l \in QueueIdx : At(k) = At(l) => k = l
        BY DEF FdOwnership
      <3> HIDE DEF IInv, Push
      <3>3. CASE i \in QueueIdx /\ j \in QueueIdx
        BY <3>2, <3>3, <1>12
      <3>4. CASE i = count /\ j \in QueueIdx
        BY <3>1, <3>4, <1>11, <1>12
      <3>5. CASE i \in QueueIdx /\ j = count
        BY <3>1, <3>5, <1>11, <1>12
      <3> QED
        BY <3>3, <3>4, <3>5, <1>9
    <2>2. Serving' = Serving /\ task' = task /\ open' = open
      BY DEF Serving
    <2>3. open = Offered \cup Queued \cup Serving /\ Queued \cap Serving = {}
      BY DEF FdOwnership
    <2>4. \A v, w \in Workers : task[v] = task[w] /\ task[v] # NoFd => v = w
      BY DEF FdOwnership
    <2> HIDE DEF IInv, Push
    <2> QED
      BY <1>13, <1>14, <1>15, <2>1, <2>2, <2>3, <2>4 DEF FdOwnership
  <1> QED
    BY <1>6, <1>7, <1>8, <1>16

\* Popping takes the oldest element and shifts the positions of the others.
LEMMA PopStep ==
    ASSUME IInv, NEW w \in Workers, Pop(w)
    PROVE  IInv'
  <1> USE PoolAssumption DEF IInv, Pop
  <1>1. count \in 1..MAX_TASK /\ count' = count - 1
    BY DEF TypeOK
  <1>2. front \in Slots /\ front' = Succ(front) /\ task_queue' = task_queue
    BY DEF TypeOK
  <1>3. front' \in Slots /\ rear' = rear
    BY <1>2, ModShift
  <1>4. At(0) = task_queue[front]
    <2>1. 0 \in 0..MAX_TASK
      OBVIOUS
    <2>2. (front + 0) % MAX_TASK = IF front + 0 < MAX_TASK THEN front + 0
                                   ELSE front + 0 - MAX_TASK
      BY <2>1, <1>2, ModCases
    <2>3. (front + 0) % MAX_TASK = front
      BY <2>2, <1>2 DEF Slots
    <2> QED
      BY <2>3 DEF At
  <1>5. 0 \in QueueIdx
    BY <1>1 DEF QueueIdx
  <1>6. At(0) \in open /\ At(0) # NoFd /\ At(0) \in Queued
    BY <1>5 DEF FdOwnership, Queued, TypeOK
  <1>7. task' = [task EXCEPT ![w] = At(0)] /\ task[w] = NoFd
    BY <1>4 DEF LocalInv
  <1>8. TypeOK'
    BY <1>1, <1>3, <1>6, <1>7 DEF TypeOK, Threads, WorkerPc, MainPc, condVars
  <1>9. LockInv' /\ WaitInv' /\ LocalInv'
    BY <1>6, <1>7 DEF TypeOK, LockInv, WaitInv, LocalInv, Threads, condVars
  <1>10. ASSUME NEW i \in QueueIdx' PROVE At(i)' = At(i + 1) /\ i + 1 \in QueueIdx
    BY <1>1, <1>2, ModShift DEF At, QueueIdx
  <1>11. ASSUME NEW i \in QueueIdx, i # 0 PROVE i - 1 \in QueueIdx' /\ At(i) = At(i - 1)'
    <2>1. i \in Nat /\ i < count
      BY <1>1, <1>11 DEF QueueIdx
    <2>2. i - 1 \in QueueIdx' /\ (i - 1) + 1 = i
      BY <1>1, <1>11, <2>1 DEF QueueIdx
    <2>3. At(i - 1)' = At((i - 1) + 1)
      BY <2>2, <1>10
    <2> QED
      BY <2>2, <2>3
  <1>12. RingInv'
    <2>1. count - 1 \in 0..(MAX_TASK - 1) /\ (count - 1) + 1 = count
      BY <1>1
    <2>2. (Succ(front) + (count - 1)) % MAX_TASK = (front + count) % MAX_TASK
      BY <1>2, <2>1, ModShift
    <2> QED
      BY <1>1, <1>2, <1>3, <2>2 DEF RingInv
  <1>13. Queued' = Queued \ {At(0)}
    <2>1. \A i \in QueueIdx : At(i) = At(0) => i = 0
      BY <1>5 DEF FdOwnership
    <2>2. ASSUME NEW i \in QueueIdx' PROVE At(i)' \in Queued \ {At(0)}
      <3>1. i + 1 # 0
        BY <1>1 DEF QueueIdx
      <3> QED
        BY <3>1, <2>1, <1>10 DEF Queued
    <2>3. ASSUME NEW i \in QueueIdx, At(i) # At(0) PROVE At(i) \in Queued'
      BY <2>3, <1>11 DEF Queued
    <2> QED
      BY <2>2, <2>3 DEF Queued
  <1>14. Serving' = Serving \cup {At(0)}
    BY <1>6, <1>7 DEF Serving, TypeOK
  <1>15. Offered' = Offered /\ open' = open
    BY DEF Offered
  <1>16. FdOwnership'
    <2>1. \A i, j \in QueueIdx' : At(i)' = At(j)' => i = j
      <3> SUFFICES ASSUME NEW i \in QueueIdx', NEW j \in QueueIdx', At(i)' = At(j)'
                   PROVE  i = j
        OBVIOUS
      <3>1. i + 1 = j + 1
        BY <1>10 DEF FdOwnership
      <3> QED
        BY <3>1, <1>1 DEF QueueIdx
    <2>2. \A u, v \in Workers : task'[u] = task'[v] /\ task'[u] # NoFd => u = v
      <3>1. \A v \in Workers : task[v] # At(0)
        BY <1>6 DEF FdOwnership, Serving
      <3>2. \A u, v \in Workers : task[u] = task[v] /\ task[u] # NoFd => u = v
        BY DEF FdOwnership
      <3>3. task \in [Workers -> Fds \cup {NoFd}]
        BY DEF TypeOK
      <3> HIDE DEF IInv, Pop
      <3> QED
        BY <1>7, <3>1, <3>2, <3>3
    <2>3. /\ open = Offered \cup Queued \cup Serving
          /\ Queued \cap Serving = {} /\ Offered \cap (Queued \cup Serving) = {}
      BY DEF FdOwnership
    <2> HIDE DEF IInv, Pop
    <2> QED
      BY <1>6, <1>13, <1>14, <1>15, <2>1, <2>2, <2>3 DEF FdOwnership
  <1> QED
    BY <1>8, <1>9, <1>12, <1>16

-----------------------------------------------------------------------------
(* The theorems.                                                           *)

\* Every step keeps the inductive invariant, one step of the proof for each action.
LEMMA NextIInv == IInv /\ [Next]_vars => IInv'
  <1> SUFFICES ASSUME IInv, [Next]_vars PROVE IInv'
    OBVIOUS
  <1>1. CASE UNCHANGED vars
    BY <1>1, OwnershipUnchanged
       DEF vars, queueVars, condVars, IInv, TypeOK, LockInv, WaitInv, LocalInv
  <1>2. CASE MainStep
    BY <1>2, QuietSteps, PushStep, ExitStep DEF MainStep, ListenFails
  <1>3. ASSUME NEW fd \in Fds, Accept(fd) PROVE IInv'
    BY <1>3, AcceptStep
  <1>4. ASSUME NEW w \in Workers, CreateWorker(w) \/ WorkerStep(w) \/ Sigpipe(w)
        PROVE  IInv'
    BY <1>4, QuietSteps, PopStep, HandleClientStep, ExitStep DEF WorkerStep, Sigpipe
  <1>5. ASSUME NEW t \in Threads, SpuriousWakeup(t) PROVE IInv'
    BY <1>5, QuietSteps
  <1> QED
    BY <1>1, <1>2, <1>3, <1>4, <1>5 DEF Next

\* IInv, which holds the mutex discipline, the wait sets, the locals and the
\* ring's arithmetic together, holds in every reachable state.
THEOREM Invariance == Spec => []IInv
  BY InitIInv, NextIInv, PTL DEF Spec

\* The variables keep their types: no index leaves the array, and the ring
\* never holds more than MAX_TASK connections.
THEOREM TypeCorrect == Spec => []TypeOK
  BY Invariance, PTL DEF IInv

\* Every open descriptor has exactly one holder.
THEOREM Ownership == Spec => []FdOwnership
  BY Invariance, PTL DEF IInv

-----------------------------------------------------------------------------
(* No wake-up is lost.                                                     *)

\* How many signals are about to be sent for elements just pushed.
Pending == IF pc[Main] = "signal" THEN 1 ELSE 0

\* The claim of a queued element: the first half of NoLostWakeup.
Claimed == not_empty # {} => count <= Cardinality(Claimers) + Pending

\* The free slot of a sleeping acceptor: its second half.
Announced == not_full # {} /\ ~Full => \E w \in Workers : pc[w] = "signal"

\* The two halves are the whole.
LEMMA NoLostWakeupParts == NoLostWakeup <=> Claimed /\ Announced
  BY DEF NoLostWakeup, Claimed, Announced, Pending

\* There are as few claimers as workers.
LEMMA ClaimersFinite ==
    /\ IsFiniteSet(Claimers) /\ Cardinality(Claimers) \in Nat
    /\ IsFiniteSet(Claimers') /\ Cardinality(Claimers') \in Nat
  <1>1. Claimers \subseteq Workers /\ Claimers' \subseteq Workers
    BY DEF Claimers
  <1> QED
    BY <1>1, PoolAssumption, FS_Subset, FS_CardinalityType

\* A set of claimers that does not shrink keeps its cardinality at least.
LEMMA ClaimersGrow ==
    ASSUME Claimers \subseteq Claimers'
    PROVE  Cardinality(Claimers) <= Cardinality(Claimers')
  BY ClaimersFinite, FS_Subset

\* One more claimer.
LEMMA ClaimersAdd ==
    ASSUME NEW w, w \notin Claimers, Claimers' = Claimers \cup {w}
    PROVE  Cardinality(Claimers') = Cardinality(Claimers) + 1
  BY ClaimersFinite, FS_AddElement

\* One claimer less.
LEMMA ClaimersRemove ==
    ASSUME NEW w, w \in Claimers, Claimers' = Claimers \ {w}
    PROVE  Cardinality(Claimers') = Cardinality(Claimers) - 1
  BY ClaimersFinite, FS_RemoveElement

\* A step that leaves count, not_empty, pc[Main] = "signal" as they are or
\* weaker, and takes no worker out of Claimers.
LEMMA ClaimedKept ==
    ASSUME IInv, Claimed, count' = count, not_empty' \subseteq not_empty,
           Pending' = Pending, Claimers \subseteq Claimers'
    PROVE  Claimed'
  <1>1. count \in Nat /\ Pending \in {0, 1}
    BY DEF IInv, TypeOK, Pending
  <1>2. Cardinality(Claimers) <= Cardinality(Claimers')
    BY ClaimersGrow
  <1>3. /\ Cardinality(Claimers) \in Nat /\ Cardinality(Claimers)' \in Nat
        /\ Cardinality(Claimers)' = Cardinality(Claimers')
    BY ClaimersFinite
  <1> QED
    BY <1>1, <1>2, <1>3 DEF Claimed

\* Every step keeps enough workers on their way to the queued connections.
LEMMA ClaimedStep ==
    ASSUME IInv, Claimed, Next
    PROVE  Claimed'
  <1> USE PoolAssumption
  <1>1. /\ pc \in [Threads -> WorkerPc \cup MainPc]
        /\ not_full \subseteq {Main} /\ not_empty = {w \in Workers : pc[w] = "wait"}
        /\ count \in Nat /\ Workers \subseteq Threads /\ Main \in Threads
    BY DEF IInv, TypeOK, WaitInv, Threads
  <1>2. ASSUME Exit PROVE Claimed'
    BY <1>2 DEF Exit, Claimed
  <1>3. CASE PoolReady \/ Listen \/ MainLock \/ MainWait \/ MainUnlock
    <2>1. /\ count' = count /\ not_empty' = not_empty
          /\ Pending' = Pending /\ Claimers \subseteq Claimers'
      BY <1>1, <1>3 DEF PoolReady, Listen, MainLock, MainWait, MainUnlock, queueVars,
                        condVars, Pending, Claimers
    <2> QED
      BY <2>1, ClaimedKept
  <1>4. CASE Push
    <2>1. /\ count' = count + 1 /\ not_empty' = not_empty
          /\ Pending = 0 /\ Pending' = 1 /\ Claimers' = Claimers
      BY <1>1, <1>4 DEF Push, condVars, Pending, Claimers
    <2> QED
      BY <1>1, <2>1, ClaimersFinite DEF Claimed
  <1>5. CASE MainSignal
    <2>1. count' = count /\ Pending = 1 /\ Pending' = 0
      BY <1>1, <1>5 DEF MainSignal, Goto, queueVars, Pending
    <2>2. PICK woken \in Awaken(not_empty) :
            not_empty' = not_empty \ woken /\ pc' = Goto(Main, "unlock", woken)
      BY <1>5 DEF MainSignal
    <2>3. CASE not_empty = {}
      BY <2>2, <2>3 DEF Awaken, Claimed
    <2>4. CASE not_empty # {}
      <3>1. PICK w \in not_empty : woken = {w}
        BY <2>2, <2>4 DEF Awaken
      <3>2. w \in Workers /\ w \notin Claimers /\ Claimers' = Claimers \cup {w}
        BY <1>1, <2>2, <3>1 DEF Goto, Claimers, Threads
      <3>3. Cardinality(Claimers') = Cardinality(Claimers) + 1
        BY <3>2, ClaimersAdd
      <3> QED
        BY <1>1, <2>1, <2>4, <3>3, ClaimersFinite DEF Claimed
    <2> QED
      BY <2>3, <2>4
  <1>6. ASSUME NEW fd \in Fds, Accept(fd) PROVE Claimed'
    <2>1. /\ count' = count /\ not_empty' = not_empty
          /\ Pending' = Pending /\ Claimers \subseteq Claimers'
      BY <1>1, <1>6 DEF Accept, queueVars, condVars, Pending, Claimers
    <2> QED
      BY <2>1, ClaimedKept
  <1>7. ASSUME NEW w \in Workers,
               CreateWorker(w) \/ WorkerLock(w) \/ WorkerSignal(w) \/ WorkerUnlock(w)
               \/ HandleClient(w)
        PROVE  Claimed'
    <2>1. count' = count /\ not_empty' = not_empty
      BY <1>7 DEF CreateWorker, WorkerLock, WorkerSignal, WorkerUnlock, HandleClient,
                  queueVars, condVars
    <2>2. Pending' = Pending
      <3>1. CASE WorkerSignal(w)
        BY <1>1, <3>1 DEF WorkerSignal, Awaken, Goto, Pending, IInv, WaitInv
      <3> QED
        BY <1>1, <1>7, <3>1 DEF CreateWorker, WorkerLock, WorkerUnlock, HandleClient, Pending
    <2>3. Claimers \subseteq Claimers'
      BY <1>1, <1>7 DEF CreateWorker, WorkerLock, WorkerSignal, WorkerUnlock,
                        HandleClient, Goto, Claimers
    <2> QED
      BY <2>1, <2>2, <2>3, ClaimedKept
  <1>8. ASSUME NEW w \in Workers, WorkerWait(w) PROVE Claimed'
    <2>1. count' = 0 /\ Pending' \in {0, 1}
      BY <1>8 DEF WorkerWait, queueVars, Pending
    <2> QED
      BY <2>1, ClaimersFinite DEF Claimed
  <1>9. ASSUME NEW w \in Workers, Pop(w) PROVE Claimed'
    <2>1. /\ count' = count - 1 /\ not_empty' = not_empty
          /\ Pending' = Pending /\ Pending \in {0, 1}
          /\ w \in Claimers /\ Claimers' = Claimers \ {w}
      BY <1>1, <1>9 DEF Pop, condVars, Pending, Claimers
    <2>2. Cardinality(Claimers') = Cardinality(Claimers) - 1
      BY <2>1, ClaimersRemove
    <2> QED
      BY <1>1, <2>1, <2>2, ClaimersFinite DEF Claimed
  <1>10. ASSUME NEW t \in Threads, SpuriousWakeup(t) PROVE Claimed'
    <2>1. /\ count' = count /\ not_empty' \subseteq not_empty
          /\ Pending' = Pending /\ Claimers \subseteq Claimers'
      BY <1>1, <1>10 DEF SpuriousWakeup, queueVars, Pending, Claimers, Threads, IInv, WaitInv
    <2> QED
      BY <2>1, ClaimedKept
  <1> QED
    BY <1>2, <1>3, <1>4, <1>5, <1>6, <1>7, <1>8, <1>9, <1>10
       DEF Next, MainStep, WorkerStep, ListenFails, Sigpipe

\* Every step keeps a worker on its way to wake the acceptor.
LEMMA AnnouncedStep ==
    ASSUME IInv, Announced, Next
    PROVE  Announced'
  <1> USE PoolAssumption
  <1>1. /\ pc \in [Threads -> WorkerPc \cup MainPc]
        /\ not_full = {t \in {Main} : pc[t] = "wait"} /\ Main \notin not_empty
        /\ Workers \subseteq Threads /\ Main \in Threads
    BY DEF IInv, TypeOK, WaitInv, Threads
  <1>2. ASSUME Exit PROVE Announced'
    BY <1>2 DEF Exit, Announced
  <1>3. ASSUME count' = count, not_full' \subseteq not_full,
               \A w \in Workers : pc[w] = "signal" => pc'[w] = "signal"
        PROVE  Announced'
    BY <1>3 DEF Announced, Full
  <1>4. CASE PoolReady \/ Listen \/ MainLock \/ MainUnlock
    BY <1>1, <1>3, <1>4 DEF PoolReady, Listen, MainLock, MainUnlock, queueVars, condVars
  <1>5. CASE MainWait
    BY <1>5 DEF MainWait, Full, queueVars, Announced
  <1>6. CASE Push
    BY <1>1, <1>6 DEF Push, condVars, Announced
  <1>7. CASE MainSignal
    <2>1. /\ count' = count /\ not_full' = not_full
          /\ \E woken \in SUBSET not_empty : pc' = Goto(Main, "unlock", woken)
      BY <1>7 DEF MainSignal, Awaken, queueVars
    <2>2. \A w \in not_empty : pc[w] # "signal"
      BY DEF IInv, WaitInv
    <2> QED
      BY <1>1, <1>3, <2>1, <2>2 DEF Goto
  <1>8. ASSUME NEW fd \in Fds, Accept(fd) PROVE Announced'
    BY <1>1, <1>3, <1>8 DEF Accept, queueVars, condVars
  <1>9. ASSUME NEW w \in Workers,
               CreateWorker(w) \/ WorkerLock(w) \/ WorkerWait(w) \/ WorkerUnlock(w)
               \/ HandleClient(w)
        PROVE  Announced'
    BY <1>1, <1>3, <1>9 DEF CreateWorker, WorkerLock, WorkerWait, WorkerUnlock,
                            HandleClient, queueVars, condVars
  <1>10. ASSUME NEW w \in Workers, Pop(w) PROVE Announced'
    BY <1>1, <1>10 DEF Pop, Announced
  <1>11. ASSUME NEW w \in Workers, WorkerSignal(w) PROVE Announced'
    <2>1. not_full' = {}
      BY <1>1, <1>11 DEF WorkerSignal, Awaken
    <2> QED
      BY <2>1 DEF Announced
  <1>12. ASSUME NEW t \in Threads, SpuriousWakeup(t) PROVE Announced'
    BY <1>1, <1>3, <1>12 DEF SpuriousWakeup, queueVars, IInv, WaitInv
  <1> QED
    BY <1>2, <1>4, <1>5, <1>6, <1>7, <1>8, <1>9, <1>10, <1>11, <1>12
       DEF Next, MainStep, WorkerStep, ListenFails, Sigpipe

\* While a worker sleeps every queued connection has a worker on its way to it
\* or its signal is about to be sent, and a sleeping acceptor whose ring has a
\* free slot is about to be signalled.
THEOREM WakeupsKept == Spec => []NoLostWakeup
  <1>1. Init => NoLostWakeup
    BY DEF Init, NoLostWakeup
  <1>2. IInv /\ NoLostWakeup /\ [Next]_vars => NoLostWakeup'
    <2> SUFFICES ASSUME IInv, Claimed, Announced, [Next]_vars
                 PROVE  Claimed' /\ Announced'
      BY NoLostWakeupParts DEF NoLostWakeup, Claimed, Announced, Pending
    <2>1. CASE Next
      BY <2>1, ClaimedStep, AnnouncedStep
    <2>2. CASE UNCHANGED vars
      BY <2>2 DEF vars, queueVars, condVars, Claimed, Announced, Pending, Claimers, Full
    <2> QED
      BY <2>1, <2>2
  <1> QED
    BY <1>1, <1>2, Invariance, PTL DEF Spec

-----------------------------------------------------------------------------
(* The pool implements the hand-off.                                       *)

\* The abstract queue that the ring stands for.
Ring == [i \in 1..count |-> At(i - 1)]

\* The queue that the ring stands for holds just the queued descriptors.
LEMMA RingType ==
    ASSUME IInv
    PROVE  /\ Ring \in Seq(Fds) /\ Len(Ring) = count /\ count \in 0..MAX_TASK
           /\ {Ring[i] : i \in 1..Len(Ring)} = Queued
  <1>1. count \in 0..MAX_TASK /\ MAX_TASK \in Nat
    BY PoolAssumption DEF IInv, TypeOK
  <1>2. ASSUME NEW i \in 1..count PROVE i - 1 \in QueueIdx /\ Ring[i] = At(i - 1)
    BY <1>1 DEF QueueIdx, Ring
  <1>3. Queued \subseteq Fds
    BY DEF IInv, FdOwnership, TypeOK
  <1>4. \A i \in 1..count : Ring[i] \in Fds
    BY <1>2, <1>3 DEF Queued
  <1>5. Ring \in Seq(Fds) /\ Len(Ring) = count
    BY <1>1, <1>4 DEF Ring
  <1>6. ASSUME NEW j \in QueueIdx PROVE j + 1 \in 1..count /\ Ring[j + 1] = At(j)
    BY <1>1 DEF QueueIdx, Ring
  <1> QED
    BY <1>1, <1>2, <1>5, <1>6 DEF Queued

\* Push puts a descriptor behind the queue.
LEMMA RefinePush ==
    ASSUME IInv, IInv', Push
    PROVE  /\ client_fd \in Offered /\ Offered' = Offered \ {client_fd}
           /\ Len(Ring) < MAX_TASK /\ Ring' = Append(Ring, client_fd)
           /\ Serving' = Serving
  <1> USE PoolAssumption
  <1>1. count \in 0..(MAX_TASK - 1) /\ count' = count + 1 /\ front \in Slots /\ front' = front
    BY DEF IInv, TypeOK, Push, Full
  <1>2. rear = (front + count) % MAX_TASK /\ rear \in Slots
    BY DEF IInv, RingInv, TypeOK
  <1>3. task_queue' = [task_queue EXCEPT ![rear] = client_fd]
        /\ task_queue \in [Slots -> Fds \cup {NoFd}]
    BY DEF Push, IInv, TypeOK
  <1>4. ASSUME NEW i \in 1..(count + 1)
        PROVE  At(i - 1)' = IF i <= count THEN At(i - 1) ELSE client_fd
    <2>1. CASE i <= count
      <3>1. i - 1 # count /\ i - 1 \in 0..(MAX_TASK - 1)
        BY <1>1, <2>1
      <3>2. (front + (i - 1)) % MAX_TASK # rear
        BY <3>1, <1>1, <1>2, ModInjective
      <3> QED
        BY <3>2, <2>1, <1>1, <1>3 DEF At
    <2>2. CASE ~(i <= count)
      <3>1. i - 1 = count
        BY <1>1, <2>2
      <3> QED
        BY <3>1, <2>2, <1>1, <1>2, <1>3 DEF At
    <2> QED
      BY <2>1, <2>2
  <1>5. Len(Ring) = count /\ Ring \in Seq(Fds)
    BY RingType
  <1>6. client_fd \in Fds /\ client_fd' = NoFd
    BY DEF IInv, TypeOK, LocalInv, Push
  <1>7. Ring' = [i \in 1..(count + 1) |-> IF i <= count THEN At(i - 1) ELSE client_fd]
    BY <1>1, <1>4 DEF Ring
  <1>8. Append(Ring, client_fd)
          = [i \in 1..(count + 1) |-> IF i <= count THEN At(i - 1) ELSE client_fd]
    <2>1. /\ Append(Ring, client_fd) \in Seq(Fds)
          /\ Len(Append(Ring, client_fd)) = count + 1
      BY <1>5, <1>6
    <2>2. \A i \in 1..(count + 1) :
            Append(Ring, client_fd)[i] = IF i <= count THEN Ring[i] ELSE client_fd
      BY <1>1, <1>5, <1>6
    <2>3. \A i \in 1..count : Ring[i] = At(i - 1)
      BY <1>1 DEF Ring
    <2> DEFINE F == [i \in 1..(count + 1) |-> IF i <= count THEN At(i - 1) ELSE client_fd]
    <2>4. \A i \in 1..(count + 1) : F[i] = Append(Ring, client_fd)[i] /\ F[i] \in Fds
      <3>1. \A i \in 1..count : Ring[i] \in Fds
        BY <1>5
      <3>2. ASSUME NEW i \in 1..(count + 1)
            PROVE  F[i] = IF i <= count THEN At(i - 1) ELSE client_fd
        OBVIOUS
      <3>3. \A i \in 1..(count + 1) : i <= count => i \in 1..count
        BY <1>1
      <3> HIDE DEF F
      <3> QED
        BY <1>6, <2>2, <2>3, <3>1, <3>2, <3>3
    <2>5. F \in Seq(Fds) /\ Len(F) = count + 1
      BY <1>1, <2>4
    <2> HIDE DEF F
    <2>6. Append(Ring, client_fd) = F
      BY <2>1, <2>4, <2>5, SeqEqual
    <2> QED
      BY <2>6 DEF F
  <1> QED
    BY <1>1, <1>5, <1>6, <1>7, <1>8 DEF Offered, Serving, Push

\* Pop takes the first descriptor of the queue.
LEMMA RefinePop ==
    ASSUME IInv, NEW w \in Workers, Pop(w)
    PROVE  /\ Ring # <<>> /\ Ring' = Tail(Ring) /\ Offered' = Offered
           /\ Serving' = Serving \cup {Head(Ring)}
  <1> USE PoolAssumption
  <1>1. count \in 1..MAX_TASK /\ count' = count - 1 /\ front \in Slots
        /\ front' = Succ(front) /\ task_queue' = task_queue
    BY DEF IInv, TypeOK, Pop
  <1>2. Ring \in Seq(Fds) /\ Len(Ring) = count
    BY RingType
  <1>3. Head(Ring) = At(0) /\ Ring # <<>>
    BY <1>1, <1>2 DEF Ring
  <1>4. ASSUME NEW i \in 1..(count - 1) PROVE At(i - 1)' = At(i)
    <2>1. i - 1 \in 0..(MAX_TASK - 1) /\ (i - 1) + 1 = i
      BY <1>1
    <2>2. (Succ(front) + (i - 1)) % MAX_TASK = (front + i) % MAX_TASK
      BY <1>1, <2>1, ModShift
    <2> QED
      BY <1>1, <2>2 DEF At
  <1>5. Ring' = [i \in 1..(count - 1) |-> At(i)]
    BY <1>1, <1>4 DEF Ring
  <1>6. Tail(Ring) = [i \in 1..(count - 1) |-> At(i)]
    <2>1. /\ Tail(Ring) \in Seq(Fds) /\ Len(Tail(Ring)) = count - 1
          /\ \A i \in 1..(count - 1) : Tail(Ring)[i] = Ring[i + 1] /\ Ring[i + 1] \in Fds
      BY <1>1, <1>2, <1>3, HeadTailProperties
    <2>2. \A i \in 1..(count - 1) : Ring[i + 1] = At(i)
      BY <1>1 DEF Ring
    <2> DEFINE F == [i \in 1..(count - 1) |-> At(i)]
    <2>3. \A i \in 1..(count - 1) : F[i] = Tail(Ring)[i] /\ F[i] \in Fds
      BY <2>1, <2>2
    <2>4. F \in Seq(Fds) /\ Len(F) = count - 1
      BY <1>1, <2>3
    <2> HIDE DEF F
    <2>5. Tail(Ring) = F
      BY <2>1, <2>3, <2>4, SeqEqual
    <2> QED
      BY <2>5 DEF F
  <1>7. 0 \in 0..MAX_TASK /\ 0 \in QueueIdx
    BY <1>1 DEF QueueIdx
  <1>8. At(0) = task_queue[front] /\ At(0) # NoFd
    <2>1. (front + 0) % MAX_TASK = IF front + 0 < MAX_TASK THEN front + 0
                                   ELSE front + 0 - MAX_TASK
      BY <1>1, <1>7, ModCases
    <2>2. (front + 0) % MAX_TASK = front
      BY <1>1, <2>1 DEF Slots
    <2>3. At(0) \in Fds
      BY <1>7 DEF IInv, FdOwnership, TypeOK, Queued
    <2> QED
      BY <2>2, <2>3 DEF At
  <1>9. task \in [Workers -> Fds \cup {NoFd}] /\ task[w] = NoFd
        /\ task' = [task EXCEPT ![w] = At(0)]
    BY <1>8 DEF IInv, TypeOK, LocalInv, Pop
  <1>10. Serving' = Serving \cup {At(0)}
    BY <1>8, <1>9 DEF Serving
  <1> QED
    BY <1>3, <1>5, <1>6, <1>10 DEF Offered, Pop

\* Every step of the pool is a step of the hand-off, or none.
LEMMA RefineStep ==
    ASSUME IInv, IInv', [Next]_vars
    PROVE  [HO!Next]_HO!vars
  <1> USE PoolAssumption
  <1>1. ASSUME UNCHANGED <<queueVars, client_fd, task>> PROVE UNCHANGED HO!vars
    BY <1>1 DEF queueVars, HO!vars, Offered, Serving, At
  <1>2. CASE UNCHANGED vars
    BY <1>1, <1>2 DEF vars, queueVars
  <1>3. CASE PoolReady \/ Listen \/ MainLock \/ MainWait \/ MainSignal \/ MainUnlock
    BY <1>1, <1>3 DEF PoolReady, Listen, MainLock, MainWait, MainSignal, MainUnlock
  <1>4. ASSUME Exit PROVE HO!Halt
    <2>1. Ring' = <<>>
      BY <1>4 DEF Exit, Ring
    <2> QED
      BY <1>4, <2>1 DEF Exit, HO!Halt, Offered, Serving, Ring
  <1>5. CASE Push
    BY <1>5, RefinePush DEF HO!Enqueue, HO!Next, Ring, IInv, TypeOK, Offered
  <1>6. ASSUME NEW fd \in Fds, Accept(fd) PROVE HO!Offer(fd)
    <2>1. Offered = {} /\ Offered' = {fd} /\ fd \notin Queued \cup Serving
      BY <1>6 DEF Accept, Offered, IInv, LocalInv, FdOwnership
    <2>2. Ring' = Ring /\ Serving' = Serving
      BY <1>6 DEF Accept, Ring, At, Serving, queueVars
    <2>3. {Ring[i] : i \in 1..Len(Ring)} = Queued
      BY RingType
    <2> QED
      BY <2>1, <2>2, <2>3 DEF HO!Offer, HO!Queued, Ring
  <1>7. ASSUME NEW w \in Workers,
               CreateWorker(w) \/ WorkerLock(w) \/ WorkerWait(w) \/ WorkerSignal(w)
               \/ WorkerUnlock(w)
        PROVE  UNCHANGED HO!vars
    BY <1>1, <1>7 DEF CreateWorker, WorkerLock, WorkerWait, WorkerSignal, WorkerUnlock
  <1>8. ASSUME NEW w \in Workers, Pop(w) PROVE HO!Dequeue
    BY <1>8, RefinePop DEF HO!Dequeue, Ring
  <1>9. ASSUME NEW w \in Workers, HandleClient(w) PROVE \E x \in Fds : HO!Finish(x)
    <2>1. task[w] # NoFd /\ task[w] \in Fds /\ task[w] \in Serving
      BY <1>9 DEF HandleClient, IInv, LocalInv, TypeOK, Serving
    <2>2. Serving' = Serving \ {task[w]}
      BY <1>9, <2>1 DEF HandleClient, IInv, TypeOK, FdOwnership, Serving
    <2>3. Ring' = Ring /\ Offered' = Offered
      BY <1>9 DEF HandleClient, Ring, At, Offered, queueVars
    <2> QED
      BY <2>1, <2>2, <2>3 DEF HO!Finish, Ring
  <1>10. ASSUME NEW t \in Threads, SpuriousWakeup(t) PROVE UNCHANGED HO!vars
    BY <1>1, <1>10 DEF SpuriousWakeup
  <1> QED
    BY <1>2, <1>3, <1>4, <1>5, <1>6, <1>7, <1>8, <1>9, <1>10
       DEF Next, MainStep, WorkerStep, ListenFails, Sigpipe, HO!Next

\* Every behaviour of the pool is one of the hand-off: connections are queued
\* in order, within the capacity, each is taken once and oldest first.
THEOREM Refinement == Spec => HandOffSpec
  <1>1. Init => HO!Init
    BY DEF Init, HO!Init, Offered, Serving
  <1>2. IInv /\ IInv' /\ [Next]_vars => [HO!Next]_HO!vars
    BY RefineStep
  <1> QED
    BY <1>1, <1>2, Invariance, PTL DEF Spec, HO!Spec, HandOffSpec
==============================================================================
