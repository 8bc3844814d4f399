------------------------- MODULE MergeWorker_proofs -------------------------
(***************************************************************************)
(* The invariants of MergeWorker hold for any number of rooms and of       *)
(* messages, any batch size and any channel capacities.                    *)
(*                                                                         *)
(* IInv is inductive: one lemma per action shows that the action preserves *)
(* it, and Inductive puts them together.  The three theorems are its       *)
(* consequences.                                                           *)
(***************************************************************************)
EXTENDS MergeWorker, SequenceTheorems, TLAPS

USE DEF NoBatch, Ids

\* What Tail does to the places of a sequence.
LEMMA TailOfSeq ==
  ASSUME NEW S, NEW s \in Seq(S), s # <<>>
  PROVE  /\ Head(s) \in S /\ Head(s) = s[1]
         /\ Len(s) \in Nat /\ Len(s) >= 1 /\ DOMAIN s = 1..Len(s)
         /\ Tail(s) \in Seq(S) /\ Len(Tail(s)) = Len(s) - 1
         /\ DOMAIN Tail(s) = 1..(Len(s) - 1)
         /\ \A i \in 1..(Len(s) - 1) : Tail(s)[i] = s[i + 1]
  <1>1. Len(s) \in Nat /\ Len(s) >= 1 /\ DOMAIN s = 1..Len(s)
    OBVIOUS
  <1>2. Head(s) \in S /\ Head(s) = s[1]
    BY <1>1
  <1>3. Tail(s) \in Seq(S) /\ Len(Tail(s)) = Len(s) - 1
    BY <1>1
  <1>4. DOMAIN Tail(s) = 1..(Len(s) - 1)
    BY <1>1, <1>3
  <1>5. \A i \in 1..(Len(s) - 1) : Tail(s)[i] = s[i + 1]
    BY <1>1, <1>3
  <1> QED
    BY <1>1, <1>2, <1>3, <1>4, <1>5

\* A sequence without repetitions loses exactly its head.
LEMMA TailOfDistinct ==
  ASSUME NEW S, NEW s \in Seq(S), s # <<>>,
         \A i, j \in DOMAIN s : s[i] = s[j] => i = j
  PROVE  /\ \A i, j \in DOMAIN Tail(s) : Tail(s)[i] = Tail(s)[j] => i = j
         /\ Range(Tail(s)) = Range(s) \ {Head(s)}
  <1> DEFINE n == Len(s)
  <1>1. /\ Head(s) = s[1]
        /\ n \in Nat /\ n >= 1 /\ DOMAIN s = 1..n /\ DOMAIN Tail(s) = 1..(n - 1)
        /\ \A i \in 1..(n - 1) : Tail(s)[i] = s[i + 1]
    BY TailOfSeq
  <1>2. ASSUME NEW i \in DOMAIN Tail(s), NEW j \in DOMAIN Tail(s), Tail(s)[i] = Tail(s)[j]
        PROVE  i = j
    <2>1. i \in 1..(n - 1) /\ j \in 1..(n - 1) /\ i + 1 \in 1..n /\ j + 1 \in 1..n
      BY <1>1
    <2>2. s[i + 1] = s[j + 1]
      BY <1>1, <1>2, <2>1
    <2>3. i + 1 = j + 1
      BY <1>1, <2>1, <2>2
    <2> QED
      BY <2>1, <2>3
  <1>3. ASSUME NEW x \in Range(Tail(s)) PROVE x \in Range(s) \ {Head(s)}
    <2>1. PICK i \in 1..(n - 1) : x = s[i + 1]
      BY <1>1 DEF Range
    <2>2. i + 1 \in 1..n /\ 1 \in 1..n /\ i + 1 # 1
      BY <1>1
    <2> QED
      BY <1>1, <2>1, <2>2 DEF Range
  <1>4. ASSUME NEW x \in Range(s) \ {Head(s)} PROVE x \in Range(Tail(s))
    <2>1. PICK i \in 1..n : x = s[i] /\ i # 1
      BY <1>1 DEF Range
    <2>2. i - 1 \in 1..(n - 1) /\ (i - 1) + 1 = i
      BY <1>1, <2>1
    <2>3. i - 1 \in DOMAIN Tail(s) /\ x = Tail(s)[i - 1]
      BY <1>1, <2>1, <2>2
    <2> QED
      BY <2>3 DEF Range
  <1> QED
    BY <1>2, <1>3, <1>4

\* The initial state satisfies the inductive invariant.
LEMMA InitIInv == Init => IInv
  <1> SUFFICES ASSUME Init PROVE IInv
    OBVIOUS
  <1>1. TypeOK
    BY MergeAssumption DEF MergeAssumption, Init, TypeOK, TimerStates
  <1>2. ContextsInOrder
    BY DEF Init, ContextsInOrder
  <1>3. BatchesOpenedOnce
    BY MergeAssumption DEF MergeAssumption, Init, BatchesOpenedOnce
  <1>4. TimeoutsQueuedOnce
    BY DEF Init, TimeoutsQueuedOnce, Range
  <1>5. OpenBatchesPending
    BY DEF Init, OpenBatchesPending
  <1>6. BatchInHand
    BY DEF Init, BatchInHand
  <1> QED
    BY <1>1, <1>2, <1>3, <1>4, <1>5, <1>6 DEF IInv

\* A step that changes none of the variables IInv speaks of.
LEMMA StutterIInv == IInv /\ UNCHANGED vars => IInv'
  BY DEF IInv, TypeOK, ContextsInOrder, BatchesOpenedOnce, TimeoutsQueuedOnce,
         OpenBatchesPending, BatchInHand, IsOpen, Received, vars

\* A caller's message: refused, nothing changes; accepted, it is the newest in
\* contextChan and the worker has not received it.
LEMMA PushIInv == ASSUME IInv, NEW r \in Rooms, Push(r) PROVE IInv'
  <1> DEFINE context == [room |-> r, msg |-> pushed + 1]
  <1>0. TypeOK /\ ContextsInOrder /\ BatchesOpenedOnce /\ MergerChannelSize \in Nat
    BY MergeAssumption DEF IInv, MergeAssumption
  <1>1. pushed \in Nat /\ contextChan \in Seq([room : Rooms, msg : Ids])
    BY <1>0 DEF TypeOK
  <1>2. CASE Len(contextChan) = MergerChannelSize
    BY <1>0, <1>1, <1>2, StutterIInv DEF Push, vars
  <1>3. CASE Len(contextChan) < MergerChannelSize
    <2>1. /\ pushed < MaxMsgs
          /\ pushed' = pushed + 1
          /\ contextChan' = Append(contextChan, context)
      BY <1>0, <1>1, <1>3 DEF Push
    <2>2. context \in [room : Rooms, msg : Ids]
      BY <2>1, <1>1, MergeAssumption DEF MergeAssumption
    <2>3. contextChan' \in Seq([room : Rooms, msg : Ids])
      BY <2>1, <2>2, <1>1
    <2>4. Len(contextChan') = Len(contextChan) + 1
      BY <2>1, <2>2, <1>1
    <2>5. Received' = Received
      BY <2>1, <2>4, <1>1 DEF Received
    <2>6. TypeOK'
      <3>1. UNCHANGED <<timeoutChan, room2Batch, items, batchRoom, commitTimer, pc,
                        batch, dispatchChan, stopChan, handed, lost>>
        BY <1>0 DEF Push
      <3>2. pushed' \in 0..MaxMsgs
        BY <1>1, <2>1, MergeAssumption DEF MergeAssumption
      <3>3. Len(contextChan') <= MergerChannelSize
        BY <1>1, <1>3, <2>4, MergeAssumption DEF MergeAssumption
      <3> QED
        BY <1>0, <2>3, <3>1, <3>2, <3>3 DEF TypeOK
    <2>7. ContextsInOrder'
      BY <1>0, <1>1, <2>1, <2>2, <2>3, <2>4 DEF ContextsInOrder, Received
    <2>8. BatchesOpenedOnce'
      BY <1>0, <2>5 DEF BatchesOpenedOnce, Push
    <2>9. TimeoutsQueuedOnce' /\ OpenBatchesPending' /\ BatchInHand'
      BY DEF IInv, Push, TimeoutsQueuedOnce, OpenBatchesPending, BatchInHand, IsOpen
    <2> QED
      BY <2>6, <2>7, <2>8, <2>9 DEF IInv
  <1> QED
    BY <1>0, <1>1, <1>2, <1>3 DEF TypeOK

\* Shutdown and the reader of dispatchChan do not touch the batches.
LEMMA OutsideIInv ==
  ASSUME IInv, MergeClose \/ DispatchReceive \/ WorkerStop PROVE IInv'
  <1> DEFINE Job == [roomId : Rooms, items : Seq(Ids)]
  <1>a. /\ dispatchChan \in Seq(Job)
        /\ Len(dispatchChan) <= DispatchChannelSize
        /\ DispatchChannelSize \in Nat
    BY MergeAssumption DEF IInv, TypeOK, MergeAssumption
  <1>b. dispatchChan' \in Seq(Job) /\ Len(dispatchChan') <= DispatchChannelSize
    <2>1. CASE dispatchChan # <<>> /\ dispatchChan' = Tail(dispatchChan)
      <3> HIDE DEF Job
      <3> QED
        BY <1>a, <2>1
    <2>2. CASE dispatchChan' = dispatchChan
      BY <1>a, <2>2
    <2> QED
      BY <2>1, <2>2 DEF MergeClose, DispatchReceive, WorkerStop
  <1>1. TypeOK'
    BY <1>b DEF IInv, TypeOK, MergeClose, DispatchReceive, WorkerStop
  <1>2. ContextsInOrder' /\ BatchesOpenedOnce'
    BY DEF IInv, ContextsInOrder, BatchesOpenedOnce, Received, MergeClose,
           DispatchReceive, WorkerStop
  <1>3. TimeoutsQueuedOnce' /\ OpenBatchesPending'
    BY DEF IInv, TimeoutsQueuedOnce, OpenBatchesPending, MergeClose,
           DispatchReceive, WorkerStop
  <1>4. BatchInHand'
    BY DEF IInv, BatchInHand, IsOpen, MergeClose, DispatchReceive, WorkerStop
  <1> QED
    BY <1>1, <1>2, <1>3, <1>4 DEF IInv

\* An armed timer fires.
LEMMA TimerFireIInv == ASSUME IInv, NEW b \in Ids, TimerFire(b) PROVE IInv'
  <1>1. TypeOK /\ commitTimer \in [Ids -> TimerStates]
    BY DEF IInv, TypeOK
  <1>2. TypeOK'
    BY <1>1 DEF TypeOK, TimerFire, TimerStates
  <1>3. ContextsInOrder'
    BY DEF IInv, ContextsInOrder, Received, TimerFire
  <1>4. BatchesOpenedOnce'
    BY <1>1 DEF IInv, BatchesOpenedOnce, Received, TimerFire
  <1>5. TimeoutsQueuedOnce'
    BY <1>1 DEF IInv, TimeoutsQueuedOnce, TimerFire
  <1>6. OpenBatchesPending'
    BY <1>1 DEF IInv, OpenBatchesPending, TimerFire, TypeOK
  <1>7. BatchInHand'
    BY <1>1 DEF IInv, BatchInHand, IsOpen, TimerFire
  <1> QED
    BY <1>2, <1>3, <1>4, <1>5, <1>6, <1>7 DEF IInv

\* autoCommit puts the batch at the end of timeoutChan.
LEMMA AutoCommitIInv == ASSUME IInv, NEW b \in Ids, AutoCommit(b) PROVE IInv'
  <1>1. TypeOK /\ commitTimer \in [Ids -> TimerStates] /\ timeoutChan \in Seq(Ids)
    BY DEF IInv, TypeOK
  <1>2. /\ commitTimer[b] = "firing"
        /\ commitTimer' = [commitTimer EXCEPT ![b] = "queued"]
        /\ timeoutChan' = Append(timeoutChan, b)
        /\ Len(timeoutChan) < MergerChannelSize
    BY DEF AutoCommit
  <1>3. /\ timeoutChan' \in Seq(Ids)
        /\ Len(timeoutChan') = Len(timeoutChan) + 1
        /\ \A i \in DOMAIN timeoutChan : timeoutChan'[i] = timeoutChan[i]
        /\ timeoutChan'[Len(timeoutChan) + 1] = b
        /\ DOMAIN timeoutChan' = DOMAIN timeoutChan \cup {Len(timeoutChan) + 1}
    BY <1>1, <1>2
  <1>4. b \notin Range(timeoutChan)
    BY <1>2 DEF IInv, TimeoutsQueuedOnce
  <1>5. Range(timeoutChan') = Range(timeoutChan) \cup {b}
    BY <1>3 DEF Range
  <1>6. TypeOK'
    BY <1>1, <1>2, <1>3, MergeAssumption
    DEF TypeOK, AutoCommit, TimerStates, MergeAssumption
  <1>7. ContextsInOrder'
    BY DEF IInv, ContextsInOrder, Received, AutoCommit
  <1>8. BatchesOpenedOnce'
    BY <1>1, <1>2 DEF IInv, BatchesOpenedOnce, Received, AutoCommit
  <1>9. TimeoutsQueuedOnce'
    <2>1. \A i, j \in DOMAIN timeoutChan' : timeoutChan'[i] = timeoutChan'[j] => i = j
      BY <1>3, <1>4 DEF IInv, TimeoutsQueuedOnce, Range
    <2>2. \A a \in Ids : commitTimer'[a] = "queued" <=> a \in Range(timeoutChan')
      BY <1>1, <1>2, <1>5 DEF IInv, TimeoutsQueuedOnce
    <2> QED
      BY <2>1, <2>2 DEF TimeoutsQueuedOnce
  <1>10. OpenBatchesPending'
    BY <1>1, <1>2 DEF IInv, OpenBatchesPending, AutoCommit, TypeOK
  <1>11. BatchInHand'
    BY <1>1, <1>2 DEF IInv, BatchInHand, IsOpen, AutoCommit
  <1> QED
    BY <1>6, <1>7, <1>8, <1>9, <1>10, <1>11 DEF IInv

\* Stop: the batch stays in the worker's hands.
LEMMA StopTimerIInv == ASSUME IInv, StopTimer PROVE IInv'
  <1>1. TypeOK /\ commitTimer \in [Ids -> TimerStates] /\ batch \in Ids
    BY DEF IInv, TypeOK, BatchInHand, StopTimer
  <1>2. commitTimer' \in [Ids -> TimerStates]
    BY <1>1 DEF StopTimer, TimerStates
  <1>3. \A a \in Ids :
          \/ commitTimer'[a] = commitTimer[a]
          \/ a = batch /\ commitTimer[a] = "armed" /\ commitTimer'[a] = "stopped"
    BY <1>1 DEF StopTimer
  <1>4. TypeOK'
    BY <1>1, <1>2 DEF TypeOK, StopTimer
  <1>5. ContextsInOrder'
    BY DEF IInv, ContextsInOrder, Received, StopTimer
  <1>6. BatchesOpenedOnce'
    BY <1>3 DEF IInv, BatchesOpenedOnce, Received, StopTimer
  <1>7. TimeoutsQueuedOnce'
    BY <1>3 DEF IInv, TimeoutsQueuedOnce, StopTimer
  <1>8. OpenBatchesPending'
    BY <1>1, <1>3 DEF IInv, OpenBatchesPending, StopTimer, TypeOK
  <1>9. BatchInHand'
    BY <1>1, <1>3 DEF IInv, BatchInHand, IsOpen, StopTimer
  <1> QED
    BY <1>4, <1>5, <1>6, <1>7, <1>8, <1>9 DEF IInv

\* The worker receives a timeout: the batch is open, and due, or is ignored.
LEMMA TakeTimeoutIInv == ASSUME IInv, TakeTimeout PROVE IInv'
  <1> DEFINE t == Head(timeoutChan)
  <1>1. /\ TypeOK
        /\ commitTimer \in [Ids -> TimerStates]
        /\ timeoutChan \in Seq(Ids)
        /\ timeoutChan # <<>>
        /\ batch = NoBatch
    BY DEF IInv, TypeOK, BatchInHand, TakeTimeout
  <1>2. /\ t \in Ids /\ t \in Range(timeoutChan)
        /\ timeoutChan' \in Seq(Ids)
        /\ Len(timeoutChan') = Len(timeoutChan) - 1 /\ Len(timeoutChan) \in Nat
        /\ \A i, j \in DOMAIN timeoutChan' : timeoutChan'[i] = timeoutChan'[j] => i = j
        /\ Range(timeoutChan') = Range(timeoutChan) \ {t}
    <2>1. timeoutChan' = Tail(timeoutChan)
      BY DEF TakeTimeout
    <2>2. \A i, j \in DOMAIN timeoutChan : timeoutChan[i] = timeoutChan[j] => i = j
      BY DEF IInv, TimeoutsQueuedOnce
    <2>3. t = timeoutChan[1] /\ 1 \in DOMAIN timeoutChan
      BY <1>1, TailOfSeq
    <2>4. t \in Range(timeoutChan)
      BY <2>3 DEF Range
    <2>5. /\ t \in Ids
          /\ Tail(timeoutChan) \in Seq(Ids)
          /\ Len(Tail(timeoutChan)) = Len(timeoutChan) - 1 /\ Len(timeoutChan) \in Nat
      BY <1>1, TailOfSeq
    <2>6. /\ \A i, j \in DOMAIN Tail(timeoutChan) :
                Tail(timeoutChan)[i] = Tail(timeoutChan)[j] => i = j
          /\ Range(Tail(timeoutChan)) = Range(timeoutChan) \ {t}
      BY <1>1, <2>2, TailOfDistinct
    <2> QED
      BY <2>1, <2>4, <2>5, <2>6
  <1>3. /\ commitTimer' = [commitTimer EXCEPT ![t] = "expired"]
        /\ commitTimer[t] = "queued"
    BY <1>2 DEF TakeTimeout, IInv, TimeoutsQueuedOnce
  <1>4. batchRoom[t] \in Rooms
    BY <1>2, <1>3 DEF IInv, BatchesOpenedOnce
  <1>b. batch' = IF IsOpen(t) THEN t ELSE NoBatch
    BY DEF TakeTimeout, IsOpen
  <1>5. TypeOK'
    <2>1. commitTimer' \in [Ids -> TimerStates]
      BY <1>1, <1>3 DEF TimerStates
    <2>2. pc' \in {"select", "commit"} /\ batch' \in Ids \cup {NoBatch}
      BY <1>2, <1>b DEF TakeTimeout
    <2>3. Len(timeoutChan') <= MergerChannelSize
      BY <1>1, <1>2, MergeAssumption DEF TypeOK, MergeAssumption
    <2> QED
      BY <1>1, <1>2, <2>1, <2>2, <2>3 DEF TypeOK, TakeTimeout
  <1>6. ContextsInOrder'
    BY DEF IInv, ContextsInOrder, Received, TakeTimeout
  <1>7. BatchesOpenedOnce'
    BY <1>1, <1>3 DEF IInv, BatchesOpenedOnce, Received, TakeTimeout
  <1>8. TimeoutsQueuedOnce'
    <2>1. \A a \in Ids : commitTimer'[a] = "queued" <=> a \in Range(timeoutChan')
      BY <1>1, <1>2, <1>3 DEF IInv, TimeoutsQueuedOnce
    <2> QED
      BY <1>2, <2>1 DEF TimeoutsQueuedOnce
  <1>9. OpenBatchesPending'
    <2> SUFFICES ASSUME NEW r \in Rooms, room2Batch[r] # NoBatch
                 PROVE  /\ batchRoom[room2Batch[r]] = r
                        /\ commitTimer'[room2Batch[r]] # "none"
                        /\ \/ batch' = room2Batch[r]
                           \/ /\ commitTimer'[room2Batch[r]] \in {"armed", "firing", "queued"}
                              /\ Len(items[room2Batch[r]]) < MaxMergerBatchSize
      BY DEF OpenBatchesPending, TakeTimeout
    <2>1. room2Batch[r] \in Ids
      BY <1>1 DEF TypeOK
    <2>2. CASE room2Batch[r] = t
      <3>1. IsOpen(t)
        BY <2>1, <2>2, <1>1 DEF IInv, OpenBatchesPending, IsOpen
      <3>2. batch' = t
        BY <3>1, <1>b
      <3> QED
        BY <1>1, <1>3, <2>1, <2>2, <3>2 DEF IInv, OpenBatchesPending
    <2>3. CASE room2Batch[r] # t
      BY <1>1, <1>3, <2>1, <2>3 DEF IInv, OpenBatchesPending
    <2> QED
      BY <2>2, <2>3
  <1>10. BatchInHand'
    <2>1. CASE IsOpen(t)
      <3>1. pc' = "commit" /\ batch' = t /\ commitTimer'[t] = "expired"
        BY <1>1, <1>2, <1>3, <1>b, <2>1 DEF TakeTimeout
      <3> QED
        BY <1>2, <1>4, <2>1, <3>1 DEF BatchInHand, IsOpen, TakeTimeout
    <2>2. CASE ~IsOpen(t)
      BY <2>2 DEF BatchInHand, TakeTimeout
    <2> QED
      BY <2>1, <2>2
  <1> QED
    BY <1>5, <1>6, <1>7, <1>8, <1>9, <1>10 DEF IInv

\* The worker commits: the batch leaves its hands and its room has none.
LEMMA CommitBatchIInv == ASSUME IInv, CommitBatch PROVE IInv'
  <1> DEFINE Job == [roomId : Rooms, items : Seq(Ids)]
             room == batchRoom[batch]
  <1>1. /\ TypeOK
        /\ batch \in Ids
        /\ room \in Rooms
        /\ room2Batch[room] = batch
        /\ items[batch] \in Seq(Ids)
        /\ room2Batch \in [Rooms -> Ids \cup {NoBatch}]
    BY DEF IInv, TypeOK, BatchInHand, IsOpen, CommitBatch
  <1>2. /\ pc' = "select"
        /\ batch' = NoBatch
        /\ room2Batch' = [room2Batch EXCEPT ![room] = NoBatch]
        /\ Dispatch(room, items[batch])
        /\ UNCHANGED <<pushed, contextChan, timeoutChan, items, batchRoom,
                       commitTimer, stopChan>>
    BY DEF CommitBatch
  <1>3. TypeOK'
    <2>1. /\ dispatchChan \in Seq(Job)
          /\ [roomId |-> room, items |-> items[batch]] \in Job
          /\ Len(dispatchChan) <= DispatchChannelSize
          /\ DispatchChannelSize \in Nat
          /\ handed \in [Rooms -> Seq(Ids)]
          /\ lost \subseteq Ids
      BY <1>1, MergeAssumption DEF TypeOK, MergeAssumption
    <2>2. Range(items[batch]) \subseteq Ids
      BY <1>1, RangeOfSeq
    <2>3. dispatchChan' \in Seq(Job) /\ Len(dispatchChan') <= DispatchChannelSize
      <3>1. CASE dispatchChan' = Append(dispatchChan, [roomId |-> room, items |-> items[batch]])
                 /\ Len(dispatchChan) < DispatchChannelSize
        <4> HIDE DEF Job
        <4> QED
          BY <2>1, <3>1
      <3>2. CASE dispatchChan' = dispatchChan
        BY <2>1, <3>2
      <3> QED
        BY <1>2, <3>1, <3>2 DEF Dispatch
    <2>4. handed' \in [Rooms -> Seq(Ids)] /\ lost' \subseteq Ids
      <3>1. handed[room] \o items[batch] \in Seq(Ids)
        BY <1>1, <2>1
      <3> QED
        BY <1>1, <1>2, <2>1, <2>2, <3>1 DEF Dispatch
    <2> QED
      BY <1>1, <1>2, <2>3, <2>4 DEF TypeOK
  <1>4. ContextsInOrder' /\ BatchesOpenedOnce'
    BY <1>2 DEF IInv, ContextsInOrder, BatchesOpenedOnce, Received
  <1>5. TimeoutsQueuedOnce'
    BY <1>2 DEF IInv, TimeoutsQueuedOnce
  <1>6. OpenBatchesPending'
    BY <1>1, <1>2 DEF IInv, OpenBatchesPending
  <1>7. BatchInHand'
    BY <1>2 DEF BatchInHand
  <1> QED
    BY <1>3, <1>4, <1>5, <1>6, <1>7 DEF IInv

\* The worker receives a message: the batch it goes to is open and not full,
\* or new; then the batch is full and in the worker's hands, or still open.
LEMMA TakeContextIInv == ASSUME IInv, TakeContext PROVE IInv'
  <1> DEFINE context == Head(contextChan)
             room == context.room
             b == TargetBatch(context)
             full == Len(items[b]) + 1 >= MaxMergerBatchSize
  <1>1. /\ TypeOK
        /\ pushed \in Nat
        /\ MaxMergerBatchSize \in Nat
        /\ contextChan \in Seq([room : Rooms, msg : Ids])
        /\ contextChan # <<>>
        /\ room2Batch \in [Rooms -> Ids \cup {NoBatch}]
        /\ items \in [Ids -> Seq(Ids)]
        /\ batchRoom \in [Ids -> Rooms \cup {NoRoom}]
        /\ commitTimer \in [Ids -> TimerStates]
        /\ batch = NoBatch
    <2>1. TypeOK /\ BatchInHand
      BY DEF IInv
    <2>2. pc = "select" /\ contextChan # <<>>
      BY DEF TakeContext
    <2>3. batch = NoBatch
      BY <2>1, <2>2 DEF BatchInHand
    <2>4. pushed \in Nat /\ MaxMergerBatchSize \in Nat
      BY <2>1, MergeAssumption DEF TypeOK, MergeAssumption
    <2> QED
      BY <2>1, <2>2, <2>3, <2>4 DEF TypeOK
  <1>2. /\ context \in [room : Rooms, msg : Ids] /\ context = contextChan[1]
        /\ Len(contextChan) \in Nat /\ Len(contextChan) >= 1
        /\ DOMAIN contextChan = 1..Len(contextChan)
        /\ Tail(contextChan) \in Seq([room : Rooms, msg : Ids])
        /\ Len(Tail(contextChan)) = Len(contextChan) - 1
        /\ DOMAIN Tail(contextChan) = 1..(Len(contextChan) - 1)
        /\ \A i \in 1..(Len(contextChan) - 1) : Tail(contextChan)[i] = contextChan[i + 1]
    BY <1>1, TailOfSeq
  <1>3. room \in Rooms /\ context.msg \in Ids
    BY <1>2
  <1>4. Received \in Nat /\ context.msg = Received + 1
    BY <1>1, <1>2 DEF IInv, ContextsInOrder, Received
  <1>5. /\ pc = "select"
        /\ contextChan' = Tail(contextChan)
        /\ room2Batch' = [room2Batch EXCEPT ![room] = b]
        /\ items' = [items EXCEPT ![b] = Append(@, context.msg)]
        /\ batchRoom' = [batchRoom EXCEPT ![b] = room]
        /\ commitTimer' = IF room2Batch[room] = NoBatch
                          THEN [commitTimer EXCEPT ![b] = "armed"] ELSE commitTimer
        /\ pc' = (IF full THEN "full" ELSE "select")
        /\ batch' = (IF full THEN b ELSE NoBatch)
        /\ UNCHANGED <<pushed, timeoutChan, dispatchChan, stopChan, handed, lost>>
    BY DEF TakeContext
  <1>6. Received' = Received + 1
    BY <1>1, <1>2, <1>5 DEF Received
  <1>7. /\ b \in Ids
        /\ \/ /\ room2Batch[room] = NoBatch
              /\ b = Received + 1
              /\ commitTimer[b] = "none"
              /\ items[b] = <<>>
           \/ /\ room2Batch[room] = b
              /\ b <= Received
              /\ batchRoom[b] = room
              /\ commitTimer[b] \in {"armed", "firing", "queued"}
              /\ Len(items[b]) < MaxMergerBatchSize
    <2>1. CASE room2Batch[room] = NoBatch
      BY <1>3, <1>4, <2>1 DEF TargetBatch, IInv, BatchesOpenedOnce
    <2>2. CASE room2Batch[room] # NoBatch
      <3>1. b = room2Batch[room] /\ b \in Ids
        BY <1>1, <1>3, <2>2 DEF TargetBatch
      <3>2. /\ batchRoom[b] = room
            /\ commitTimer[b] \in {"armed", "firing", "queued"}
            /\ Len(items[b]) < MaxMergerBatchSize
        <4> HIDE DEF room, b
        <4>1. batch # b
          BY <1>1, <3>1
        <4> QED
          BY <1>3, <2>2, <3>1, <4>1 DEF IInv, OpenBatchesPending
      <3>3. b <= Received
        BY <1>4, <3>1, <3>2, MergeAssumption DEF IInv, BatchesOpenedOnce, MergeAssumption
      <3> QED
        BY <3>1, <3>2, <3>3
    <2> QED
      BY <2>1, <2>2
  <1> HIDE DEF context, b
  <1>8. /\ items[b] \in Seq(Ids) /\ Len(items[b]) \in Nat
        /\ Len(items[b]) < MaxMergerBatchSize
        /\ Append(items[b], context.msg) \in Seq(Ids)
        /\ Len(Append(items[b], context.msg)) = Len(items[b]) + 1
    <2>1. items[b] \in Seq(Ids) /\ Len(items[b]) \in Nat
      BY <1>1, <1>7
    <2>2. Len(items[b]) < MaxMergerBatchSize
      BY <1>7, MergeAssumption DEF MergeAssumption
    <2> QED
      BY <1>3, <2>1, <2>2
  <1>9. /\ commitTimer' \in [Ids -> TimerStates]
        /\ commitTimer'[b] \in {"armed", "firing", "queued"}
        /\ \A a \in Ids : a # b => commitTimer'[a] = commitTimer[a]
        /\ (commitTimer'[b] = "queued" <=> commitTimer[b] = "queued")
    BY <1>1, <1>5, <1>7 DEF TimerStates
  <1>10. TypeOK'
    <2>1. /\ contextChan' \in Seq([room : Rooms, msg : Ids])
          /\ Len(contextChan') <= MergerChannelSize
      BY <1>1, <1>2, <1>5, MergeAssumption DEF TypeOK, MergeAssumption
    <2>2. /\ room2Batch' \in [Rooms -> Ids \cup {NoBatch}]
          /\ items' \in [Ids -> Seq(Ids)]
          /\ batchRoom' \in [Ids -> Rooms \cup {NoRoom}]
      BY <1>1, <1>3, <1>5, <1>7, <1>8
    <2>3. pc' \in {"full", "select"} /\ batch' \in Ids \cup {NoBatch}
      BY <1>5, <1>7
    <2> QED
      BY <1>1, <1>5, <1>9, <2>1, <2>2, <2>3 DEF TypeOK
  <1>11. ContextsInOrder'
    <2>1. Len(contextChan') <= pushed'
      BY <1>1, <1>2, <1>5 DEF IInv, ContextsInOrder
    <2>2. ASSUME NEW i \in DOMAIN contextChan' PROVE contextChan'[i].msg = Received' + i
      <3>1. i \in 1..(Len(contextChan) - 1) /\ i + 1 \in DOMAIN contextChan
        BY <1>2, <1>5
      <3>2. contextChan'[i] = contextChan[i + 1]
        BY <1>2, <1>5, <3>1
      <3>3. contextChan[i + 1].msg = Received + (i + 1)
        BY <3>1 DEF IInv, ContextsInOrder
      <3> QED
        BY <1>4, <1>6, <3>1, <3>2, <3>3
    <2> QED
      BY <2>1, <2>2 DEF ContextsInOrder
  <1>12. BatchesOpenedOnce'
    <2> SUFFICES ASSUME NEW a \in Ids
                 PROVE  /\ a > Received + 1 => commitTimer'[a] = "none" /\ items'[a] = <<>>
                        /\ commitTimer'[a] # "none" =>
                             batchRoom'[a] \in Rooms /\ items'[a] # <<>>
                        /\ Len(items'[a]) <= MaxMergerBatchSize
      BY <1>6 DEF BatchesOpenedOnce
    <2>1. CASE a = b
      <3>1. batchRoom'[b] = room /\ items'[b] = Append(items[b], context.msg) /\ b <= Received + 1
        BY <1>1, <1>4, <1>5, <1>7, MergeAssumption DEF MergeAssumption
      <3>2. Len(items'[b]) = Len(items[b]) + 1 /\ items'[b] \in Seq(Ids)
        BY <1>8, <3>1
      <3>3. items'[b] # <<>> /\ Len(items'[b]) <= MaxMergerBatchSize
        BY <1>1, <1>8, <3>2
      <3> QED
        BY <1>3, <1>4, <1>7, <2>1, <3>1, <3>3, MergeAssumption DEF MergeAssumption
    <2>2. CASE a # b
      <3>1. commitTimer'[a] = commitTimer[a] /\ items'[a] = items[a] /\ batchRoom'[a] = batchRoom[a]
        BY <1>1, <1>5, <1>9, <2>2
      <3>2. a > Received + 1 => a > Received
        BY <1>4, MergeAssumption DEF MergeAssumption
      <3> QED
        BY <3>1, <3>2 DEF IInv, BatchesOpenedOnce
    <2> QED
      BY <2>1, <2>2
  <1>13. TimeoutsQueuedOnce'
    BY <1>5, <1>7, <1>9 DEF IInv, TimeoutsQueuedOnce
  <1>14. OpenBatchesPending'
    <2> SUFFICES ASSUME NEW r \in Rooms, room2Batch'[r] # NoBatch
                 PROVE  /\ batchRoom'[room2Batch'[r]] = r
                        /\ commitTimer'[room2Batch'[r]] # "none"
                        /\ \/ batch' = room2Batch'[r]
                           \/ /\ commitTimer'[room2Batch'[r]] \in {"armed", "firing", "queued"}
                              /\ Len(items'[room2Batch'[r]]) < MaxMergerBatchSize
      BY DEF OpenBatchesPending
    <2>1. CASE r = room
      <3>1. room2Batch'[r] = b /\ batchRoom'[b] = r /\ Len(items'[b]) = Len(items[b]) + 1
        BY <1>1, <1>3, <1>5, <1>7, <1>8, <2>1
      <3>2. CASE full
        BY <1>5, <1>9, <3>1, <3>2
      <3>3. CASE ~full
        BY <1>1, <1>8, <1>9, <3>1, <3>3
      <3> QED
        BY <3>2, <3>3
    <2>2. CASE r # room
      <3> DEFINE a == room2Batch[r]
      <3>1. room2Batch'[r] = a /\ a \in Ids
        BY <1>1, <1>3, <1>5, <2>2
      <3>2. /\ batchRoom[a] = r
            /\ commitTimer[a] \in {"armed", "firing", "queued"}
            /\ Len(items[a]) < MaxMergerBatchSize
        BY <1>1, <3>1 DEF IInv, OpenBatchesPending
      <3>3. a # b
        BY <1>7, <2>2, <3>2
      <3> QED
        BY <1>1, <1>5, <1>9, <3>1, <3>2, <3>3
    <2> QED
      BY <2>1, <2>2
  <1>15. BatchInHand'
    <2>1. CASE full
      <3>1. batch' = b /\ pc' = "full" /\ b # NoBatch
        BY <1>5, <1>7, <2>1, MergeAssumption DEF MergeAssumption
      <3>2. batchRoom'[b] = room
        BY <1>1, <1>5, <1>7
      <3>3. room2Batch'[room] = b
        BY <1>1, <1>3, <1>5
      <3>4. Len(items'[b]) = MaxMergerBatchSize
        <4>1. items'[b] = Append(items[b], context.msg)
          BY <1>1, <1>5, <1>7
        <4>2. Len(items[b]) + 1 = MaxMergerBatchSize
          BY <1>8, <2>1, MergeAssumption DEF MergeAssumption
        <4> QED
          BY <1>8, <4>1, <4>2
      <3> QED
        BY <1>3, <3>1, <3>2, <3>3, <3>4 DEF BatchInHand, IsOpen
    <2>2. CASE ~full
      BY <1>5, <2>2 DEF BatchInHand
    <2> QED
      BY <2>1, <2>2
  <1> QED
    BY <1>10, <1>11, <1>12, <1>13, <1>14, <1>15 DEF IInv

\* Every step preserves the invariant.
LEMMA Inductive == IInv /\ [Next]_vars => IInv'
  <1> SUFFICES ASSUME IInv, [Next]_vars PROVE IInv'
    OBVIOUS
  <1>1. ASSUME NEW r \in Rooms, Push(r) PROVE IInv'
    BY <1>1, PushIInv
  <1>2. CASE MergeClose \/ DispatchReceive \/ WorkerStop
    BY <1>2, OutsideIInv
  <1>3. ASSUME NEW b \in Ids, TimerFire(b) PROVE IInv'
    BY <1>3, TimerFireIInv
  <1>4. ASSUME NEW b \in Ids, AutoCommit(b) PROVE IInv'
    BY <1>4, AutoCommitIInv
  <1>5. CASE TakeContext
    BY <1>5, TakeContextIInv
  <1>6. CASE StopTimer
    BY <1>6, StopTimerIInv
  <1>7. CASE TakeTimeout
    BY <1>7, TakeTimeoutIInv
  <1>8. CASE CommitBatch
    BY <1>8, CommitBatchIInv
  <1>9. CASE UNCHANGED vars
    BY <1>9, StutterIInv
  <1> QED
    BY <1>1, <1>2, <1>3, <1>4, <1>5, <1>6, <1>7, <1>8, <1>9 DEF Next, Worker

\* The inductive invariant holds in every reachable state of a merge worker.
THEOREM InvariantHolds == Spec => []IInv
  BY InitIInv, Inductive, PTL DEF Spec

\* Every variable of the worker keeps its type and every channel its capacity.
THEOREM TypeCorrect == Spec => []TypeOK
  <1>1. IInv => TypeOK
    BY DEF IInv
  <1> QED
    BY <1>1, InvariantHolds, PTL

\* No message is stranded: an open batch always has a commit coming.
THEOREM OpenBatchesAreScheduled == Spec => []OpenBatchIsScheduled
  <1>1. IInv => OpenBatchIsScheduled
    <2> SUFFICES ASSUME IInv, NEW r \in Rooms, room2Batch[r] # NoBatch
                 PROVE  \/ commitTimer[room2Batch[r]] \in {"armed", "firing"}
                        \/ room2Batch[r] \in Range(timeoutChan)
                        \/ pc \in {"full", "commit"} /\ batch = room2Batch[r]
      BY DEF OpenBatchIsScheduled
    <2>1. room2Batch[r] \in Ids
      BY DEF IInv, TypeOK
    <2>2. CASE batch = room2Batch[r]
      BY <2>1, <2>2 DEF IInv, BatchInHand, TypeOK
    <2>3. CASE batch # room2Batch[r]
      BY <2>1, <2>3 DEF IInv, OpenBatchesPending, TimeoutsQueuedOnce
    <2> QED
      BY <2>2, <2>3
  <1> QED
    BY <1>1, InvariantHolds, PTL

\* A commit is never early: the batch is full or its own timer has run out,
\* and it is the open batch of its room.
THEOREM CommitsAreDue == Spec => []CommitIsDue
  <1>1. IInv => CommitIsDue
    BY DEF IInv, BatchInHand, IsOpen, CommitIsDue
  <1> QED
    BY <1>1, InvariantHolds, PTL
-----------------------------------------------------------------------------
(* A merge worker implements the queue per room of RoomFeed, and therefore *)
(* delivers what RoomFeed_proofs proves of that queue.  TakeContext is the *)
(* step Receive, CommitBatch the step Flush of a whole batch; every other  *)
(* step leaves the queues alone.                                           *)

OpenQueues == [r \in Rooms |-> OpenItems(r)]

\* The open batches, and the number of messages taken from contextChan, are
\* what the queues see of the worker.
LEMMA QueuesKept ==
  ASSUME UNCHANGED <<room2Batch, items, handed, lost>>, Received' = Received
  PROVE  UNCHANGED Feed!feedVars
  <1>1. \A r \in Rooms : OpenItems(r)' = OpenItems(r)
    BY DEF OpenItems
  <1>2. OpenQueues' = OpenQueues
    BY <1>1 DEF OpenQueues
  <1> QED
    BY <1>2 DEF Feed!feedVars, OpenQueues

\* The queues start empty.
LEMMA InitRefined == Init => Feed!FeedInit
  <1> SUFFICES ASSUME Init PROVE Feed!FeedInit
    OBVIOUS
  <1>1. Received = 0
    <2>1. contextChan = <<>>
      BY DEF Init
    <2>2. Len(contextChan) = 0
      BY <2>1
    <2>3. pushed = 0
      BY DEF Init
    <2> QED
      BY <2>2, <2>3 DEF Received
  <1>2. \A r \in Rooms : OpenItems(r) = <<>>
    BY DEF Init, OpenItems
  <1>3. handed = [r \in Rooms |-> <<>>] /\ lost = {}
    BY DEF Init
  <1>4. OpenQueues = [r \in Rooms |-> <<>>]
    BY <1>2 DEF OpenQueues
  <1> QED
    BY <1>1, <1>3, <1>4 DEF Feed!FeedInit, OpenQueues

\* The worker takes a message: it joins the end of its room's queue.
LEMMA TakeContextRefined ==
  ASSUME IInv, TakeContext PROVE \E r \in Rooms : Feed!Receive(r)
  <1> DEFINE context == Head(contextChan)
             room == context.room
             b == TargetBatch(context)
  <1>1. /\ contextChan \in Seq([room : Rooms, msg : Ids]) /\ contextChan # <<>>
        /\ pushed \in Nat /\ pushed <= MaxMsgs /\ MaxMsgs \in Nat
        /\ room2Batch \in [Rooms -> Ids \cup {NoBatch}] /\ items \in [Ids -> Seq(Ids)]
    <2>1. TypeOK
      BY DEF IInv
    <2>2. contextChan # <<>>
      BY DEF TakeContext
    <2>3. pushed \in Nat /\ pushed <= MaxMsgs /\ MaxMsgs \in Nat
      BY <2>1, MergeAssumption DEF TypeOK, MergeAssumption
    <2> QED
      BY <2>1, <2>2, <2>3 DEF TypeOK
  <1>2. /\ context \in [room : Rooms, msg : Ids] /\ context = contextChan[1]
        /\ Len(contextChan) \in Nat /\ Len(contextChan) >= 1
        /\ DOMAIN contextChan = 1..Len(contextChan)
        /\ Len(Tail(contextChan)) = Len(contextChan) - 1
    BY <1>1, TailOfSeq
  <1>3. Received \in Nat /\ Received < MaxMsgs /\ context.msg = Received + 1
    <2>1. Len(contextChan) <= pushed /\ contextChan[1].msg = Received + 1
      <3>1. 1 \in DOMAIN contextChan
        BY <1>2
      <3> QED
        BY <3>1 DEF IInv, ContextsInOrder
    <2>2. Received \in Nat /\ Received < MaxMsgs
      BY <1>1, <1>2, <2>1 DEF Received
    <2> QED
      BY <1>2, <2>1, <2>2
  <1>4. /\ pushed' = pushed /\ contextChan' = Tail(contextChan)
        /\ room2Batch' = [room2Batch EXCEPT ![room] = b]
        /\ items' = [items EXCEPT ![b] = Append(@, context.msg)]
        /\ handed' = handed /\ lost' = lost
    BY DEF TakeContext
  <1>5. Received' = Received + 1
    BY <1>1, <1>2, <1>4 DEF Received
  <1>6. room \in Rooms /\ context.msg \in Ids /\ b \in Ids /\ b # NoBatch
    <2>1. room \in Rooms /\ context.msg \in Ids
      BY <1>2
    <2> HIDE DEF context
    <2>2. room2Batch[room] \in Ids \cup {NoBatch}
      BY <1>1, <2>1
    <2>3. context.msg # NoBatch
      BY <1>3
    <2> QED
      BY <2>1, <2>2, <2>3 DEF TargetBatch
  <1> HIDE DEF context
  <1>7. items[b] = OpenItems(room)
    <2>1. CASE room2Batch[room] # NoBatch
      BY <2>1 DEF TargetBatch, OpenItems
    <2>2. CASE room2Batch[room] = NoBatch
      <3>1. b = context.msg /\ b > Received
        BY <1>3, <2>2 DEF TargetBatch
      <3>2. items[b] = <<>>
        BY <1>6, <3>1 DEF IInv, BatchesOpenedOnce
      <3> QED
        BY <2>2, <3>2 DEF OpenItems
    <2> QED
      BY <2>1, <2>2
  <1>8. \A q \in Rooms : q # room /\ room2Batch[q] # NoBatch => room2Batch[q] # b
    <2> SUFFICES ASSUME NEW q \in Rooms, q # room, room2Batch[q] # NoBatch,
                        room2Batch[q] = b
                 PROVE  FALSE
      OBVIOUS
    <2>1. batchRoom[b] = q /\ commitTimer[b] # "none"
      BY DEF IInv, OpenBatchesPending
    <2>2. CASE room2Batch[room] # NoBatch
      BY <1>6, <2>1, <2>2 DEF TargetBatch, IInv, OpenBatchesPending
    <2>3. CASE room2Batch[room] = NoBatch
      <3>1. b = context.msg /\ b > Received
        BY <1>3, <2>3 DEF TargetBatch
      <3>2. commitTimer[b] = "none"
        BY <1>6, <3>1 DEF IInv, BatchesOpenedOnce
      <3> QED
        BY <2>1, <3>2
    <2> QED
      BY <2>2, <2>3
  <1> HIDE DEF b, room
  <1>9. ASSUME NEW q \in Rooms, q = room
        PROVE  OpenItems(q)' = Append(OpenItems(q), Received + 1)
    <2>1. room2Batch'[q] = b /\ items'[b] = Append(items[b], context.msg)
      BY <1>1, <1>4, <1>6, <1>9
    <2>2. OpenItems(q)' = items'[b]
      BY <1>6, <2>1 DEF OpenItems
    <2> QED
      BY <1>3, <1>7, <1>9, <2>1, <2>2
  <1>10. ASSUME NEW q \in Rooms, q # room PROVE OpenItems(q)' = OpenItems(q)
    <2>1. room2Batch'[q] = room2Batch[q]
      BY <1>1, <1>4, <1>10
    <2>2. room2Batch[q] # NoBatch => items'[room2Batch[q]] = items[room2Batch[q]]
      BY <1>1, <1>4, <1>8, <1>10
    <2> QED
      BY <2>1, <2>2 DEF OpenItems
  <1>11. OpenQueues' = [OpenQueues EXCEPT ![room] = Append(@, Received + 1)]
    BY <1>6, <1>9, <1>10 DEF OpenQueues
  <1>12. Feed!Receive(room)
    BY <1>3, <1>4, <1>5, <1>11 DEF Feed!Receive, OpenQueues
  <1> QED
    BY <1>6, <1>12

\* The worker commits: the whole queue of the batch's room leaves.
LEMMA CommitBatchRefined ==
  ASSUME IInv, CommitBatch
  PROVE  \E r \in Rooms : \E n \in 1..MaxMergerBatchSize : Feed!Flush(r, n)
  <1> DEFINE room == batchRoom[batch]
             s == items[batch]
             n == Len(s)
  <1>1. /\ batch \in Ids /\ room \in Rooms /\ room2Batch[room] = batch
        /\ room2Batch \in [Rooms -> Ids \cup {NoBatch}] /\ items \in [Ids -> Seq(Ids)]
        /\ handed \in [Rooms -> Seq(Ids)]
    <2>1. TypeOK /\ BatchInHand /\ pc = "commit"
      BY DEF IInv, CommitBatch
    <2>2. batch # NoBatch
      BY <2>1 DEF BatchInHand
    <2> QED
      BY <2>1, <2>2 DEF TypeOK, BatchInHand, IsOpen
  <1>2. s \in Seq(Ids) /\ s # <<>> /\ n <= MaxMergerBatchSize
    <2>1. commitTimer[batch] # "none"
      BY <1>1 DEF IInv, OpenBatchesPending
    <2> QED
      BY <1>1, <2>1 DEF IInv, BatchesOpenedOnce
  <1>3. n \in 1..MaxMergerBatchSize
    <2>1. n \in Nat /\ n # 0
      <3> HIDE DEF s
      <3> QED
        BY <1>2
    <2> HIDE DEF n
    <2> QED
      BY <1>2, <2>1, MergeAssumption DEF MergeAssumption
  <1>4. /\ pushed' = pushed /\ contextChan' = contextChan /\ items' = items
        /\ room2Batch' = [room2Batch EXCEPT ![room] = NoBatch]
        /\ \/ handed' = [handed EXCEPT ![room] = @ \o s] /\ lost' = lost
           \/ lost' = lost \cup Range(s) /\ handed' = handed
    BY DEF CommitBatch, Dispatch
  <1>5. OpenQueues[room] = s
    BY <1>1 DEF OpenQueues, OpenItems
  <1>6. SubSeq(s, 1, n) = s /\ SubSeq(s, n + 1, Len(s)) = <<>>
    <2> HIDE DEF s
    <2>1. SubSeq(s, 1, n) = s
      BY <1>2
    <2>2. SubSeq(s, n + 1, Len(s)) = <<>>
      BY <1>2, SubSeqEmpty
    <2> QED
      BY <2>1, <2>2
  <1> HIDE DEF s, n, room
  <1>7. ASSUME NEW q \in Rooms
        PROVE  OpenItems(q)' = IF q = room THEN <<>> ELSE OpenItems(q)
    <2>1. room2Batch'[q] = IF q = room THEN NoBatch ELSE room2Batch[q]
      BY <1>1, <1>4
    <2> QED
      BY <1>4, <2>1 DEF OpenItems
  <1>8. OpenQueues' = [OpenQueues EXCEPT ![room] = <<>>]
    BY <1>1, <1>7 DEF OpenQueues
  <1>9. Received' = Received
    BY <1>4 DEF Received
  <1>10. Feed!Flush(room, n)
    <2>1. n <= Len(OpenQueues[room])
      BY <1>3, <1>5 DEF n
    <2>2. OpenQueues' = [OpenQueues EXCEPT
                           ![room] = SubSeq(@, n + 1, Len(@))]
      BY <1>5, <1>6, <1>8
    <2>3. \/ handed' = [handed EXCEPT ![room] = @ \o SubSeq(OpenQueues[room], 1, n)] /\ lost' = lost
          \/ lost' = lost \cup Range(SubSeq(OpenQueues[room], 1, n)) /\ handed' = handed
      BY <1>4, <1>5, <1>6
    <2> QED
      BY <1>9, <2>1, <2>2, <2>3 DEF Feed!Flush, Feed!Range, Range, OpenQueues
  <1> QED
    BY <1>1, <1>3, <1>10

\* Every step of the worker and its surroundings is a step of the queues, or
\* leaves them as they are.
LEMMA StepRefined == IInv /\ [Next]_vars => [Feed!FeedNext]_(Feed!feedVars)
  <1> SUFFICES ASSUME IInv, [Next]_vars PROVE [Feed!FeedNext]_(Feed!feedVars)
    OBVIOUS
  <1>1. ASSUME NEW r \in Rooms, Push(r) PROVE UNCHANGED Feed!feedVars
    <2>1. UNCHANGED <<room2Batch, items, handed, lost>>
      BY <1>1 DEF Push
    <2>2. Received' = Received
      <3>1. pushed \in Nat /\ contextChan \in Seq([room : Rooms, msg : Ids])
        BY DEF IInv, TypeOK
      <3>2. CASE pushed' = pushed /\ contextChan' = contextChan
        BY <3>2 DEF Received
      <3>3. CASE /\ pushed' = pushed + 1
                 /\ contextChan' = Append(contextChan, [room |-> r, msg |-> pushed + 1])
        BY <3>1, <3>3 DEF Received
      <3> QED
        BY <1>1, <3>2, <3>3 DEF Push
    <2> QED
      BY <2>1, <2>2, QueuesKept
  <1>2. CASE \/ MergeClose \/ DispatchReceive \/ WorkerStop \/ StopTimer \/ TakeTimeout
             \/ UNCHANGED vars
    <2>1. UNCHANGED <<room2Batch, items, handed, lost, pushed, contextChan>>
      BY <1>2 DEF MergeClose, DispatchReceive, WorkerStop, StopTimer, TakeTimeout, vars
    <2>2. Received' = Received
      BY <2>1 DEF Received
    <2> QED
      BY <2>1, <2>2, QueuesKept
  <1>3. ASSUME NEW b \in Ids, TimerFire(b) \/ AutoCommit(b) PROVE UNCHANGED Feed!feedVars
    <2>1. UNCHANGED <<room2Batch, items, handed, lost, pushed, contextChan>>
      BY <1>3 DEF TimerFire, AutoCommit
    <2>2. Received' = Received
      BY <2>1 DEF Received
    <2> QED
      BY <2>1, <2>2, QueuesKept
  <1>4. CASE TakeContext
    BY <1>4, TakeContextRefined DEF Feed!FeedNext
  <1>5. CASE CommitBatch
    BY <1>5, CommitBatchRefined DEF Feed!FeedNext
  <1> QED
    BY <1>1, <1>2, <1>3, <1>4, <1>5 DEF Next, Worker

\* A merge worker implements the queue per room.
THEOREM WorkerImplementsFeed == Spec => FeedRefined
  BY InitRefined, StepRefined, InvariantHolds, PTL DEF Spec, FeedRefined, Feed!FeedSpec

Queues == INSTANCE RoomFeed_proofs WITH
            received <- Received,
            pending <- [r \in Rooms |-> OpenItems(r)]

\* Every message the worker has received is in exactly one place, once, and the
\* messages of a room leave in the order in which they came.
THEOREM WorkerDeliversExactlyOnce == Spec => []ExactlyOnce
  <1>1. Queues!FeedSpec => []Queues!ExactlyOnce
    BY Queues!FeedExactlyOnce
  <1>2. Feed!FeedInit => Queues!FeedInit
    BY DEF Feed!FeedInit, Queues!FeedInit
  <1>3. [Feed!FeedNext]_(Feed!feedVars) => [Queues!FeedNext]_(Queues!feedVars)
    BY DEF Feed!FeedNext, Feed!feedVars, Feed!Receive, Feed!Flush, Feed!Range,
           Queues!FeedNext, Queues!feedVars, Queues!Receive, Queues!Flush, Queues!Range
  <1>4. Queues!ExactlyOnce => ExactlyOnce
    BY DEF ExactlyOnce, Feed!ExactlyOnce, Feed!InOrder, Feed!OnePlace, Feed!Log, Feed!Range,
           Queues!ExactlyOnce, Queues!InOrder, Queues!OnePlace, Queues!Log, Queues!Range
  <1> QED
    BY <1>1, <1>2, <1>3, <1>4, WorkerImplementsFeed, PTL
       DEF FeedRefined, Feed!FeedSpec, Queues!FeedSpec
=============================================================================
