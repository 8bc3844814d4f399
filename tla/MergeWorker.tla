----------------------------- MODULE MergeWorker -----------------------------
(***************************************************************************)
(* One merge worker of the message server: the goroutine mergeWorkerMain,  *)
(* the callers that push into its contextChan, the commit timers of its    *)
(* batches (each fires in a goroutine of its own) and the queue of the     *)
(* connection manager it commits to.                                       *)
(*                                                                         *)
(* A message is named by its place in the order in which contextChan       *)
(* accepted it; a batch (a *PushBatch) is named by the message that opened *)
(* it, so a pointer never names two batches.  The broadcast worker         *)
(* (PUSH_TYPE_ALL) is the case of a single room: pushAll leaves            *)
(* context.room empty and allBatch plays the part of room2Batch[""].       *)
(***************************************************************************)
EXTENDS Naturals, Sequences, Functions

CONSTANTS
  Rooms,                \* room names hashed to this worker
  NoRoom,               \* the zero value of batch.room
  MaxMsgs,              \* bound on the number of accepted messages
  MaxMergerBatchSize,   \* config: a batch of this size is committed at once
  MergerChannelSize,    \* config: capacity of contextChan and of timeoutChan
  DispatchChannelSize   \* config: capacity of the manager's dispatchChan

ASSUME MergeAssumption ==
  /\ MaxMsgs \in Nat
  /\ MaxMergerBatchSize \in Nat \ {0}
  /\ MergerChannelSize \in Nat \ {0}
  /\ DispatchChannelSize \in Nat \ {0}

VARIABLES
  pushed,        \* number of messages contextChan has accepted
  contextChan,   \* channel of [room, msg], buffered
  timeoutChan,   \* channel of batches whose timer has fired, buffered
  room2Batch,    \* the open batch of each room, or NoBatch
  items,         \* batch.items
  batchRoom,     \* batch.room
  commitTimer,   \* state of batch.commitTimer
  pc,            \* where mergeWorkerMain is
  batch,         \* its local variable batch, NoBatch in the select
  dispatchChan,  \* channel of [roomId, items] of the connection manager
  stopChan,      \* "open" or "closed"; nothing is ever sent on it
  handed,        \* history: messages of each room put in dispatchChan
  lost           \* history: messages of batches dispatchChan had no place for

vars == <<pushed, contextChan, timeoutChan, room2Batch, items, batchRoom,
          commitTimer, pc, batch, dispatchChan, stopChan, handed, lost>>

Ids == 1..MaxMsgs
NoBatch == 0

\* The life of a commit timer.  "none": the batch does not exist yet.
\* "armed": time.AfterFunc is waiting.  "firing": autoCommit runs and waits
\* for a place in timeoutChan.  "queued": the batch is in timeoutChan.
\* "expired": the worker has received it.  "stopped": Stop came in time.
TimerStates == {"none", "armed", "firing", "queued", "expired", "stopped"}

Init ==
  /\ pushed = 0
  /\ contextChan = <<>>
  /\ timeoutChan = <<>>
  /\ room2Batch = [r \in Rooms |-> NoBatch]
  /\ items = [b \in Ids |-> <<>>]
  /\ batchRoom = [b \in Ids |-> NoRoom]
  /\ commitTimer = [b \in Ids |-> "none"]
  /\ pc = "select"
  /\ batch = NoBatch
  /\ dispatchChan = <<>>
  /\ stopChan = "open"
  /\ handed = [r \in Rooms |-> <<>>]
  /\ lost = {}
-----------------------------------------------------------------------------
(* The callers.                                                            *)

\* pushRoom / pushAll: a non-blocking send; a full channel returns
\* MergeChannelFull and the message is gone.
Push(r) ==
  /\ pushed < MaxMsgs
  /\ \/ /\ Len(contextChan) < MergerChannelSize
        /\ pushed' = pushed + 1
        /\ contextChan' = Append(contextChan, [room |-> r, msg |-> pushed + 1])
     \/ /\ Len(contextChan) = MergerChannelSize
        /\ UNCHANGED <<pushed, contextChan>>
  /\ UNCHANGED <<timeoutChan, room2Batch, items, batchRoom, commitTimer, pc,
                 batch, dispatchChan, stopChan, handed, lost>>

\* MergeClose: stopChan is closed once, and stays readable.
MergeClose ==
  /\ stopChan = "open"
  /\ stopChan' = "closed"
  /\ UNCHANGED <<pushed, contextChan, timeoutChan, room2Batch, items,
                 batchRoom, commitTimer, pc, batch, dispatchChan, handed, lost>>

\* A dispatch worker of the connection manager receives a job.
DispatchReceive ==
  /\ dispatchChan # <<>>
  /\ dispatchChan' = Tail(dispatchChan)
  /\ UNCHANGED <<pushed, contextChan, timeoutChan, room2Batch, items,
                 batchRoom, commitTimer, pc, batch, stopChan, handed, lost>>
-----------------------------------------------------------------------------
(* The commit timers.                                                      *)

TimerFire(b) ==
  /\ commitTimer[b] = "armed"
  /\ commitTimer' = [commitTimer EXCEPT ![b] = "firing"]
  /\ UNCHANGED <<pushed, contextChan, timeoutChan, room2Batch, items,
                 batchRoom, pc, batch, dispatchChan, stopChan, handed, lost>>

\* Mutant: the timeout is dropped while timeoutChan is full.
AutoCommitDrops(b) ==
  /\ commitTimer[b] = "firing"
  /\ timeoutChan' = IF Len(timeoutChan) < MergerChannelSize
                    THEN Append(timeoutChan, b) ELSE timeoutChan
  /\ commitTimer' = [commitTimer EXCEPT ![b] =
                       IF Len(timeoutChan) < MergerChannelSize THEN "queued" ELSE "expired"]
  /\ UNCHANGED <<pushed, contextChan, room2Batch, items, batchRoom, pc,
                 batch, dispatchChan, stopChan, handed, lost>>

\* autoCommit: the send blocks while timeoutChan is full.
AutoCommit(b) ==
  /\ commitTimer[b] = "firing"
  /\ Len(timeoutChan) < MergerChannelSize
  /\ timeoutChan' = Append(timeoutChan, b)
  /\ commitTimer' = [commitTimer EXCEPT ![b] = "queued"]
  /\ UNCHANGED <<pushed, contextChan, room2Batch, items, batchRoom, pc,
                 batch, dispatchChan, stopChan, handed, lost>>
-----------------------------------------------------------------------------
(* The worker: one iteration of the select loop.                           *)

\* Mutant: every message opens a batch.
TargetBatchNew(context) == context.msg

\* The open batch of the context's room, or a new one.
TargetBatch(context) ==
  IF room2Batch[context.room] # NoBatch
  THEN room2Batch[context.room] ELSE context.msg

\* case context = <-contextChan: append the message to the batch of its room,
\* open the batch and start its timer if there is none; a batch that is not
\* full sends the worker back to the select.
TakeContext ==
  LET context == Head(contextChan)
      b == TargetBatch(context)
      isCreated == room2Batch[context.room] = NoBatch
      full == Len(items[b]) + 1 >= MaxMergerBatchSize
  IN  /\ pc = "select"
      /\ contextChan # <<>>
      /\ contextChan' = Tail(contextChan)
      /\ room2Batch' = [room2Batch EXCEPT ![context.room] = b]
      /\ items' = [items EXCEPT ![b] = Append(@, context.msg)]
      /\ batchRoom' = [batchRoom EXCEPT ![b] = context.room]
      /\ commitTimer' = IF isCreated
                        THEN [commitTimer EXCEPT ![b] = "armed"]
                        ELSE commitTimer
      /\ pc' = IF full THEN "full" ELSE "select"
      /\ batch' = IF full THEN b ELSE NoBatch
      /\ UNCHANGED <<pushed, timeoutChan, dispatchChan, stopChan, handed, lost>>

\* batch.commitTimer.Stop(): without effect on a timer that has fired.
StopTimer ==
  /\ pc = "full"
  /\ commitTimer' = [commitTimer EXCEPT ![batch] =
                       IF @ = "armed" THEN "stopped" ELSE @]
  /\ pc' = "commit"
  /\ UNCHANGED <<pushed, contextChan, timeoutChan, room2Batch, items,
                 batchRoom, batch, dispatchChan, stopChan, handed, lost>>

\* Mutant: any open batch of the room will do.
IsOpenAny(b) == room2Batch[batchRoom[b]] # NoBatch

\* The batch of a timeout is committed only while it is still the open batch
\* of its room; otherwise it was committed before its timer was received.
IsOpen(b) == room2Batch[batchRoom[b]] = b

\* case timeoutBatch = <-timeoutChan
TakeTimeout ==
  LET timeoutBatch == Head(timeoutChan)
  IN  /\ pc = "select"
      /\ timeoutChan # <<>>
      /\ timeoutChan' = Tail(timeoutChan)
      /\ commitTimer' = [commitTimer EXCEPT ![timeoutBatch] = "expired"]
      /\ pc' = IF IsOpen(timeoutBatch) THEN "commit" ELSE "select"
      /\ batch' = IF IsOpen(timeoutBatch)
                  THEN room2Batch[batchRoom[timeoutBatch]] ELSE NoBatch
      /\ UNCHANGED <<pushed, contextChan, room2Batch, items, batchRoom,
                     dispatchChan, stopChan, handed, lost>>

\* Mutant: one place too many.
DispatchOneTooMany(r, s) ==
  /\ Len(dispatchChan) <= DispatchChannelSize
  /\ dispatchChan' = Append(dispatchChan, [roomId |-> r, items |-> s])
  /\ handed' = [handed EXCEPT ![r] = @ \o s]
  /\ UNCHANGED lost

\* ConnectionManager.PushRoom / PushAll: a non-blocking send; a full channel
\* returns DisPatchChannelFull, which the worker only logs.
Dispatch(r, s) ==
  \/ /\ Len(dispatchChan) < DispatchChannelSize
     /\ dispatchChan' = Append(dispatchChan, [roomId |-> r, items |-> s])
     /\ handed' = [handed EXCEPT ![r] = @ \o s]
     /\ UNCHANGED lost
  \/ /\ Len(dispatchChan) = DispatchChannelSize
     /\ lost' = lost \cup Range(s)
     /\ UNCHANGED <<dispatchChan, handed>>

\* Mutant: the room keeps the batch that was committed.
CommitBatchKeeps ==
  /\ pc = "commit"
  /\ Dispatch(batchRoom[batch], items[batch])
  /\ pc' = "select"
  /\ batch' = NoBatch
  /\ UNCHANGED <<pushed, contextChan, timeoutChan, room2Batch, items, batchRoom,
                 commitTimer, stopChan>>

\* commitBatch: the room is closed before the outcome of the push is known.
CommitBatch ==
  /\ pc = "commit"
  /\ room2Batch' = [room2Batch EXCEPT ![batchRoom[batch]] = NoBatch]
  /\ Dispatch(batchRoom[batch], items[batch])
  /\ pc' = "select"
  /\ batch' = NoBatch
  /\ UNCHANGED <<pushed, contextChan, timeoutChan, items, batchRoom,
                 commitTimer, stopChan>>

\* case <-stopChan: whatever is still queued or open stays there.
WorkerStop ==
  /\ pc = "select"
  /\ stopChan = "closed"
  /\ pc' = "done"
  /\ UNCHANGED <<pushed, contextChan, timeoutChan, room2Batch, items,
                 batchRoom, commitTimer, batch, dispatchChan, stopChan,
                 handed, lost>>

Worker == TakeContext \/ StopTimer \/ TakeTimeout \/ CommitBatch \/ WorkerStop
-----------------------------------------------------------------------------
Next ==
  \/ \E r \in Rooms : Push(r)
  \/ MergeClose
  \/ DispatchReceive
  \/ \E b \in Ids : TimerFire(b) \/ AutoCommit(b)
  \/ Worker

\* The Go scheduler runs every goroutine that can run, and an armed timer
\* fires.  Callers, shutdown and the connection manager owe nothing.
Fairness ==
  /\ WF_vars(Worker)
  /\ \A b \in Ids : WF_vars(TimerFire(b)) /\ WF_vars(AutoCommit(b))

Spec == Init /\ [][Next]_vars
FairSpec == Spec /\ Fairness
-----------------------------------------------------------------------------
(* Properties.                                                             *)

OpenItems(r) == IF room2Batch[r] = NoBatch THEN <<>> ELSE items[room2Batch[r]]

\* Messages the worker has received from contextChan: contextChan is a FIFO,
\* so they are the first ones.
Received == pushed - Len(contextChan)

TypeOK ==
  /\ pushed \in 0..MaxMsgs
  /\ contextChan \in Seq([room : Rooms, msg : Ids])
  /\ Len(contextChan) <= MergerChannelSize
  /\ timeoutChan \in Seq(Ids)
  /\ Len(timeoutChan) <= MergerChannelSize
  /\ room2Batch \in [Rooms -> Ids \cup {NoBatch}]
  /\ items \in [Ids -> Seq(Ids)]
  /\ batchRoom \in [Ids -> Rooms \cup {NoRoom}]
  /\ commitTimer \in [Ids -> TimerStates]
  /\ pc \in {"select", "full", "commit", "done"}
  /\ batch \in Ids \cup {NoBatch}
  /\ dispatchChan \in Seq([roomId : Rooms, items : Seq(Ids)])
  /\ Len(dispatchChan) <= DispatchChannelSize
  /\ stopChan \in {"open", "closed"}
  /\ handed \in [Rooms -> Seq(Ids)]
  /\ lost \subseteq Ids

\* No message is stranded in a batch: whatever the order in which timers fire,
\* are stopped and are received, an open batch always has a commit coming, by
\* its own timer (waiting, firing, or received later from timeoutChan) or by
\* the worker that is committing it now.
OpenBatchIsScheduled ==
  \A r \in Rooms : LET b == room2Batch[r] IN b # NoBatch =>
    \/ commitTimer[b] \in {"armed", "firing"}
    \/ b \in Range(timeoutChan)
    \/ pc \in {"full", "commit"} /\ batch = b

\* A stale timeout never cuts a later batch short: the worker commits only the
\* open batch of a room, and only when that batch is full or its own timer,
\* not the timer of an earlier batch of the room, has been received.
CommitIsDue ==
  pc = "commit" =>
    /\ room2Batch[batchRoom[batch]] = batch
    /\ \/ Len(items[batch]) = MaxMergerBatchSize
       \/ commitTimer[batch] = "expired"

\* The worker implements the abstract queue per room, with the open batch as
\* the queue: first in first out within a room, whole batches, no overtaking.
Feed == INSTANCE RoomFeed WITH
          received <- Received,
          pending <- [r \in Rooms |-> OpenItems(r)]

FeedRefined == Feed!FeedSpec

\* Every message the worker received is in exactly one place, the open batch
\* of one room, the jobs handed to the connection manager, or the batches lost
\* to a full dispatchChan, and in that place once; and the messages of a room
\* are handed over in the order in which they were received.
ExactlyOnce == Feed!ExactlyOnce

\* Every message accepted from a caller is handed over or lost to a full
\* dispatchChan in the end, unless the worker is told to stop.
EveryMessageSettles ==
  \A n \in Ids :
    n <= pushed ~> (stopChan = "closed" \/ n \in lost \/ \E r \in Rooms : n \in Range(handed[r]))
-----------------------------------------------------------------------------
(* The inductive invariant behind TypeOK, OpenBatchIsScheduled and           *)
(* CommitIsDue (proved in MergeWorker_proofs).                               *)

\* contextChan holds the last messages accepted, in order, so the message at
\* its head is new to the worker.
ContextsInOrder ==
  /\ Len(contextChan) <= pushed
  /\ \A i \in DOMAIN contextChan : contextChan[i].msg = Received + i

\* A message the worker has not received yet has opened no batch; a batch that
\* was opened has a timer, a room and items, but never too many.
BatchesOpenedOnce ==
  \A b \in Ids :
    /\ b > Received => commitTimer[b] = "none" /\ items[b] = <<>>
    /\ commitTimer[b] # "none" => batchRoom[b] \in Rooms /\ items[b] # <<>>
    /\ Len(items[b]) <= MaxMergerBatchSize

\* timeoutChan holds the batches whose timer has fired, each once.
TimeoutsQueuedOnce ==
  /\ \A i, j \in DOMAIN timeoutChan : timeoutChan[i] = timeoutChan[j] => i = j
  /\ \A b \in Ids : commitTimer[b] = "queued" <=> b \in Range(timeoutChan)

\* The open batch of a room is not full and its timer is still to be received,
\* unless the worker has it in its hands.
OpenBatchesPending ==
  \A r \in Rooms : LET b == room2Batch[r] IN b # NoBatch =>
    /\ batchRoom[b] = r
    /\ commitTimer[b] # "none"
    /\ \/ batch = b
       \/ /\ commitTimer[b] \in {"armed", "firing", "queued"}
          /\ Len(items[b]) < MaxMergerBatchSize

\* What the worker has in its hands is an open batch, and due.
BatchInHand ==
  /\ batch = NoBatch <=> pc \in {"select", "done"}
  /\ batch # NoBatch =>
       /\ batchRoom[batch] \in Rooms
       /\ IsOpen(batch)
       /\ \/ Len(items[batch]) = MaxMergerBatchSize
          \/ pc = "commit" /\ commitTimer[batch] = "expired"

IInv ==
  /\ TypeOK
  /\ ContextsInOrder
  /\ BatchesOpenedOnce
  /\ TimeoutsQueuedOnce
  /\ OpenBatchesPending
  /\ BatchInHand
=============================================================================
