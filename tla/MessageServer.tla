---------------------------- MODULE MessageServer ---------------------------
(***************************************************************************)
(* The message server as a whole: HTTP requests that carry several items,  *)
(* each item accepted or refused by the merge worker of its topic, the     *)
(* batches the merge workers hand to the connection manager, the fan-out   *)
(* of Dispatch, which this module extends, the queues of the clients, and  *)
(* the whole shutdown.                                                     *)
(* A merge worker takes the steps of RoomFeed that MergeWorker is shown to *)
(* implement; the rooms' members stay as they are (see RoomRegistry).      *)
(*                                                                         *)
(* A topic is a room, or All for the broadcasts.                           *)
(***************************************************************************)
EXTENDS Dispatch, SequencesExt

CONSTANTS
  Rooms, All,           \* the topics
  RoomBytes,            \* the bytes of each room's name
  MergerWorkerCount,    \* config: number of merge workers for rooms
  MergerChannelSize,    \* config: capacity of each contextChan
  MaxMergerBatchSize,   \* config: a batch of that size is committed at once
  Requests,             \* the HTTP requests that arrive,
  RequestTopic,         \*   the topic of each,
  ItemCount,            \*   and its number of items, 0 if it cannot be parsed
  Clients, Follows,     \* the connections, and the topics of each
  BucketOf,             \* the bucket of each
  WsOutChannelSize      \* config: capacity of each outChan

Topics == Rooms \cup {All}
Broadcaster == MergerWorkerCount
MergeWorkers == 0..MergerWorkerCount

ASSUME MessageServerAssumption ==
  /\ All \notin Rooms
  /\ MergerWorkerCount \in Nat \ {0}
  /\ RoomBytes \in [Rooms -> Seq(0..255)]
  /\ RequestTopic \in [Requests -> Topics]
  /\ ItemCount \in [Requests -> Nat]
  /\ Follows \in [Clients -> {s \in SUBSET Topics : All \in s}]
  /\ BucketOf \in [Clients -> Buckets]
  /\ MergerChannelSize \in Nat \ {0}
  /\ MaxMergerBatchSize \in Nat \ {0}
  /\ WsOutChannelSize \in Nat \ {0}

VARIABLES
  phase,        \* where main is before it closes the connection manager
  next,         \* the next item of a request; 0 before the request arrives
  origin,       \* history: per topic, the accepted items <<request, index>>
  refused,      \* history: the items that found a full contextChan
  contextChan,  \* per merge worker, the accepted items [topic, item]
  mergeStopped, \* the merge workers that have returned
  pending,      \* per topic, the items of its open batch
  batches,      \* the batches committed, in that order
  job,          \* for each accepted push job, its batch
  unread,       \* per client, how many messages wait in its outChan
  received      \* history: per client, the batches that entered its outChan

requestVars == <<next, origin, refused>>
mergeVars == <<mergeStopped, pending, batches, job>>
clientVars == <<unread, received>>
vars == <<phase, requestVars, contextChan, mergeVars, clientVars, managerVars>>

Init ==
  /\ phase = "running"
  /\ next = [q \in Requests |-> 0]
  /\ origin = [t \in Topics |-> <<>>]
  /\ refused = {}
  /\ contextChan = [w \in MergeWorkers |-> <<>>]
  /\ mergeStopped = {}
  /\ pending = [t \in Topics |-> <<>>]
  /\ batches = <<>>
  /\ job = <<>>
  /\ unread = [c \in Clients |-> 0]
  /\ received = [c \in Clients |-> <<>>]
  /\ DispatchInit
-----------------------------------------------------------------------------
(* The HTTP requests: handlePushAll and handlePushRoom.                    *)

IsServed(q) == 0 < next[q] /\ next[q] <= ItemCount[q]

\* A request arrives while the server listens.
StartRequest(q) ==
  /\ Alive
  /\ phase = "running"
  /\ next[q] = 0
  /\ next' = [next EXCEPT ![q] = 1]
  /\ UNCHANGED <<phase, origin, refused, contextChan, mergeVars, clientVars, managerVars>>

\* Mutant: the worker depends on how many items the topic has had.
WorkerOfSpreads(t) ==
  IF t = All THEN Broadcaster ELSE Len(origin[t]) % (MergerWorkerCount + 1)

\* MessageMerge.PushAll / PushRoom: the workerIdx of a room, a uint32 that does
\* not overflow, as it stays below the number of workers plus 255 * 33.
WorkerOf(t) ==
  IF t = All THEN Broadcaster
  ELSE FoldLeft(LAMBDA workerIdx, ch : (workerIdx + ch * 33) % MergerWorkerCount,
                0, RoomBytes[t])

\* Mutant: a refused item ends the request.
NextItemGivesUp(q, isFull) == IF isFull THEN ItemCount[q] + 1 ELSE next[q] + 1

\* The error of a push is ignored.
NextItem(q, isFull) == next[q] + 1

\* Mutant: one place too many.
IsFullOffByOne(w) == Len(contextChan[w]) > MergerChannelSize

IsFull(w) == Len(contextChan[w]) = MergerChannelSize

\* One round of the loop over msgArr: a non-blocking send to the worker's
\* contextChan; a full channel returns MergeChannelFull and the item is gone.
ServeItem(q) ==
  LET t == RequestTopic[q]
      w == WorkerOf(t)
      isFull == IsFull(w)
      entry == [topic |-> t, item |-> Len(origin[t]) + 1]
  IN  /\ Alive
      /\ IsServed(q)
      /\ next' = [next EXCEPT ![q] = NextItem(q, isFull)]
      /\ IF isFull
         THEN /\ refused' = refused \cup {<<q, next[q]>>}
              /\ UNCHANGED <<origin, contextChan>>
         ELSE /\ origin' = [origin EXCEPT ![t] = Append(@, <<q, next[q]>>)]
              /\ contextChan' = [contextChan EXCEPT ![w] = Append(@, entry)]
              /\ UNCHANGED refused
      /\ UNCHANGED <<phase, mergeVars, clientVars, managerVars>>
-----------------------------------------------------------------------------
(* The merge workers.                                                      *)

\* Mutant: the room keeps the batch that was committed.
CommitKeeps(t, items) ==
  /\ Push
  /\ batches' = Append(batches, [topic |-> t, items |-> items])
  /\ job' = IF accepted' > accepted THEN Append(job, Len(batches) + 1) ELSE job
  /\ pending' = pending

\* commitBatch: the batch is offered to the connection manager.
Commit(t, items) ==
  /\ Push
  /\ batches' = Append(batches, [topic |-> t, items |-> items])
  /\ job' = IF accepted' > accepted THEN Append(job, Len(batches) + 1) ELSE job
  /\ pending' = [pending EXCEPT ![t] = <<>>]

\* case context = <-contextChan: a batch that is full is committed at once.
TakeContext(w) ==
  LET context == Head(contextChan[w])
      items == Append(pending[context.topic], context.item)
  IN  /\ Alive
      /\ w \notin mergeStopped
      /\ contextChan[w] # <<>>
      /\ contextChan' = [contextChan EXCEPT ![w] = Tail(@)]
      /\ IF Len(items) >= MaxMergerBatchSize
         THEN Commit(context.topic, items)
         ELSE /\ pending' = [pending EXCEPT ![context.topic] = items]
              /\ UNCHANGED <<batches, job, managerVars>>
      /\ UNCHANGED <<phase, requestVars, mergeStopped, clientVars>>

\* Mutant: the timer of a batch is not started.
TimeoutDueNever(t) == FALSE

\* The timer of an open batch may fire at any time.
TimeoutDue(t) == pending[t] # <<>>

\* case timeoutBatch = <-timeoutChan, for a batch that is still open.
TakeTimeout(t) ==
  /\ Alive
  /\ WorkerOf(t) \notin mergeStopped
  /\ TimeoutDue(t)
  /\ Commit(t, pending[t])
  /\ UNCHANGED <<phase, requestVars, contextChan, mergeStopped, clientVars>>

\* case <-stopChan: what is queued or open stays there.
MergeStop(w) ==
  /\ Alive
  /\ phase = "mergeClosed"
  /\ w \notin mergeStopped
  /\ mergeStopped' = mergeStopped \cup {w}
  /\ UNCHANGED <<phase, requestVars, contextChan, pending, batches, job, clientVars, managerVars>>
-----------------------------------------------------------------------------
(* The connection manager and the clients.                                 *)

FanOutStep(d) ==
  /\ DispatchStep(d)
  /\ UNCHANGED <<phase, requestVars, contextChan, mergeVars, clientVars>>

\* The clients of bucket b that follow topic t.
Audience(b, t) == {c \in Clients : BucketOf[c] = b /\ t \in Follows[c]}

\* bucket.PushAll / PushRoom: SendMessage does not wait, and a client whose
\* outChan is full misses the message.
DeliverJob(w) ==
  LET k == job[pushJob[w]]
      reached == {c \in Audience(WorkerBucket[w], batches[k].topic) :
                    unread[c] < WsOutChannelSize}
  IN  /\ ExecuteJob(w)
      /\ unread' = [c \in Clients |-> IF c \in reached THEN unread[c] + 1 ELSE unread[c]]
      /\ received' = [c \in Clients |->
                        IF c \in reached THEN Append(received[c], k) ELSE received[c]]
      /\ UNCHANGED <<phase, requestVars, contextChan, mergeVars>>

JobWorkerStep(w) ==
  \/ DeliverJob(w)
  \/ /\ ReceiveJob(w) \/ JobStop(w)
     /\ UNCHANGED <<phase, requestVars, contextChan, mergeVars, clientVars>>

\* The write loop of a client's connection takes the next message.
WriteMessage(c) ==
  /\ Alive
  /\ unread[c] > 0
  /\ unread' = [unread EXCEPT ![c] = @ - 1]
  /\ UNCHANGED <<phase, requestVars, contextChan, mergeVars, received, managerVars>>
-----------------------------------------------------------------------------
(* The shutdown: start, after a signal.                                    *)

\* HttpServerClose: no new request is served ...
HttpServerClose ==
  /\ Alive
  /\ phase = "running"
  /\ phase' = "httpClosing"
  /\ UNCHANGED <<requestVars, contextChan, mergeVars, clientVars, managerVars>>

\* ... and Shutdown returns when those at work are done.  SocketConnectClose
\* leaves the established connections alone; MergeClose closes stopChan.
MergeClose ==
  /\ Alive
  /\ phase = "httpClosing"
  /\ \A q \in Requests : ~IsServed(q)
  /\ phase' = "mergeClosed"
  /\ UNCHANGED <<requestVars, contextChan, mergeVars, clientVars, managerVars>>

CloseConnectManager ==
  /\ phase = "mergeClosed"
  /\ ConnectManagerClose
  /\ UNCHANGED <<phase, requestVars, contextChan, mergeVars, clientVars>>
-----------------------------------------------------------------------------
MergeStep(w) ==
  TakeContext(w) \/ MergeStop(w) \/ \E t \in Topics : WorkerOf(t) = w /\ TakeTimeout(t)

Next ==
  \/ \E q \in Requests : StartRequest(q) \/ ServeItem(q)
  \/ \E w \in MergeWorkers : MergeStep(w)
  \/ \E d \in DispatchWorkers : FanOutStep(d)
  \/ \E w \in JobWorkers : JobWorkerStep(w)
  \/ \E c \in Clients : WriteMessage(c)
  \/ HttpServerClose \/ MergeClose \/ CloseConnectManager

\* Every goroutine that can run does, timers fire, and a channel serves those
\* who wait in turn.  Nothing is assumed of the clients.
Fairness ==
  /\ \A w \in MergeWorkers : WF_vars(MergeStep(w))
  /\ \A d \in DispatchWorkers : WF_vars(FanOutStep(d))
  /\ \A w \in JobWorkers : WF_vars(JobWorkerStep(w))

Spec == Init /\ [][Next]_vars
FairSpec == Spec /\ Fairness
-----------------------------------------------------------------------------
(* Properties.                                                             *)

TypeOK ==
  /\ phase \in {"running", "httpClosing", "mergeClosed"}
  /\ \A q \in Requests : next[q] \in 0..(ItemCount[q] + 1)
  /\ \A t \in Topics : origin[t] \in Seq(Requests \X Nat)
  /\ refused \subseteq Requests \X Nat
  /\ \A w \in MergeWorkers : Len(contextChan[w]) <= MergerChannelSize
  /\ mergeStopped \subseteq MergeWorkers
  /\ \A t \in Topics : Len(pending[t]) < MaxMergerBatchSize
  /\ \A k \in DOMAIN batches : Len(batches[k].items) \in 1..MaxMergerBatchSize
  /\ Len(job) = accepted
  /\ unread \in [Clients -> 0..WsOutChannelSize]

\* The items of a request, up to the one in hand, have each entered the order
\* of their topic once and in the order of the request, or were refused; a
\* refused item takes none of the later ones with it, and requests that are
\* served at the same time do not disturb each other.
ItemsAccountedFor ==
  \A q \in Requests : \A i \in 1..ItemCount[q] :
    LET order == origin[RequestTopic[q]]
        places == {n \in DOMAIN order : order[n] = <<q, i>>}
    IN  /\ i < next[q] /\ <<q, i>> \notin refused <=> Cardinality(places) = 1
        /\ \A n \in places, k \in DOMAIN order :
             order[k][1] = q /\ order[k][2] < i => k < n

\* What a message server promises (module Broadcast), whatever the number of
\* workers.
B == INSTANCE Broadcast WITH published <- [t \in Topics |-> Len(origin[t])], got <- received
BroadcastImplemented == B!BroadcastSpec

\* With one dispatch worker and one job worker for each bucket a client gets the
\* items of a topic in the order in which they were accepted, from one request
\* or several.  (The default configuration has more workers.)
ItemsInOrder ==
  /\ Cardinality(DispatchWorkers) = 1
  /\ \A w, v \in JobWorkers : WorkerBucket[w] = WorkerBucket[v] => w = v
  =>
    \A c \in Clients : \A i, k \in DOMAIN received[c] :
      LET earlier == batches[received[c][i]]
          later == batches[received[c][k]]
      IN  i < k /\ earlier.topic = later.topic =>
            \A m \in DOMAIN earlier.items, n \in DOMAIN later.items :
              earlier.items[m] < later.items[n]

\* The batches that found a full dispatchChan.
LostBatches == DOMAIN batches \ {job[j] : j \in DOMAIN job}

\* Item n of topic t has been pushed to every bucket, or its batch was lost.
Settled(t, n) ==
  \E k \in DOMAIN batches :
    /\ batches[k].topic = t
    /\ \E i \in DOMAIN batches[k].items : batches[k].items[i] = n
    /\ \/ k \in LostBatches
       \/ \A b \in Buckets : \E i \in DOMAIN executed[b] : job[executed[b][i]] = k

\* Every accepted item is settled in the end, unless main closes the merger: no
\* item stays behind in an open batch, and no client that does not read holds the
\* others up.  (Requests are finitely many here, and what is settled stays so.)
EveryItemSettles ==
  []<>(phase = "mergeClosed" \/ \A t \in Topics : \A n \in DOMAIN origin[t] : Settled(t, n))
=============================================================================
