# A verification of message-center

message-center delivers notifications. A *logic server* takes messages from HTTP
callers and from a message database, and pushes them to every *message server*;
a message server merges them into batches and sends the batches to the
WebSocket clients that are connected to it. This directory holds TLA+ models of
the concurrent core of both servers, the TLC configurations that check
them, and proofs checked by TLAPS. Paths below are relative to `src/`, and
`web-socket/` stands for `pkg/message-server/web-socket/`.

    tlc -workers 2 -config MergeWorker.cfg MCMergeWorker.tla
    tlapm MergeWorker_proofs.tla

## 1. The system

### The way of a message

    HTTP caller / message database
      -> logic server: PushAll, PushRoom         one dispatchChan, drop when full
      -> one POST per message server             (at most N pending per server, retried)
      -> message server: handlePushAll/PushRoom  one Merger.Push per item
      -> merge worker of the room                contextChan, drop when full
      -> batch: committed when full or in time   timeoutChan, one timer per batch
      -> connection manager: PushAll, PushRoom   dispatchChan, drop when full
      -> a dispatch worker                       offers the job to every bucket in turn
      -> jobChan[bucket], a job worker           waits when full
      -> the bucket's connections, or its room's
      -> WSConnection.SendMessage                outChan, drop when full
      -> writeLoop -> client

A client connects to the WebSocket port and sends PING, JOIN and LEAVE:
`readLoop` -> inChan -> `WSHandle` (handler) -> its bucket and room. A
`heartbeatChecker` per connection closes it when the PINGs stop.

### Components, their state and their operations

| Component | Source | State | Operations | Correct when | Model |
|---|---|---|---|---|---|
| merge worker | `web-socket/worker.go` | contextChan, timeoutChan, room2Batch / allBatch, batches with timers | pushRoom, pushAll, autoCommit, mergeWorkerMain, commitBatch | no message is stranded, duplicated or overtaken; a batch ends only when full or when its own time is up | `MergeWorker`, `RoomFeed` |
| merger | `web-socket/merge.go` | the workers | PushAll, PushRoom (hash of the room), MergeClose | a room always goes to one worker | `MessageServer` |
| connection manager | `web-socket/connect_manager.go` | buckets, dispatchChan, jobChan per bucket, stopChan | PushAll, PushRoom, dispatchWorkerMain, jobWorkerMain, ConnectManagerClose, AddConn, DelConn, JoinRoom, LeaveRoom | each bucket gets each job once; nothing waits in a circle; shutdown is orderly | `Dispatch`, `MessageServer`; the last four in `RoomRegistry` |
| bucket, room | `web-socket/bucket.go`, `room.go` | id2Conn and rooms of a bucket, id2Conn of a room, one lock each | AddConn, DelConn, JoinRoom, LeaveRoom, PushAll, PushRoom / Join, Leave, Count, Push | rooms and connections agree on who is in which room; empty rooms go; a push reaches the members | `RoomRegistry` |
| connection | `web-socket/connect.go` | inChan, outChan, closeChan, mutex, isClosed, lastHeartbeatTime, rooms | readLoop, writeLoop, SendMessage, ReadMessage, Close, IsAlive, KeepAlive | closed once; order of requests and of messages kept; no goroutine stays behind | `Connection` |
| request handler | `web-socket/handler.go` | — | WSHandle, handlePing, handleJoin, handleLeave, leaveAll, heartbeatChecker | limit of rooms; leaves everything it joined; silent clients are closed, others are not (but for a margin) | `Connection`, `RoomRegistry`, `Heartbeat` |
| endpoint | `web-socket/endpoint.go` | connection counter | handleConnect | connIds are unique (atomic add) | action `Connect` of `RoomRegistry` |
| HTTP interface | `pkg/message-server/http_server.go` | — | handlePushAll, handlePushRoom, HttpServerClose | the items of a request are accepted or refused each for itself, in their order | `MessageServer` |
| message server main | `cmd/message/start.go` | — | start-up, shutdown | shutdown is orderly | `MessageServer`, `Dispatch` |
| logic server push | `pkg/logic-server/push/` | dispatchChan, pending slots, connections | HTTP handlers, PushAll, PushRoom, dispatchWorkerMain, doPush, MessageConnectClose | slots neither leak nor are released twice; a job is settled for every server | `LogicPush` |
| message processing | `pkg/logic-server/process-message/` | the locals of a round; the stored messages | the ticker's body, Close | nothing skipped, nothing sent again without need, the stored result is true | `ProcessMessage` |
| clients of e-mail, queue and database | `pkg/email-client`, `pkg/mq`, `pkg/mongodb` | — | SendEmail, SendMessage, NewSession, Close | a mail that was not sent is reported; a queue message is lost unreported only by a connection or a broker that fails after the frame was queued | `ProcessMessage` |
| logic server main | `cmd/logic/start.go` | — | start-up, shutdown | shutdown is orderly, nothing stays unprocessed | `ProcessMessage`, `LogicPush` |
| types, configuration | `pkg/types`, `cmd/*/config`, `pkg/configuration` | — | — | — | not modelled, see section 7 |

The goroutines share memory and channels of limited size. Buffered channels are
sequences with a capacity; a `select` with a `default` refuses when the channel
is full, a plain send waits. A `select` with several ready cases may take any
of them, and the models leave that choice open.

### What is hard about it

`PROJECT.json` lists the hazards with their lines. In short: timers that fire
while their batch is being committed (`worker.go:82-110`); a room pointer used
after the bucket's lock was released (`bucket.go:116-134`); rooms that are dropped and
made anew while membership is kept in two places (`handler.go:137-206`); four goroutines that
may all close one connection (`connect.go:109-120`); bounded channels
everywhere, some of which wait and some of which drop; shutdown while everything
runs (`connect_manager.go:205-210`, `pkg/logic-server/push/connect_manager.go:142-145`);
posts that are repeated though the first may still arrive (`push/connect.go:65-72`); a process that
ends between sending a message and storing that it was sent, and a document that is
written back long after it was read (`process.go:60-137`); sends that fail unnoticed or never
return (`mq_controller.go:52-67`, `email.go:107-189`); a clock that is read before the mutex is
taken (`connect.go:122-147`).

## 2. The modules

### RoomFeed — what a merge worker promises

One queue per room. `Receive(r)` appends the next message, `Flush(r, n)` removes
the n oldest as one batch, which is handed to the connection manager whole or
lost whole. `ExactlyOnce` says that every received message is in exactly one
place, and that a room's messages never overtake each other.

### MergeWorker — one merge worker

The goroutine `mergeWorkerMain`, its callers, the `time.AfterFunc` goroutine of
each batch, and the manager's dispatchChan. A message is named by the order in
which contextChan accepted it, a batch by the message that opened it; the
pointer comparison of the code (`worker.go:95`) is the comparison of these names.

- `Push`: the non-blocking send (`worker.go:155-186`).
- `TakeContext`, `StopTimer`, `TakeTimeout`, `CommitBatch`, `WorkerStop`: the
  select loop (`worker.go:46-117`) and `commitBatch` (`worker.go:125-153`). Receiving
  and appending is one step, since room2Batch and the batch are private to the
  goroutine; `Stop` and the commit are steps of their own, because the timer
  may fire in between.
- `TimerFire`, `AutoCommit`: the timer goroutine; its send waits while
  timeoutChan is full (`worker.go:119-123`).
- A timer has the states none, armed, firing, queued, expired, stopped. `Stop` on
  a timer that has fired does nothing, so a batch already committed may still
  be put in timeoutChan. `TakeTimeout` must tell it from the open batch.

The broadcast worker is the same code with a single batch: it is the case of one
room. `commitBatch` cannot fail to encode items that were parsed from JSON, so
that error path is left out. Timers that are armed when the worker stops still
fire; their goroutines wait for ever once timeoutChan is full.

`FeedRefined` states that `MergeWorker` implements `RoomFeed` with
`pending[r]` = the items of room r's open batch and `received` = the messages
taken from contextChan.

### RoomRegistry — who is in which room

Handlers that connect, join, leave, fail and disconnect, and job workers that run
`Bucket.PushRoom` in its two halves: `PushRoomLookup` under the bucket's read
lock, `PushRoomSend` under the room's. `JoinRoom` and `LeaveRoom` hold the
bucket's lock throughout and are one step each, together with the change of the
connection's own room set, which only its handler touches. Rooms have addresses:
a room that is dropped while a job worker holds it keeps its address, and a new
room of the same name gets another one; an address is used again only when
nothing refers to it (`Collected`). `stable` is a history variable: who has been
in the room ever since the worker looked it up. `Bucket.PushAll` reads id2Conn
under the bucket's lock and changes nothing here.

### Dispatch — the fan-out

`Push`, the dispatch workers (`TakeJob`, `SendToBucket` for one bucket after the
other, `DispatchStop`), the job workers (`ReceiveJob`, `ExecuteJob`, `JobStop`)
and `ConnectManagerClose`, one step for each of its three statements and one for
the end of main. A dispatch worker that waits for a full jobChan is outside its
select, so stopChan does not wake it. A receive from the closed dispatchChan
yields nil (`TakeNilJob`), a send on it panics (`Push`); either ends the process. The
names that every module has begin with `Dispatch` here, since `MessageServer` extends this one.

### Connection — four goroutines, one connection

Reader, writer, handler and checker with one program counter each, the two data
channels, the mutex and `closeChan`. `Close` is four steps for whoever calls it:
close the socket, take the mutex, close closeChan if isClosed is not set yet,
release the mutex. A request is a PING, one that is not answered, or a bad one; a
message is a pushed one or a PONG. Time is left out: the heartbeat may be too
old at any moment (`TimerFires(TRUE)`); `Heartbeat` has the clock.

### Heartbeat — the checker in time

A clock, `lastHeartbeatTime`, the checker's timer, and the two halves of `KeepAlive`
(`ReceivePing`, `KeepAlive`) and of `IsAlive` (`TimerFires`, `IsAlive`): both read the clock
before they take the connection's mutex. After the check the checker closes (`Close`) or starts
its timer again (`ResetTimer`, which also stands for the `NewTimer` it begins with). `Tick`
passes time wherever the two goroutines are, up to `MaxDelay`: so long may a PING take from
its clock to its store, the checker from its timer to its clock, and from its clock to the end
of its turn. `pinged` and `widest` are history variables: when the handler's clock was read for
the last PING, and the longest time between two of them.

### LogicPush — the logic server's fan-out

`Push` (an HTTP request or the message processing; `Enqueue` is the non-blocking
send of `PushAll` and `PushRoom`), the dispatch workers (`TakeJob`, `Offer` for one
message server after the other, `FanOutEnds`, `DispatchStop`), and one goroutine
`doPush` per job and server that got a slot of pendingChan: `StartPush` reads
ServerConns, `PostAnswered` and `PostFails` end one try, `ReleaseSlot` gives the slot
back. The message server and the network are external: the server handles the post
the client waits for (`ServerHandles`), or the post is refused or lost. A post that the
client gives up may still arrive later; it counts as arrived when it is given up,
since nothing in the model depends on when. The client's timeout is what makes every
try end. `len(ServerConns)` is read in every round of the loop, so the loop ends early
when `MessageConnectClose` sets it to nil; a doPush that reads it then panics.

### ProcessMessage — the message processing of the logic server

The ticker goroutine with the locals of a round (`todo`, `ms`, `idx`, `failed`, `scg`), the
stored messages, and `main` in its shutdown. A round reads what is unread and not
processed (`StartRound`), takes the messages newest first (`NextMessage`), sends
each to its addresses one by one (`SendEmails`) and to the queue (`SendMq`), collects
it for the sockets (`Collect`, with the `continue` that leaves a message without
addresses unstored), and replaces its document (`Update`). Then it pushes what was
collected (`PushRoom`) and waits for the next tick (`EndRound`). Other services create
messages and users read them at any time (`Create`, `Read`); the process may end at
every step (`Crash`, `Exit`) and is started again (`Restart`).

`SendEmail` and `SendMessage` are the sets of what may come of a call: whether the mail or
message went out, and whether an error is returned. In the SMTP dialogue each step
may fail; a server that has taken the mail may still be followed by an error, when
its answer is lost or Quit fails. The queue is sent to without a receipt: an error is
returned only when the connection does not take the frame. When it fails later, or the broker
refuses the frame, only `Disconnect` could tell, whose result the `defer` of line 58 discards, so
a queue message may be neither sent nor noted. Neither client sets a deadline: either send may never
return (`Hang`), before or after the server took the message, and the ticker stays in it
(`hung`) until the process ends. The failed sends stand for the text of
`ProcessedResult`. `sent`, `dropped`, `faults` and `collected` are history variables: how often a send
went out, which messages had a queue send that was lost unnoticed, how often a message was
begun and not confirmed as stored, and what was collected in this round. `sent` saturates at `SentCap`, above what
`RepeatedOnlyAfterFault` allows. The database session that is copied after its root was
closed panics (`StartRound`, since `cmd/logic/start.go:81` comes before line 82).

### Broadcast — what a message server promises

Per topic (a room, or the broadcasts) a number of accepted items; `Cut` puts the oldest
ones that are in no batch yet into a batch; `Deliver` gives a batch whole to some of
the clients that follow its topic, to none twice. No client is promised every
batch, and no order of the batches is promised.

### MessageServer — the message server as a whole

HTTP requests with several items (`StartRequest`, `ServeItem` for one item after the
other; a request that cannot be parsed is one with no items), the merge workers
(`TakeContext`, `TakeTimeout`, `Commit`, `MergeStop`), module `Dispatch`, which `MessageServer`
extends and whose `Push` is part of `Commit`, the audience of a batch and the queues of the
clients (`DeliverJob` around Dispatch's `ExecuteJob`, `WriteMessage`), and the shutdown in the order of `cmd/message/start.go:69-72`:
`HttpServerClose`, which waits for the requests at work, `MergeClose`,
`ConnectManagerClose`. A merge worker takes the steps of `RoomFeed`, a receive or a
flush at a time, as `MergeWorker` is proved to do; membership stays as it is
(`RoomRegistry` has the changes). `WorkerOf` is the hash of the room's name; its
uint32 stays below the number of workers plus 255 * 33 and does not overflow.

`BroadcastImplemented` states that `MessageServer` implements `Broadcast` with `published[t]` =
the number of items in `origin[t]` and `got` = `received`.

### Modules for checking and proving

`MC*` instantiate a module for TLC. The modules `*_proofs` hold the theorems, one for each
module; those about `Dispatch` are in `MessageServer_proofs`, which needs them.
`RoomFeed_proofs` is instantiated in `MergeWorker_proofs`, as `RoomFeed` is in `MergeWorker`.
Definitions whose comment begins with *Mutant* are wrong on purpose:
they are defects the code does not have, and each property of the
runs is violated when one of them takes the place of the definition it imitates
(`PROJECT.json`, "mutants"). No specification uses them.

## 3. The runs

| Run | Checks | Distinct states | Shows |
|---|---|---|---|
| `MergeWorker` | TypeOK, OpenBatchIsScheduled, CommitIsDue, ExactlyOnce, IInv, FeedRefined, EveryMessageSettles | 335,339 | timers racing the size limit strand nothing, cut no later batch short and duplicate nothing; the worker implements `RoomFeed`; every accepted message is handed over, or lost to a full dispatchChan, in the end |
| `RoomRegistry` | TypeOK, RegistryAgrees, NoGhostMember, EmptyRoomsFreed, JoinLimit, StableMembersReached, IInv, ClosedIsForgotten | 209,000 | the two sides of membership agree, nobody stays a member after leaving, the limit holds through every sequence of joins and leaves, a stale room pointer still reaches all who stayed, a closed connection is forgotten |
| `Dispatch` | DispatchTypeOK, EveryBucketOnce, EveryJobReachesAllBuckets | 108,128 | each bucket gets each job once; no circle of waiting |
| `DispatchShutdown` | NobodyPanics — violated | | finding 1 |
| `Connection` | TypeOK, ClosedOnce, RequestsInOrder, MessagesInOrder, NobodyStaysBehind | 542,570 | closing from four sides at once; order through full channels; all four goroutines return |
| `Heartbeat` | OnlySilentClosed, SilenceIsBounded | 23,288 | who sends PINGs an interval less the delay apart is not closed, who falls silent is closed within two intervals and three delays |
| `LogicPush` | TypeOK, SlotsAreBusy, RepeatedOnlyAfterFailure, DroppedOnlyWhenBusy, EveryServerSettles | 221,564 | slots do not leak and are not released twice, whatever happens to the posts; only failed posts are repeated; a job is dropped only for a server that is really busy, and is settled for every server |
| `LogicPushShutdown` | NobodyPanics — violated | | finding 2 |
| `ProcessMessage` | TypeOK, ProcessedIsAccountedFor, RepeatedOnlyAfterFault, NewestSourceIsCollected, EveryMessageIsProcessed | 188,732 | what is stored as processed was sent or is noted as failed, but for a queue message that is lost without an error; a send is repeated only for a fault; what is collected for a socket is counted right; nothing stays unprocessed unless a send never returns |
| `ProcessMessageSources` | AggregatedBySource — violated | | finding 3 |
| `ProcessMessageRead` | ReadStaysRead — violated | | finding 4 |
| `MessageServer` | TypeOK, ItemsAccountedFor, ItemsInOrder, BroadcastImplemented, EveryItemSettles | 912,000 | from the request to the client's queue: items are accepted or refused one by one, clients get whole batches without gap, overlap or repetition, every accepted item is settled |

### Bounds, and why they are enough

- `MergeWorker`: two rooms, so that one room's timer meets another room's batch;
  five messages with batches of two, so that a room has two batches and part of a
  third while the timer of the first is still on its way; timeoutChan has
  two places and dispatchChan one, so both are full at times. A
  batch is committed by its timer at size 1 and by its size at 2.
- `RoomRegistry`: two connections in the bucket that the job worker serves, so that one
  may stay while the other leaves; three rooms of which each may be in two, so that the
  limit bites and leaving everything takes several steps; five addresses, enough for
  every registered room and the one held by the worker to be different objects and
  for an address to be used again.
- `Dispatch`: two dispatch workers, two buckets, two job workers of the first and one
  of the second, queues of one place, three jobs: two in the workers' hands and one in
  the queue, or two of them in one bucket's queue and hand at once.
- `Connection`: channels of one place, three requests (one in the handler's hands,
  one in inChan, one that the reader cannot enqueue) and one pushed message
  beside the PONGs: the writer holds one, outChan another, a third is refused.
- `Heartbeat`: an interval of three units and a delay of one, so that a PING may fall before,
  in and after a check and be stored on either side of it; a clock of 13 units, more than
  the longest silence of nine. Both bounds are met exactly: with `< 2 * WsHeartbeatInterval + 3 * MaxDelay`
  in `SilenceIsBounded`, or without the margin in `OnlySilentClosed`, TLC finds a violation.
- `LogicPush`: two servers with one slot each, so that one may be busy while the other is
  free; two jobs, so that the second finds the slot taken or given back; two tries, so
  that a late first post meets the second.
- `ProcessMessage`: three messages: one for two rooms, one that the loop skips, and one
  that names an address twice and goes over all three channels. One fault, at any
  step: a crash, a shutdown or an error of the database. With it a message may be in
  two rounds, and one may be created or read between them. The two runs that are
  violated allow no fault: neither finding needs one.
- `MessageServer`: three requests with four items, two of them for one room at the same
  time and one broadcast; batches of two; one place in every queue, so that each of
  contextChan, dispatchChan, jobChan and outChan is full at times, and one worker of each
  kind, so that order can be stated. Several workers and buckets are the subject of `Dispatch`.

`CHECK_DEADLOCK FALSE` in every run but `Heartbeat`: the bounds on messages, jobs and requests
stop the environment, and workers that were told to stop, connections that
were closed and a process that has exited take no more steps.
No run uses symmetry, since most check liveness.

### Fairness, and why the code justifies it

- `MergeWorker`: weak fairness of the worker and of the timer goroutines. The Go
  scheduler runs every goroutine that can run, `time.AfterFunc` fires, and a
  waiting sender of a channel is served in turn. Callers, shutdown and the
  connection manager owe nothing: a dispatchChan that nobody reads loses
  batches, it does not hold the worker up. That the worker does not take contexts
  for ever and leave timeoutChan alone (Go's select chooses uniformly) follows
  in the model from the bound on the messages.
- `RoomRegistry`: weak fairness of each handler's way out. On a closed connection
  the select of `ReadMessage` may still choose a request, but not for ever.
- `Dispatch`: weak fairness of each worker. `Connection`: weak fairness of each of
  the four goroutines, where reading or writing a socket whose either end has
  been closed fails; the client owes neither reading nor sending.
- `LogicPush`: weak fairness of each dispatch worker and of each doPush, whose
  posts are answered or run into `client.Timeout`. The message servers owe nothing.
- `ProcessMessage`: weak fairness of the ticker, whose ticks come again and again; of the
  shutdown once it has begun; and of the restart, since a server is started again after it
  has ended. Nobody has to read a message. Faults are bounded by `MaxFaults`: a
  process that crashes in every round processes nothing. It is not assumed that a send
  returns: `smtp.Dial` and the dialogue after it (`email.go:107-160`, 182) have no deadline, nor
  has the queue client. A ticker in a send that hangs has no step to take, and
  `EveryMessageIsProcessed` promises nothing once one hangs for good; the process is not
  restarted for that, as nobody notices.
- `MessageServer`: weak fairness of each merge worker, dispatch worker and job worker, whose
  select takes what is there and whose timers fire. Requests need not come, clients
  need not read, and nobody has to shut the server down.
- `Heartbeat` checks only safety: that the goroutines have their turn is the bound
  `MaxDelay` on each of their delays, which the theorems leave open.

## 4. What is proved

The theorems hold for all values of the constants that the assumption of the module
allows: `MergeAssumption` (any rooms, any number of messages, any batch size and
channel capacities of at least one), `RegistryAssumption` (any connections, buckets,
room names, addresses, job workers and join limit), `DispatchAssumption` (any buckets, any
job workers and finitely many dispatch workers, channel capacities of at least one),
`MessageServerAssumption` (beside that any rooms, requests, items and clients),
`ConnectionAssumption`, `HeartbeatAssumption`, `LogicPushAssumption` and `ProcessAssumption`.
Every safety invariant, action property and refinement that a passing run checks is proved.
TLAPS proves:

| Theorem | Module | States |
|---|---|---|
| `InvariantHolds` | `MergeWorker_proofs` | `Spec => []IInv` |
| `TypeCorrect` | `MergeWorker_proofs` | `Spec => []TypeOK`, which includes the channels' capacities |
| `OpenBatchesAreScheduled` | `MergeWorker_proofs` | `Spec => []OpenBatchIsScheduled` |
| `CommitsAreDue` | `MergeWorker_proofs` | `Spec => []CommitIsDue` |
| `FeedExactlyOnce` | `RoomFeed_proofs` | `FeedSpec => []ExactlyOnce` |
| `WorkerImplementsFeed` | `MergeWorker_proofs` | `Spec => FeedRefined`, the refinement |
| `WorkerDeliversExactlyOnce` | `MergeWorker_proofs` | `Spec => []ExactlyOnce` |
| `InvariantHolds` | `RoomRegistry_proofs` | `Spec => []IInv` |
| `RegistryAlwaysAgrees` | `RoomRegistry_proofs` | `Spec => []RegistryAgrees` |
| `EmptyRoomsAlwaysFreed` | `RoomRegistry_proofs` | `Spec => []EmptyRoomsFreed` |
| `NoMemberIsGhost` | `RoomRegistry_proofs` | `Spec => []NoGhostMember` |
| `StableMembersAlwaysReached` | `RoomRegistry_proofs` | `Spec => []StableMembersReached` |
| `JoinLimitHolds` | `RoomRegistry_proofs` | `Spec => []JoinLimit` |
| `TypeCorrect` | `RoomRegistry_proofs` | `Spec => []TypeOK` |
| `InvariantHolds` | `Connection_proofs` | `Spec => []IInv` |
| `TypeCorrect` | `Connection_proofs` | `Spec => []TypeOK` |
| `ChannelClosedOnce` | `Connection_proofs` | `Spec => []ClosedOnce` |
| `MessagesKeepOrder` | `Connection_proofs` | `Spec => []MessagesInOrder` |
| `RequestsKeepOrder` | `Connection_proofs` | `Spec => []RequestsInOrder` |
| `InvariantHolds` | `Heartbeat_proofs` | `Spec => []IInv` |
| `SilenceBounded` | `Heartbeat_proofs` | `Spec => []SilenceIsBounded` |
| `ClosedOnlyWhenSilent` | `Heartbeat_proofs` | `Spec => OnlySilentClosed`, an action property |
| `InvariantHolds` | `LogicPush_proofs` | `Spec => []IInv` |
| `TypeCorrect` | `LogicPush_proofs` | `Spec => []TypeOK` |
| `SlotsCounted` | `LogicPush_proofs` | `Spec => []SlotsAreBusy` |
| `RepeatedAfterFailure` | `LogicPush_proofs` | `Spec => []RepeatedOnlyAfterFailure` |
| `DropsAreJustified` | `LogicPush_proofs` | `Spec => DroppedOnlyWhenBusy`, an action property |
| `InvariantHolds` | `ProcessMessage_proofs` | `Spec => []IInv` |
| `TypeCorrect` | `ProcessMessage_proofs` | `Spec => []TypeOK` |
| `ProcessedAccountedFor` | `ProcessMessage_proofs` | `Spec => []ProcessedIsAccountedFor` |
| `RepeatedOnlyAfterFaults` | `ProcessMessage_proofs` | `Spec => []RepeatedOnlyAfterFault` |
| `NewestSourceCollected` | `ProcessMessage_proofs` | `Spec => []NewestSourceIsCollected` |
| `FanOutHolds` | `MessageServer_proofs` | `DispatchSpec => []FanOutInv` |
| `DispatchTypeCorrect` | `MessageServer_proofs` | `DispatchSpec => []DispatchTypeOK` |
| `BucketsGetJobsOnce` | `MessageServer_proofs` | `DispatchSpec => []EveryBucketOnce` |
| `ServerDispatches` | `MessageServer_proofs` | `Spec => DispatchSpec`: what holds of the fan-out holds in the server |
| `ServerTypeCorrect` | `MessageServer_proofs` | `Spec => []TypeOK` |
| `ItemsAreAccountedFor` | `MessageServer_proofs` | `Spec => []ItemsAccountedFor` |
| `ImplementsBroadcast` | `MessageServer_proofs` | `Spec => BroadcastImplemented`, the refinement |
| `ItemsArriveInOrder` | `MessageServer_proofs` | `Spec => []ItemsInOrder` |

The merge worker. "A commit is due" is not inductive: when the worker receives a
timeout whose batch equals the open batch of its room, one must know that this
batch's timer is the one that has just run out, that the room recorded in the
batch is the room it is open for, and that the worker does not still hold it.
`IInv` says so:

- `ContextsInOrder`: contextChan holds the newest messages in order, so the next
  one has never been seen, and the batch it opens is new;
- `BatchesOpenedOnce`: a batch not opened yet has no timer and no items, and an
  opened one has a room, an item and never too many;
- `TimeoutsQueuedOnce`: a batch is in timeoutChan once, and exactly when its timer
  says so, so that receiving it makes it expired for good;
- `OpenBatchesPending`: the open batch of a room is of that room, not full, and its
  timer is still to come, unless the worker has it in its hands;
- `BatchInHand`: what the worker has in its hands is open, and full or expired.

Each action preserves each part (one lemma per action). `ExactlyOnce` takes a
second route: it is proved of `RoomFeed`, where there are no timers, with the
type invariant as the only strengthening, and carried over by the refinement. In
the refinement every step but two leaves the queues alone; `TakeContext` is a
`Receive`, for which one needs that a room without an open batch gets a batch
without items; `CommitBatch` is a `Flush` of the whole queue, for which one needs
that the batch in hand is the open one and has at least one item.

The registry. That the two sides of membership agree is preserved by a leave only
if the room left is not registered a second time, and by a join only if the new
room is really empty although its address has been used before. So the `IInv` of
`RoomRegistry` adds:

- `RoomsDistinct`: no Room object is registered twice;
- `MembersRegistered`: an object that is not registered has no members, and a member is
  a connection of the object's own bucket;
- `HandlersOwn`: a connection is in its bucket while its handler serves or leaves, and
  is in no room otherwise;
- `FoundRoomKept`: as long as one of those who were in the room at the lookup has stayed,
  the object the job worker holds is the one registered under that name.

Two lemmas carry the proof, for a join and for a leave; each first says what the
step does to every slot, every object and every connection, and then splits on
whether the slot in question is the one concerned. `handleJoin` and `handleLeave` are
reduced to them by showing that their error branches cannot be taken.

The connection. `ClosedOnce` follows from `CloseGuarded`: whoever is between taking the mutex
and releasing it holds it alone, and isClosed and the number of closings agree. For
the two orders the data is followed from place to place: `RequestsPlaced` says that what the
client has sent is what was handled, what inChan holds and what the reader has in hand, one
after the other; `MessagesPlaced` says the same of what outChan has accepted, what
the writer has in hand and what was written. A message leaves one place as it enters the
next, and the lemmas show that a step of another goroutine touches neither.

The push manager. To release a slot the proof must know that the slot was taken for this
very push, so that the number of busy pushes goes down by one with it. `SlotsAreBusy`
itself is inductive only with `JobsApart` (a job waits once in dispatchChan or is with
one worker), `OfferedOnce` (no job is offered to a server twice) and `TriesCounted` (what
has failed is what was tried).

`DroppedOnlyWhenBusy` then follows, since a job is dropped in the very step that found all
slots taken.

The heartbeat. What bounds the silence is the timer, not the clock: `TimerGuards` says that the
timer is never later than two intervals and a delay after the stored heartbeat, and that
the checker is at most a delay behind its timer and its clock. `LastPingStored` says that the
stored heartbeat is the last PING, except while the handler is between reading the clock and
storing it, a delay at most; a check in that moment sees the PING before. If that one is too old
then the two PINGs were further apart than the interval less that delay
(`TooOldMeansSilent`), and a PING that comes between check and close does not hide it (`SilenceOnRecord`).

The message processing. `ProcessedIsAccountedFor` needs `TriedIsAccountedFor`, which says the same of
the message in hand and of what has been tried of it so far. A mail is accepted or
fails with an error (`MailsNotSilent`); of the queue message that is not so, and `dropped` records it. `RepeatedOnlyAfterFault` needs
`SentCounted`: a send that went out more often than its message was begun in vain
was made since the message was taken in hand, be it in the send that hangs, or the
message is stored; and
`NoneProcessedTwice`: what is stored does not come up in this round. `FaultsPaid` bounds the
counters. `NewestSourceIsCollected` speaks of the end of a round, so `RoundInv` says it of every
moment of one: `RoundGathered` describes the entry of an address by the places, message and
number of the address, that the loop has come past (`Describes`), and `RoundOrdered` says that
the messages come newest first, so that the next place is older than all of them. One
lemma, `MergedDescribes`, shows that merging such a place keeps the description.

The fan-out. For every bucket a job has five places: it waits in dispatchChan, a dispatch worker
holds it and has not come past the bucket, it is queued, a job worker pushes it, or it has
been pushed. `FanOutInv` says that a job is in at most one of them (`JobsApart`), in none of them
twice (`JobsOnce`), in one at least while the manager runs (`JobsKept`), and that nothing
else is anywhere (`JobsKnown`, `HandsFull`); `EveryBucketOnce` counts the places. Every step of
`MessageServer` is a step of the fan-out or leaves it alone (`ServerDispatches`), so all of this
holds in the server (`ServerJobsOnce`).

The requests. An item is accepted once because what is in the order of a topic is from an item
its request has passed (`EntriesServed`), in the request's order (`EntriesOrdered`), and what has
been passed is in the order or was refused (`ServedPlaced`), never both.

The merge queues. `MergeInv` says that the batches of a topic are cut one after the other and the
open one continues where they end (`BatchesJoin`), and that what was accepted beyond that waits
in the queue of the topic's worker, in order and complete (`QueuesOfTopics`, `QueuesOrdered`,
`QueuesComplete`, `QueuesKeep`). Hence the item at the head of a queue is the next of its topic,
and committing it is a `Cut` of `Broadcast`. That a room always has the same worker is all
this needs of the hash.

The deliveries. What a client got came with a job pushed to its bucket (`DeliveredPushed`); since no
bucket gets a job twice, no client gets a batch twice, and a push is a `Deliver` of `Broadcast`.

The order. With one worker for each task a job that has come further was accepted before
(`InLine`), so a job that is pushed is newer than all that the clients of its bucket have got.
Jobs are accepted in the order of their batches, and `BatchesJoin` carries that to the items.

Only model-checked is liveness, which under fairness is out of the prover's reach:
`EveryMessageSettles`, `ClosedIsForgotten`, `EveryJobReachesAllBuckets`, `NobodyStaysBehind`,
`EveryServerSettles`, `EveryMessageIsProcessed` and `EveryItemSettles`. That `WorkerOf`, a fold over
the bytes of a name, yields the number of a worker would need induction over data; no proof
uses it, and the run of `MessageServer` computes it.

## 5. Findings

1. **Shutdown may panic.** `ConnectManagerClose` closes dispatchChan before it
   closes stopChan (`web-socket/connect_manager.go:208-209`). A dispatch worker in
   its select receives nil and dereferences it (line 174), or a merge
   worker that has not stopped yet sends on the closed channel (lines 133, 153).
   stopChan is the field that announces the close (line 43). Run `DispatchShutdown`.
2. **Shutdown of the logic server may panic.** `MessageConnectClose` sets ServerConns to
   nil (`pkg/logic-server/push/connect_manager.go:143`) while pushes are going on; a
   doPush that has just been created indexes it (lines 103, 105), outside any
   recover. Run `LogicPushShutdown`.
3. **Only one source is collected for an address.** `process.go:103` says that messages are
   grouped by address and aggregated by source. A message of an address that has an
   entry is compared with the sources that are there (lines 110-120) and added nowhere if
   it is of another; it is stored as processed, and its user is never notified.
   Run `ProcessMessageSources`.
4. **A message that was read becomes unread.** `structure.go:15` says that `known` tells whether the
   message has been read. `UpdateId(ms.Id, ms)` (`process.go:133`) writes the document back as it
   was read at the start of the round, with `known` "unread"; a user who reads it in
   between finds it unread again. Run `ProcessMessageRead`.

Beside these: `web-socket/handler.go:97` says that a connection is checked every second. The
timer runs for the heartbeat interval, 60 seconds in the configuration, so a silent
client is noticed after up to twice the interval, the bound of `SilenceIsBounded`. A client
that sends a PING every 60 seconds, as `README.md:22` has it, may still be closed: when a PING has
read its clock just within the interval and the check reads its own just after it
(`connect.go:124`, 139-146) and takes the mutex first, the check sees the PING before.
`OnlySilentClosed` therefore has a margin of one delay. A queue message can be lost while its message is
stored as processed with no failure noted (`mq_controller.go:58-66`), which
`ProcessedIsAccountedFor` excepts by `dropped`; and a mail server or a broker that stops answering stops the
whole message processing, which `EveryMessageIsProcessed` excepts by `hung`. And a
message for the sockets without addresses is sent to the queue in every round
(`process.go:106`), which `RepeatedOnlyAfterFault` excepts by `IsSkipped`.

## 6. Plan

Done, in this order: `RoomFeed`, `MergeWorker`, their refinement, liveness and proofs;
`RoomRegistry` and its proofs; `Dispatch`; `Connection` and its proofs; `Heartbeat`; `LogicPush`
and its proofs; `ProcessMessage` and its proofs; `Broadcast` and `MessageServer`; the proofs of
`Heartbeat`, `Dispatch` and `MessageServer` with its refinement of `Broadcast`, and of what is
collected for the sockets.

What could follow: `MessageServer` with members that join and leave; that without a shutdown no
goroutine panics, in `Dispatch` and `LogicPush`; an abstract specification of the push
manager, for `LogicPush` to implement.

## 7. What is not modelled, and why

- `types.go` converts messages from and to JSON and has no state. Configuration is
  read once, before anything runs; its values are the constants of the models.
- The HTTP and WebSocket libraries: listeners, handshakes, keep-alive, TLS. A start-up that
  fails ends the process before anything else runs.
- The text of mails and messages, and of `ProcessedResult`, of which only the failed sends
  are kept.
- The query `MongoDB` runs and the documents it keeps are external, with an update that takes
  effect whole or not at all, and may do either when it reports an error.
- `MessageServer` keeps its rooms' members fixed and cannot repeat what `RoomRegistry`
  shows; the timers of the batches are in `MergeWorker`.
- `ConnectManagerClose` also sets buckets to nil while handlers compute
  `connId % len(buckets)`: the division by zero panics in a hijacked HTTP handler,
  where net/http recovers it, and nothing else depends on that handler.
