----------------------------- MODULE LogicPush -----------------------------
(***************************************************************************)
(* The push side of the logic server: jobs wait in dispatchChan, each is   *)
(* taken by one dispatch worker, which offers it to every message server   *)
(* in turn.  For each server that has a free slot a goroutine doPush posts *)
(* the job, again if the post fails, and gives the slot back.  main closes *)
(* the connections while all of this is running.                           *)
(*                                                                         *)
(* A job is named by its place in the order in which dispatchChan accepted *)
(* it; the goroutine doPush of job j for server s is named <<j, s>>.       *)
(***************************************************************************)
EXTENDS Naturals, Sequences, FiniteSets

CONSTANTS
  DispatchWorkers,                   \* goroutines dispatchWorkerMain
  ServerCount,                       \* config: number of message servers
  MaxJobs,                           \* bound on the number of accepted jobs
  MessageServerDispatchChannelSize,  \* config: capacity of dispatchChan
  MessageServerMaxPendingCount,      \* config: capacity of each pendingChan
  MessageServerPushRetry             \* config: how often a job is posted at most

ASSUME LogicPushAssumption ==
  /\ ServerCount \in Nat
  /\ MaxJobs \in Nat
  /\ MessageServerDispatchChannelSize \in Nat \ {0}
  /\ MessageServerMaxPendingCount \in Nat \ {0}
  /\ MessageServerPushRetry \in Nat

Servers == 0..(ServerCount - 1)
Jobs == 1..MaxJobs
Pushes == Jobs \X Servers
NoJob == 0

VARIABLES
  accepted,      \* number of jobs dispatchChan has accepted
  dispatchChan,  \* channel of jobs, buffered
  pushJob,       \* a dispatch worker's local variable, NoJob in the select
  serverIdx,     \* its local variable serverIdx
  stopped,       \* the dispatch workers that have returned
  pendingChan,   \* per server, how many slots are taken
  phase,         \* where doPush is, or why there is none
  retry,         \* its local variable retry
  arrived,       \* history: how often the server has handled the job
  failures,      \* history: how often the post has failed
  main,          \* where main is in MessageConnectClose
  panicked       \* a goroutine has panicked, and with it the process

queueVars == <<accepted, dispatchChan>>
dispatchVars == <<pushJob, serverIdx, stopped>>
slotVars == <<pendingChan, phase>>
postVars == <<retry, arrived, failures>>
processVars == <<main, panicked>>
vars == <<queueVars, dispatchVars, slotVars, postVars, processVars>>

\* "none": the job has not been offered to the server.  "dropped": there was
\* no slot.  "start": doPush has been created.  "wait": it posts, and the post is
\* on its way.  "handled": the server has handled it and its answer is on its
\* way.  "release": doPush gives its slot back.
Busy == {"start", "wait", "handled", "release"}
Phases == Busy \cup {"none", "dropped", "done"}

Init ==
  /\ accepted = 0
  /\ dispatchChan = <<>>
  /\ pushJob = [d \in DispatchWorkers |-> NoJob]
  /\ serverIdx = [d \in DispatchWorkers |-> 0]
  /\ stopped = {}
  /\ pendingChan = [s \in Servers |-> 0]
  /\ phase = [p \in Pushes |-> "none"]
  /\ retry = [p \in Pushes |-> 0]
  /\ arrived = [p \in Pushes |-> 0]
  /\ failures = [p \in Pushes |-> 0]
  /\ main = "running"
  /\ panicked = FALSE

\* The process lives until main returns or a goroutine panics.
Alive == main # "exited" /\ ~panicked

ConnsGone == main # "running"
StopChanClosed == main \in {"stopClosed", "exited"}
-----------------------------------------------------------------------------
\* PushAll / PushRoom: a non-blocking send; a full channel returns
\* LogicDisPatchChannelFull and the job is gone.
Enqueue ==
  \/ /\ Len(dispatchChan) < MessageServerDispatchChannelSize
     /\ accepted' = accepted + 1
     /\ dispatchChan' = Append(dispatchChan, accepted + 1)
  \/ /\ Len(dispatchChan) = MessageServerDispatchChannelSize
     /\ UNCHANGED <<accepted, dispatchChan>>

\* An HTTP request that can be parsed, handlePushAll or handlePushRoom, or the
\* message processing, pushes one job and ignores the error.
Push ==
  /\ Alive
  /\ accepted < MaxJobs
  /\ Enqueue
  /\ UNCHANGED <<dispatchVars, slotVars, postVars, processVars>>
-----------------------------------------------------------------------------
(* A dispatch worker.                                                      *)

InSelect(d) == pushJob[d] = NoJob /\ d \notin stopped

\* case pushJob = <-dispatchChan
TakeJob(d) ==
  /\ Alive
  /\ InSelect(d)
  /\ dispatchChan # <<>>
  /\ dispatchChan' = Tail(dispatchChan)
  /\ pushJob' = [pushJob EXCEPT ![d] = Head(dispatchChan)]
  /\ serverIdx' = [serverIdx EXCEPT ![d] = 0]
  /\ UNCHANGED <<accepted, stopped, slotVars, postVars, processVars>>

\* Mutant: a job the server has no slot for ends the round.
NextServerGivesUp(d, isFull) == IF isFull THEN ServerCount ELSE serverIdx[d] + 1

NextServer(d, isFull) == serverIdx[d] + 1

\* Mutant: one slot too many.
NoSlotOffByOne(s) == pendingChan[s] > MessageServerMaxPendingCount

NoSlot(s) == pendingChan[s] = MessageServerMaxPendingCount

\* One round of the loop over ServerConns, whose length is read every time: a
\* free slot is taken and doPush is created, or the job is dropped for this
\* server.
Offer(d) ==
  LET s == serverIdx[d]
      p == <<pushJob[d], s>>
      isFull == NoSlot(s)
  IN  /\ Alive
      /\ pushJob[d] # NoJob
      /\ ~ConnsGone
      /\ s < ServerCount
      /\ pendingChan' = IF isFull THEN pendingChan ELSE [pendingChan EXCEPT ![s] = @ + 1]
      /\ phase' = [phase EXCEPT ![p] = IF isFull THEN "dropped" ELSE "start"]
      /\ serverIdx' = [serverIdx EXCEPT ![d] = NextServer(d, isFull)]
      /\ UNCHANGED <<queueVars, pushJob, stopped, postVars, processVars>>

\* The loop is over after the last server, and at once when ServerConns is nil.
FanOutEnds(d) ==
  /\ Alive
  /\ pushJob[d] # NoJob
  /\ ConnsGone \/ serverIdx[d] = ServerCount
  /\ pushJob' = [pushJob EXCEPT ![d] = NoJob]
  /\ UNCHANGED <<queueVars, serverIdx, stopped, slotVars, postVars, processVars>>

\* case <-stopChan
DispatchStop(d) ==
  /\ Alive
  /\ InSelect(d)
  /\ StopChanClosed
  /\ stopped' = stopped \cup {d}
  /\ UNCHANGED <<queueVars, pushJob, serverIdx, slotVars, postVars, processVars>>
-----------------------------------------------------------------------------
(* doPush of one job for one server, and the posts it sends.               *)

Goto(p, label) == phase' = [phase EXCEPT ![p] = label]

\* for retry < MessageServerPushRetry: post (again), or give up.
PostOrGiveUp(p, tries) ==
  Goto(p, IF tries < MessageServerPushRetry THEN "wait" ELSE "release")

\* ServerConns[gatewayIdx] panics when ServerConns is nil; otherwise the
\* connection found is used for all tries.
StartPush(p) ==
  /\ Alive
  /\ phase[p] = "start"
  /\ IF ConnsGone
     THEN panicked' = TRUE /\ UNCHANGED phase
     ELSE PostOrGiveUp(p, 0) /\ UNCHANGED panicked
  /\ UNCHANGED <<queueVars, dispatchVars, pendingChan, postVars, main>>

\* The message server handles the post the client waits for.
ServerHandles(p) ==
  /\ Alive
  /\ phase[p] = "wait"
  /\ Goto(p, "handled")
  /\ arrived' = [arrived EXCEPT ![p] = @ + 1]
  /\ UNCHANGED <<queueVars, dispatchVars, pendingChan, retry, failures, processVars>>

\* Mutant: an answer does not end the loop.
PostAnsweredGoesOn(p) ==
  /\ Alive
  /\ phase[p] = "handled"
  /\ retry' = [retry EXCEPT ![p] = @ + 1]
  /\ PostOrGiveUp(p, retry[p] + 1)
  /\ UNCHANGED <<queueVars, dispatchVars, pendingChan, arrived, failures, processVars>>

\* The answer arrives, whatever it says, and ends the loop.
PostAnswered(p) ==
  /\ Alive
  /\ phase[p] = "handled"
  /\ Goto(p, "release")
  /\ UNCHANGED <<queueVars, dispatchVars, pendingChan, postVars, processVars>>

\* The post fails: refused, timed out before the server has handled it, or
\* afterwards.  A post that is given up may still reach the server; it counts as
\* arrived when it is given up, since nothing here depends on the time.
PostFails(p) ==
  /\ Alive
  /\ phase[p] \in {"wait", "handled"}
  /\ retry' = [retry EXCEPT ![p] = @ + 1]
  /\ failures' = [failures EXCEPT ![p] = @ + 1]
  /\ PostOrGiveUp(p, retry[p] + 1)
  /\ \/ UNCHANGED arrived
     \/ phase[p] = "wait" /\ arrived' = [arrived EXCEPT ![p] = @ + 1]
  /\ UNCHANGED <<queueVars, dispatchVars, pendingChan, processVars>>

\* Mutant: the slot is not given back after a failure.
ReleaseSlotUnlessFailed(p) ==
  /\ Alive
  /\ phase[p] = "release"
  /\ pendingChan' = IF failures[p] > 0 THEN pendingChan
                    ELSE [pendingChan EXCEPT ![p[2]] = @ - 1]
  /\ Goto(p, "done")
  /\ UNCHANGED <<queueVars, dispatchVars, postVars, processVars>>

\* <-pendingChan[gatewayIdx], which waits while the channel is empty.
ReleaseSlot(p) ==
  /\ Alive
  /\ phase[p] = "release"
  /\ pendingChan[p[2]] > 0
  /\ pendingChan' = [pendingChan EXCEPT ![p[2]] = @ - 1]
  /\ Goto(p, "done")
  /\ UNCHANGED <<queueVars, dispatchVars, postVars, processVars>>
-----------------------------------------------------------------------------
\* MessageConnectClose drops the connections and closes stopChan; then main
\* returns.
CloseOrder == [running |-> "connsNil", connsNil |-> "stopClosed", stopClosed |-> "exited"]

MessageConnectClose ==
  /\ Alive
  /\ main' = CloseOrder[main]
  /\ UNCHANGED <<queueVars, dispatchVars, slotVars, postVars, panicked>>
-----------------------------------------------------------------------------
DispatchStep(d) == TakeJob(d) \/ Offer(d) \/ FanOutEnds(d) \/ DispatchStop(d)

\* What doPush does in the end whatever the network does: a post is answered or
\* runs into the client's timeout.
DoPush(p) ==
  StartPush(p) \/ PostAnswered(p) \/ PostFails(p) \/ ReleaseSlot(p)

Next ==
  \/ Push
  \/ MessageConnectClose
  \/ \E d \in DispatchWorkers : DispatchStep(d)
  \/ \E p \in Pushes : DoPush(p) \/ ServerHandles(p)

Fairness ==
  /\ \A d \in DispatchWorkers : WF_vars(DispatchStep(d))
  /\ \A p \in Pushes : WF_vars(DoPush(p))

Spec == Init /\ [][Next]_vars
FairSpec == Spec /\ Fairness
-----------------------------------------------------------------------------
(* Properties.                                                             *)

TypeOK ==
  /\ accepted \in 0..MaxJobs
  /\ dispatchChan \in Seq(Jobs) /\ Len(dispatchChan) <= MessageServerDispatchChannelSize
  /\ pushJob \in [DispatchWorkers -> Jobs \cup {NoJob}]
  /\ serverIdx \in [DispatchWorkers -> 0..ServerCount]
  /\ stopped \subseteq DispatchWorkers
  /\ pendingChan \in [Servers -> 0..MessageServerMaxPendingCount]
  /\ phase \in [Pushes -> Phases]
  /\ retry \in [Pushes -> 0..MessageServerPushRetry]
  /\ arrived \in [Pushes -> 0..MessageServerPushRetry]
  /\ failures \in [Pushes -> 0..MessageServerPushRetry]
  /\ main \in {"running", "connsNil", "stopClosed", "exited"}
  /\ panicked \in BOOLEAN

BusyPushes(s) == {j \in Jobs : phase[<<j, s>>] \in Busy}

\* The slots taken of a server are the pushes to it that are going on, so no
\* slot leaks on a failed post and none is given back twice: at no time does
\* this client have more requests to a server under way than configured.  (The
\* server may still be at work on one that the client has given up.)
SlotsAreBusy == \A s \in Servers : pendingChan[s] = Cardinality(BusyPushes(s))

\* A job is dropped for a server only while the configured number of requests
\* to that server is really going on.
DroppedOnlyWhenBusy ==
  [][\A p \in Pushes : phase'[p] = "dropped" /\ phase[p] # "dropped" =>
       Cardinality(BusyPushes(p[2])) = MessageServerMaxPendingCount]_vars

\* A message server gets a job again only for a post that failed, the ones that
\* arrive late included; the answer to a post ends the tries.
RepeatedOnlyAfterFailure ==
  \A p \in Pushes :
    arrived[p] + (IF phase[p] = "wait" THEN 1 ELSE 0) <= failures[p] + 1

\* One slow or unreachable server does not keep a job from the others: every
\* accepted job is pushed to every server until it is answered or the tries are
\* used up, or it is dropped for that server, unless the process is shut down.
EveryServerSettles ==
  \A p \in Pushes : p[1] <= accepted ~> (phase[p] \in {"dropped", "done"} \/ ConnsGone)

\* "stopChan ... 关闭连接" (push/connect_manager.go:27): closing is announced on
\* stopChan and breaks none of the goroutines.
NobodyPanics == ~panicked
-----------------------------------------------------------------------------
(* The inductive invariant behind TypeOK, SlotsAreBusy and                   *)
(* RepeatedOnlyAfterFailure (proved in LogicPush_proofs).                    *)

\* A job that was accepted waits once, or is with one worker.
JobsApart ==
  /\ \A i \in DOMAIN dispatchChan :
       /\ dispatchChan[i] <= accepted
       /\ \A k \in DOMAIN dispatchChan : k # i => dispatchChan[k] # dispatchChan[i]
       /\ \A d \in DispatchWorkers : pushJob[d] # dispatchChan[i]
  /\ \A d \in DispatchWorkers :
       /\ pushJob[d] <= accepted
       /\ \A e \in DispatchWorkers : e # d /\ pushJob[d] # NoJob => pushJob[e] # pushJob[d]

\* Job j still has to be offered to server s.
ToBeOffered(j, s) ==
  \/ j > accepted
  \/ \E i \in DOMAIN dispatchChan : dispatchChan[i] = j
  \/ \E d \in DispatchWorkers : pushJob[d] = j /\ serverIdx[d] <= s

\* No job is offered to a server twice.
OfferedOnce ==
  \A j \in Jobs : \A s \in Servers : ToBeOffered(j, s) => phase[<<j, s>>] = "none"

\* A post that is going on is within the configured number of tries, and nothing
\* has arrived before the first.
TriesCounted ==
  \A p \in Pushes :
    /\ failures[p] = retry[p]
    /\ phase[p] \in {"wait", "handled"} => retry[p] < MessageServerPushRetry
    /\ phase[p] \in {"none", "dropped", "start"} => arrived[p] = 0 /\ failures[p] = 0

IInv ==
  /\ TypeOK
  /\ SlotsAreBusy
  /\ RepeatedOnlyAfterFailure
  /\ JobsApart
  /\ OfferedOnce
  /\ TriesCounted
=============================================================================
