------------------------------ MODULE Dispatch ------------------------------
(***************************************************************************)
(* The fan-out of the connection manager: push jobs wait in dispatchChan,  *)
(* each is taken by one dispatch worker, which offers it to the job queue  *)
(* of every bucket in turn, and each bucket's job workers take the jobs of *)
(* its queue and push them to the connections.  main closes the manager    *)
(* while all of this is running, and then leaves the process.              *)
(*                                                                         *)
(* A job is named by its place in the order in which dispatchChan accepted *)
(* it.  Whether it is for a room or for everyone makes no difference here. *)
(***************************************************************************)
EXTENDS Naturals, Sequences, FiniteSets

CONSTANTS
  DispatchWorkers,      \* goroutines dispatchWorkerMain
  JobWorkers,           \* goroutines jobWorkerMain
  WorkerBucket,         \* the bucketIdx a job worker was started with
  BucketCount,          \* config: len(buckets)
  MaxJobs,              \* bound on the number of accepted jobs
  DispatchChannelSize,  \* config: capacity of dispatchChan
  BucketJobChannelSize  \* config: capacity of each jobChan[bucketIdx]

Buckets == 0..(BucketCount - 1)
Jobs == 1..MaxJobs
NoJob == 0

ASSUME DispatchAssumption ==
  /\ IsFiniteSet(DispatchWorkers)
  /\ BucketCount \in Nat \ {0}
  /\ MaxJobs \in Nat
  /\ DispatchChannelSize \in Nat \ {0}
  /\ BucketJobChannelSize \in Nat \ {0}
  /\ WorkerBucket \in [JobWorkers -> Buckets]

VARIABLES
  accepted,      \* number of jobs dispatchChan has accepted
  dispatchChan,  \* channel of jobs, buffered
  dpc,           \* where a dispatch worker is
  dispatchJob,   \* its local variable pushJob while it fans out
  bucketIdx,     \* its local variable bucketIdx
  jobChan,       \* one buffered channel of jobs per bucket
  jpc,           \* where a job worker is
  pushJob,       \* its local variable pushJob while it pushes
  executed,      \* history: the jobs pushed to each bucket, in that order
  main,          \* where main is in ConnectManagerClose
  panicked       \* a goroutine has panicked, and with it the process

queueVars == <<accepted, dispatchChan>>
dispatchVars == <<dpc, dispatchJob, bucketIdx>>
jobVars == <<jpc, pushJob>>
processVars == <<main, panicked>>
managerVars == <<queueVars, dispatchVars, jobChan, jobVars, executed, processVars>>

DispatchInit ==
  /\ accepted = 0
  /\ dispatchChan = <<>>
  /\ dpc = [d \in DispatchWorkers |-> "select"]
  /\ dispatchJob = [d \in DispatchWorkers |-> NoJob]
  /\ bucketIdx = [d \in DispatchWorkers |-> 0]
  /\ jobChan = [b \in Buckets |-> <<>>]
  /\ jpc = [w \in JobWorkers |-> "select"]
  /\ pushJob = [w \in JobWorkers |-> NoJob]
  /\ executed = [b \in Buckets |-> <<>>]
  /\ main = "running"
  /\ panicked = FALSE

\* The process lives until main returns or a goroutine panics.
Alive == main # "exited" /\ ~panicked

BucketsGone == main # "running"
DispatchChanClosed == main \in {"dispatchClosed", "stopClosed", "exited"}
StopChanClosed == main \in {"stopClosed", "exited"}

\* Mutant: one place too many.
HasPlaceOffByOne(chan, size) == Len(chan) <= size

\* A buffered channel accepts a send at once.
HasPlace(chan, size) == Len(chan) < size
-----------------------------------------------------------------------------
\* PushAll / PushRoom, called by a merge worker: a non-blocking send, where a
\* full channel returns DisPatchChannelFull and the job is gone.  A send on
\* the closed channel panics.
Push ==
  /\ Alive
  /\ accepted < MaxJobs
  /\ \/ /\ ~DispatchChanClosed
        /\ HasPlace(dispatchChan, DispatchChannelSize)
        /\ accepted' = accepted + 1
        /\ dispatchChan' = Append(dispatchChan, accepted + 1)
        /\ UNCHANGED panicked
     \/ /\ ~DispatchChanClosed
        /\ ~HasPlace(dispatchChan, DispatchChannelSize)
        /\ UNCHANGED <<queueVars, panicked>>
     \/ /\ DispatchChanClosed
        /\ panicked' = TRUE
        /\ UNCHANGED queueVars
  /\ UNCHANGED <<dispatchVars, jobChan, jobVars, executed, main>>
-----------------------------------------------------------------------------
(* A dispatch worker.                                                      *)

\* case pushJob = <-dispatchChan: the range over buckets starts; it is over
\* at once when the slice is nil.
TakeJob(d) ==
  /\ Alive
  /\ dpc[d] = "select"
  /\ dispatchChan # <<>>
  /\ dispatchChan' = Tail(dispatchChan)
  /\ IF BucketsGone
     THEN UNCHANGED dispatchVars
     ELSE /\ dpc' = [dpc EXCEPT ![d] = "fanOut"]
          /\ dispatchJob' = [dispatchJob EXCEPT ![d] = Head(dispatchChan)]
          /\ bucketIdx' = [bucketIdx EXCEPT ![d] = 0]
  /\ UNCHANGED <<accepted, jobChan, jobVars, executed, processVars>>

\* The closed and empty dispatchChan yields a nil job: pushJob.bizMsg panics.
TakeNilJob(d) ==
  /\ Alive
  /\ dpc[d] = "select"
  /\ dispatchChan = <<>>
  /\ DispatchChanClosed
  /\ panicked' = TRUE
  /\ UNCHANGED <<queueVars, dispatchVars, jobChan, jobVars, executed, main>>

\* Mutant: the loop ends one bucket early.
IsLastOffByOne(b) == b + 2 >= BucketCount

\* The range over buckets ends with this bucket.
IsLast(b) == b + 1 = BucketCount

\* jobChan[bucketIdx] <- pushJob: the worker waits while the queue is full,
\* and it waits outside the select, so stopChan does not wake it.
SendToBucket(d) ==
  LET b == bucketIdx[d]
  IN  /\ Alive
      /\ dpc[d] = "fanOut"
      /\ HasPlace(jobChan[b], BucketJobChannelSize)
      /\ jobChan' = [jobChan EXCEPT ![b] = Append(@, dispatchJob[d])]
      /\ IF IsLast(b)
         THEN /\ bucketIdx' = [bucketIdx EXCEPT ![d] = 0]
              /\ dpc' = [dpc EXCEPT ![d] = "select"]
              /\ dispatchJob' = [dispatchJob EXCEPT ![d] = NoJob]
         ELSE /\ bucketIdx' = [bucketIdx EXCEPT ![d] = b + 1]
              /\ UNCHANGED <<dpc, dispatchJob>>
      /\ UNCHANGED <<queueVars, jobVars, executed, processVars>>

\* case <-stopChan
DispatchStop(d) ==
  /\ Alive
  /\ dpc[d] = "select"
  /\ StopChanClosed
  /\ dpc' = [dpc EXCEPT ![d] = "done"]
  /\ UNCHANGED <<queueVars, dispatchJob, bucketIdx, jobChan, jobVars, executed, processVars>>
-----------------------------------------------------------------------------
(* A job worker.                                                           *)

\* case pushJob = <-jobChan[bucketIdx]
ReceiveJob(w) ==
  LET b == WorkerBucket[w]
  IN  /\ Alive
      /\ jpc[w] = "select"
      /\ jobChan[b] # <<>>
      /\ jobChan' = [jobChan EXCEPT ![b] = Tail(@)]
      /\ pushJob' = [pushJob EXCEPT ![w] = Head(jobChan[b])]
      /\ jpc' = [jpc EXCEPT ![w] = "push"]
      /\ UNCHANGED <<queueVars, dispatchVars, executed, processVars>>

\* bucket.PushAll / bucket.PushRoom
ExecuteJob(w) ==
  LET b == WorkerBucket[w]
  IN  /\ Alive
      /\ jpc[w] = "push"
      /\ executed' = [executed EXCEPT ![b] = Append(@, pushJob[w])]
      /\ pushJob' = [pushJob EXCEPT ![w] = NoJob]
      /\ jpc' = [jpc EXCEPT ![w] = "select"]
      /\ UNCHANGED <<queueVars, dispatchVars, jobChan, processVars>>

\* case <-stopChan
JobStop(w) ==
  /\ Alive
  /\ jpc[w] = "select"
  /\ StopChanClosed
  /\ jpc' = [jpc EXCEPT ![w] = "done"]
  /\ UNCHANGED <<queueVars, dispatchVars, jobChan, pushJob, executed, processVars>>
-----------------------------------------------------------------------------
\* ConnectManagerClose drops the buckets, closes dispatchChan and closes
\* stopChan, in this order; then main returns.
CloseOrder == [running |-> "bucketsNil", bucketsNil |-> "dispatchClosed",
               dispatchClosed |-> "stopClosed", stopClosed |-> "exited"]

ConnectManagerClose ==
  /\ Alive
  /\ main' = CloseOrder[main]
  /\ UNCHANGED <<queueVars, dispatchVars, jobChan, jobVars, executed, panicked>>
-----------------------------------------------------------------------------
DispatchStep(d) ==
  TakeJob(d) \/ TakeNilJob(d) \/ SendToBucket(d) \/ DispatchStop(d)
JobStep(w) == ReceiveJob(w) \/ ExecuteJob(w) \/ JobStop(w)

DispatchNext ==
  \/ Push
  \/ ConnectManagerClose
  \/ \E d \in DispatchWorkers : DispatchStep(d)
  \/ \E w \in JobWorkers : JobStep(w)

\* The Go scheduler runs every goroutine that can run, and a channel serves
\* its waiting senders and receivers in turn.
DispatchFairness ==
  /\ \A d \in DispatchWorkers : WF_managerVars(DispatchStep(d))
  /\ \A w \in JobWorkers : WF_managerVars(JobStep(w))

DispatchSpec == DispatchInit /\ [][DispatchNext]_managerVars
DispatchFairSpec == DispatchSpec /\ DispatchFairness
-----------------------------------------------------------------------------
(* Properties.                                                             *)

DispatchTypeOK ==
  /\ accepted \in 0..MaxJobs
  /\ dispatchChan \in Seq(Jobs) /\ Len(dispatchChan) <= DispatchChannelSize
  /\ dpc \in [DispatchWorkers -> {"select", "fanOut", "done"}]
  /\ dispatchJob \in [DispatchWorkers -> Jobs \cup {NoJob}]
  /\ bucketIdx \in [DispatchWorkers -> Buckets]
  /\ jobChan \in [Buckets -> Seq(Jobs)]
  /\ \A b \in Buckets : Len(jobChan[b]) <= BucketJobChannelSize
  /\ jpc \in [JobWorkers -> {"select", "push", "done"}]
  /\ pushJob \in [JobWorkers -> Jobs \cup {NoJob}]
  /\ executed \in [Buckets -> Seq(Jobs)]
  /\ main \in {"running", "bucketsNil", "dispatchClosed", "stopClosed", "exited"}
  /\ panicked \in BOOLEAN

\* The places where job j still is, or has been executed, for bucket b.
Where(s, j) == {i \in DOMAIN s : s[i] = j}
Places(j, b) ==
  ({"dispatchChan"} \X Where(dispatchChan, j))
    \cup ({"fanOut"} \X {d \in DispatchWorkers : dispatchJob[d] = j /\ bucketIdx[d] <= b})
    \cup ({"jobChan"} \X Where(jobChan[b], j))
    \cup ({"push"} \X {w \in JobWorkers : pushJob[w] = j /\ WorkerBucket[w] = b})
    \cup ({"executed"} \X Where(executed[b], j))

\* Every accepted job is in one place for every bucket, so however the workers
\* interleave and however congested a bucket is, the bucket gets the job
\* neither twice nor not at all.  Once the manager is closing, a job may be
\* dropped, but still none is executed twice.
EveryBucketOnce ==
  \A j \in 1..accepted, b \in Buckets :
    /\ Cardinality(Places(j, b)) <= 1
    /\ main = "running" => Places(j, b) # {}

\* Every accepted job is executed in every bucket in the end, however full the
\* queues are, unless the manager is closed meanwhile: the workers never wait
\* for each other in a circle.
EveryJobReachesAllBuckets ==
  \A j \in Jobs, b \in Buckets :
    j <= accepted ~> (BucketsGone \/ Where(executed[b], j) # {})

\* "stopChan ... 关闭" (connect_manager.go:43): closing is announced to the
\* workers on stopChan, where each of them returns; it breaks none of them.
NobodyPanics == ~panicked
=============================================================================
