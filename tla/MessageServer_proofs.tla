------------------------ MODULE MessageServer_proofs -------------------------
(***************************************************************************)
(* What the message server delivers, for any number of topics, requests,   *)
(* clients, workers and buckets and any capacity of the queues.            *)
(*                                                                         *)
(* First the fan-out of Dispatch alone, the places a job goes through;     *)
(* then the server, whose every step is a step of the fan-out or leaves it *)
(* alone: its types, its requests, the queues of its merge workers, what   *)
(* they deliver, and in which order.                                       *)
(***************************************************************************)
EXTENDS MessageServer, FiniteSetTheorems, SequenceTheorems, TLAPS

\* A sequence without repetitions.
OnceEach(s) == \A i, k \in DOMAIN s : s[i] = s[k] => i = k

\* A sequence of growing numbers.
Growing(s) == \A i, k \in DOMAIN s : i < k => s[i] < s[k]

\* What Tail does to the places of a sequence.
LEMMA TailPlaces ==
  ASSUME NEW S, NEW s \in Seq(S), s # <<>>
  PROVE  /\ Head(s) \in S /\ Head(s) = s[1]
         /\ Len(s) \in Nat /\ Len(s) >= 1 /\ DOMAIN s = 1..Len(s)
         /\ Tail(s) \in Seq(S) /\ Len(Tail(s)) = Len(s) - 1
         /\ DOMAIN Tail(s) = 1..(Len(s) - 1)
         /\ \A i \in 1..(Len(s) - 1) : Tail(s)[i] = s[i + 1]
  <1>1. Len(s) \in Nat /\ Len(s) >= 1 /\ DOMAIN s = 1..Len(s)
    OBVIOUS
  <1>2. Head(s) = s[1]
    BY <1>1
  <1>3. /\ Head(s) \in S /\ Tail(s) \in Seq(S) /\ Len(Tail(s)) = Len(s) - 1
        /\ \A i \in 1..Len(Tail(s)) : Tail(s)[i] = s[i + 1]
    BY HeadTailProperties
  <1>4. DOMAIN Tail(s) = 1..(Len(s) - 1)
    BY <1>3, LenProperties
  <1> QED
    BY <1>1, <1>2, <1>3, <1>4

\* What Append does to them.
LEMMA AppendPlaces ==
  ASSUME NEW S, NEW s \in Seq(S), NEW x \in S
  PROVE  /\ Append(s, x) \in Seq(S)
         /\ Len(s) \in Nat /\ Len(Append(s, x)) = Len(s) + 1
         /\ DOMAIN s = 1..Len(s) /\ DOMAIN Append(s, x) = 1..(Len(s) + 1)
         /\ \A i \in 1..Len(s) : Append(s, x)[i] = s[i]
         /\ Append(s, x)[Len(s) + 1] = x
         /\ Range(Append(s, x)) = Range(s) \cup {x}
  <1>1. /\ Append(s, x) \in Seq(S)
        /\ Len(s) \in Nat /\ Len(Append(s, x)) = Len(s) + 1
        /\ DOMAIN s = 1..Len(s) /\ DOMAIN Append(s, x) = 1..(Len(s) + 1)
        /\ \A i \in 1..Len(s) : Append(s, x)[i] = s[i]
        /\ Append(s, x)[Len(s) + 1] = x
    BY AppendProperties, LenProperties
  <1>2. 1..(Len(s) + 1) = (1..Len(s)) \cup {Len(s) + 1}
    BY <1>1
  <1>3. Range(Append(s, x)) = Range(s) \cup {x}
    BY <1>1, <1>2 DEF Range
  <1> QED
    BY <1>1, <1>3

\* A queue without repetitions loses its head, and only that.
LEMMA TailOnce ==
  ASSUME NEW S, NEW s \in Seq(S), s # <<>>, OnceEach(s)
  PROVE  /\ OnceEach(Tail(s))
         /\ Head(s) \in Range(s)
         /\ Range(Tail(s)) = Range(s) \ {Head(s)}
  <1> DEFINE n == Len(s)
  <1>1. /\ Head(s) = s[1]
        /\ n \in Nat /\ n >= 1 /\ DOMAIN s = 1..n /\ DOMAIN Tail(s) = 1..(n - 1)
        /\ \A i \in 1..(n - 1) : Tail(s)[i] = s[i + 1]
    BY TailPlaces
  <1> HIDE DEF n
  <1>2. ASSUME NEW i \in DOMAIN Tail(s), NEW k \in DOMAIN Tail(s), Tail(s)[i] = Tail(s)[k]
        PROVE  i = k
    <2>1. i + 1 \in 1..n /\ k + 1 \in 1..n /\ s[i + 1] = s[k + 1]
      BY <1>1, <1>2
    <2>2. i + 1 = k + 1
      BY <1>1, <2>1 DEF OnceEach
    <2> QED
      BY <1>1, <2>2
  <1>3. ASSUME NEW x \in Range(Tail(s)) PROVE x \in Range(s) \ {Head(s)}
    <2>1. PICK i \in 1..(n - 1) : x = s[i + 1]
      BY <1>1 DEF Range
    <2>2. i + 1 \in 1..n /\ 1 \in 1..n /\ i + 1 # 1
      BY <1>1
    <2> QED
      BY <1>1, <2>1, <2>2 DEF Range, OnceEach
  <1>4. ASSUME NEW x \in Range(s) \ {Head(s)} PROVE x \in Range(Tail(s))
    <2>1. PICK i \in 1..n : x = s[i] /\ i # 1
      BY <1>1 DEF Range
    <2>2. i - 1 \in 1..(n - 1) /\ (i - 1) + 1 = i
      BY <1>1, <2>1
    <2>3. i - 1 \in DOMAIN Tail(s) /\ x = Tail(s)[i - 1]
      BY <1>1, <2>1, <2>2
    <2> QED
      BY <2>3 DEF Range
  <1>5. Head(s) \in Range(s)
    BY <1>1 DEF Range
  <1> QED
    BY <1>2, <1>3, <1>4, <1>5 DEF OnceEach

\* A newcomer at the end.
LEMMA AppendOnce ==
  ASSUME NEW S, NEW s \in Seq(S), NEW x \in S, OnceEach(s), x \notin Range(s)
  PROVE  OnceEach(Append(s, x))
  <1> DEFINE n == Len(s)
  <1>1. /\ n \in Nat /\ DOMAIN s = 1..n /\ DOMAIN Append(s, x) = 1..(n + 1)
        /\ \A i \in 1..n : Append(s, x)[i] = s[i]
        /\ Append(s, x)[n + 1] = x
    BY AppendPlaces
  <1>2. \A i \in 1..n : s[i] # x
    BY <1>1 DEF Range
  <1> HIDE DEF n
  <1>3. \A i \in 1..(n + 1) : i \in 1..n \/ i = n + 1
    BY <1>1
  <1> QED
    BY <1>1, <1>2, <1>3 DEF OnceEach

\* The head of a growing queue is less than the others.
LEMMA TailGrowing ==
  ASSUME NEW S \in SUBSET Nat, NEW s \in Seq(S), s # <<>>, Growing(s)
  PROVE  /\ Growing(Tail(s))
         /\ \A x \in Range(Tail(s)) : Head(s) < x
  <1> DEFINE n == Len(s)
  <1>1. /\ Head(s) = s[1]
        /\ n \in Nat /\ n >= 1 /\ DOMAIN s = 1..n /\ DOMAIN Tail(s) = 1..(n - 1)
        /\ \A i \in 1..(n - 1) : Tail(s)[i] = s[i + 1]
    BY TailPlaces
  <1> HIDE DEF n
  <1>2. ASSUME NEW i \in DOMAIN Tail(s), NEW k \in DOMAIN Tail(s), i < k
        PROVE  Tail(s)[i] < Tail(s)[k]
    <2>1. i + 1 \in 1..n /\ k + 1 \in 1..n /\ i + 1 < k + 1
      BY <1>1, <1>2
    <2>2. s[i + 1] < s[k + 1]
      BY <1>1, <2>1 DEF Growing
    <2> QED
      BY <1>1, <2>2
  <1>3. ASSUME NEW x \in Range(Tail(s)) PROVE Head(s) < x
    <2>1. PICK i \in 1..(n - 1) : x = s[i + 1]
      BY <1>1 DEF Range
    <2>2. i + 1 \in 1..n /\ 1 \in 1..n /\ 1 < i + 1
      BY <1>1
    <2> QED
      BY <1>1, <2>1, <2>2 DEF Growing
  <1> QED
    BY <1>2, <1>3 DEF Growing

\* One more that is greater than all.
LEMMA AppendGrowing ==
  ASSUME NEW S, NEW s \in Seq(S), NEW x \in S, Growing(s), \A y \in Range(s) : y < x
  PROVE  Growing(Append(s, x))
  <1> DEFINE n == Len(s)
  <1>1. /\ n \in Nat /\ DOMAIN s = 1..n /\ DOMAIN Append(s, x) = 1..(n + 1)
        /\ \A i \in 1..n : Append(s, x)[i] = s[i]
        /\ Append(s, x)[n + 1] = x
    BY AppendPlaces
  <1>2. \A i \in 1..n : s[i] < x
    BY <1>1 DEF Range
  <1> HIDE DEF n
  <1>3. ASSUME NEW i \in 1..(n + 1), NEW k \in 1..(n + 1), i < k
        PROVE  Append(s, x)[i] < Append(s, x)[k]
    <2>1. i \in 1..n /\ (k \in 1..n \/ k = n + 1)
      BY <1>1, <1>3
    <2> QED
      BY <1>1, <1>2, <1>3, <2>1 DEF Growing
  <1> QED
    BY <1>1, <1>3 DEF Growing
-----------------------------------------------------------------------------
(* The fan-out (module Dispatch).  Where a job is for bucket b: it waits in  *)
(* dispatchChan, a dispatch worker holds it that has not come past b, it is  *)
(* queued for b, a job worker of b pushes it, or it has been pushed.         *)

Waiting(j) == j \in Range(dispatchChan)
Fanned(j, b) == \E d \in DispatchWorkers : dispatchJob[d] = j /\ bucketIdx[d] <= b
Queued(j, b) == j \in Range(jobChan[b])
InHand(j, b) == \E w \in JobWorkers : pushJob[w] = j /\ WorkerBucket[w] = b
Pushed(j, b) == j \in Range(executed[b])

\* A worker has a job exactly when it is at work on one.
HandsFull ==
  /\ \A d \in DispatchWorkers : dispatchJob[d] # NoJob <=> dpc[d] = "fanOut"
  /\ \A w \in JobWorkers : pushJob[w] # NoJob <=> jpc[w] = "push"

\* Only accepted jobs are anywhere.
JobsKnown ==
  \A j \in Jobs, b \in Buckets :
    Waiting(j) \/ Fanned(j, b) \/ Queued(j, b) \/ InHand(j, b) \/ Pushed(j, b) => j <= accepted

\* No queue holds a job twice, and no two workers hold the same.
JobsOnce ==
  /\ OnceEach(dispatchChan)
  /\ \A b \in Buckets : OnceEach(jobChan[b]) /\ OnceEach(executed[b])
  /\ \A d, e \in DispatchWorkers :
       dispatchJob[d] = dispatchJob[e] /\ dispatchJob[d] # NoJob => d = e
  /\ \A w, v \in JobWorkers :
       pushJob[w] = pushJob[v] /\ pushJob[w] # NoJob /\ WorkerBucket[w] = WorkerBucket[v] => w = v

\* A job is in one of the five places at most.
JobsApart ==
  \A j \in Jobs, b \in Buckets :
    /\ Waiting(j) => ~Fanned(j, b) /\ ~Queued(j, b) /\ ~InHand(j, b) /\ ~Pushed(j, b)
    /\ Fanned(j, b) => ~Queued(j, b) /\ ~InHand(j, b) /\ ~Pushed(j, b)
    /\ Queued(j, b) => ~InHand(j, b) /\ ~Pushed(j, b)
    /\ InHand(j, b) => ~Pushed(j, b)

\* While the manager runs an accepted job is in one of them at least.
JobsKept ==
  main = "running" =>
    \A j \in Jobs, b \in Buckets :
      j <= accepted =>
        Waiting(j) \/ Fanned(j, b) \/ Queued(j, b) \/ InHand(j, b) \/ Pushed(j, b)

FanOutInv ==
  /\ DispatchTypeOK
  /\ HandsFull
  /\ JobsKnown
  /\ JobsOnce
  /\ JobsApart
  /\ JobsKept

\* At the start there are no jobs.
LEMMA FanOutInit == DispatchInit => FanOutInv
  <1> SUFFICES ASSUME DispatchInit PROVE FanOutInv
    OBVIOUS
  <1> USE DispatchAssumption DEF DispatchAssumption, DispatchInit, NoJob
  <1>1. 0 \in Buckets /\ Jobs \subseteq Nat /\ 0 \notin Jobs
    BY DEF Buckets, Jobs
  <1>2. DispatchTypeOK
    <2>1. accepted \in 0..MaxJobs
      OBVIOUS
    <2>2. dispatchChan \in Seq(Jobs) /\ Len(dispatchChan) <= DispatchChannelSize
      OBVIOUS
    <2>3. /\ dpc \in [DispatchWorkers -> {"select", "fanOut", "done"}]
          /\ jpc \in [JobWorkers -> {"select", "push", "done"}]
      OBVIOUS
    <2>4. /\ dispatchJob \in [DispatchWorkers -> Jobs \cup {NoJob}]
          /\ pushJob \in [JobWorkers -> Jobs \cup {NoJob}]
          /\ bucketIdx \in [DispatchWorkers -> Buckets]
      BY <1>1
    <2>5. /\ jobChan \in [Buckets -> Seq(Jobs)] /\ executed \in [Buckets -> Seq(Jobs)]
          /\ \A b \in Buckets : Len(jobChan[b]) <= BucketJobChannelSize
      OBVIOUS
    <2> QED
      BY <2>1, <2>2, <2>3, <2>4, <2>5 DEF DispatchTypeOK
  <1>3. HandsFull
    BY DEF HandsFull
  <1>4. Range(dispatchChan) = {} /\ \A b \in Buckets : Range(jobChan[b]) = {} /\ Range(executed[b]) = {}
    BY DEF Range
  <1>5. \A j \in Jobs, b \in Buckets :
          ~Waiting(j) /\ ~Fanned(j, b) /\ ~Queued(j, b) /\ ~InHand(j, b) /\ ~Pushed(j, b)
    BY <1>1, <1>4 DEF Waiting, Fanned, Queued, InHand, Pushed
  <1>6. JobsKnown /\ JobsApart
    BY <1>5 DEF JobsKnown, JobsApart
  <1>7. JobsOnce
    BY DEF JobsOnce, OnceEach
  <1>8. JobsKept
    BY DEF JobsKept, Jobs
  <1> QED
    BY <1>2, <1>3, <1>6, <1>7, <1>8 DEF FanOutInv

\* What the type invariant says of the parts, with the sizes of the queues.
LEMMA FanOutTypes ==
  ASSUME DispatchTypeOK
  PROVE  /\ accepted \in 0..MaxJobs /\ MaxJobs \in Nat
         /\ Jobs = 1..MaxJobs /\ NoJob = 0 /\ NoJob \notin Jobs
         /\ dispatchChan \in Seq(Jobs)
         /\ dpc \in [DispatchWorkers -> {"select", "fanOut", "done"}]
         /\ dispatchJob \in [DispatchWorkers -> Jobs \cup {NoJob}]
         /\ bucketIdx \in [DispatchWorkers -> Buckets]
         /\ jobChan \in [Buckets -> Seq(Jobs)]
         /\ jpc \in [JobWorkers -> {"select", "push", "done"}]
         /\ pushJob \in [JobWorkers -> Jobs \cup {NoJob}]
         /\ executed \in [Buckets -> Seq(Jobs)]
         /\ Buckets = 0..(BucketCount - 1) /\ BucketCount \in Nat \ {0}
         /\ WorkerBucket \in [JobWorkers -> Buckets]
  <1>1. /\ MaxJobs \in Nat /\ BucketCount \in Nat \ {0}
        /\ WorkerBucket \in [JobWorkers -> Buckets]
    BY DispatchAssumption DEF DispatchAssumption
  <1>2. Jobs = 1..MaxJobs /\ NoJob = 0 /\ Buckets = 0..(BucketCount - 1)
    BY DEF Jobs, Buckets, NoJob
  <1>3. NoJob \notin Jobs
    BY <1>1, <1>2
  <1> QED
    BY <1>1, <1>2, <1>3 DEF DispatchTypeOK

\* The five predicates are about these variables only.
LEMMA PlacesKept ==
  ASSUME UNCHANGED <<dispatchChan, dispatchJob, bucketIdx, jobChan, pushJob, executed>>
  PROVE  \A j, b : /\ Waiting(j)' <=> Waiting(j) 
                   /\ Fanned(j, b)' <=> Fanned(j, b)
                   /\ Queued(j, b)' <=> Queued(j, b)
                   /\ InHand(j, b)' <=> InHand(j, b)
                   /\ Pushed(j, b)' <=> Pushed(j, b)
  BY DEF Waiting, Fanned, Queued, InHand, Pushed

\* A job is accepted, or it finds dispatchChan full or closed.
LEMMA PushKeeps == ASSUME FanOutInv, Push PROVE FanOutInv'
  <1> DEFINE n == accepted + 1
  <1>1. /\ UNCHANGED <<dpc, dispatchJob, bucketIdx, jobChan, jpc, pushJob, executed, main>>
        /\ accepted < MaxJobs
        /\ \/ /\ Len(dispatchChan) < DispatchChannelSize
              /\ accepted' = n /\ dispatchChan' = Append(dispatchChan, n) /\ UNCHANGED panicked
           \/ UNCHANGED <<accepted, dispatchChan>> /\ panicked' \in BOOLEAN
    BY DEF Push, HasPlace, dispatchVars, jobVars, queueVars, FanOutInv, DispatchTypeOK
  <1>2. DispatchTypeOK
    BY DEF FanOutInv
  <1>3. n \in Jobs /\ n \in Nat /\ accepted \in Nat /\ n \notin 0..accepted
    BY <1>1, <1>2, FanOutTypes
  <1>4. HandsFull'
    BY <1>1 DEF FanOutInv, HandsFull
  <1>5. CASE UNCHANGED <<accepted, dispatchChan>> /\ panicked' \in BOOLEAN
    <2>1. DispatchTypeOK'
      BY <1>1, <1>2, <1>5 DEF DispatchTypeOK
    <2>2. JobsKnown' /\ JobsApart' /\ JobsKept'
      BY <1>1, <1>5, PlacesKept DEF FanOutInv, JobsKnown, JobsApart, JobsKept
    <2>3. JobsOnce'
      BY <1>1, <1>5 DEF FanOutInv, JobsOnce
    <2> QED
      BY <1>4, <2>1, <2>2, <2>3 DEF FanOutInv
  <1>6. CASE /\ Len(dispatchChan) < DispatchChannelSize
             /\ accepted' = n /\ dispatchChan' = Append(dispatchChan, n) /\ UNCHANGED panicked
    <2>1. /\ dispatchChan' \in Seq(Jobs) /\ Len(dispatchChan') = Len(dispatchChan) + 1
          /\ Len(dispatchChan) \in Nat
          /\ Range(dispatchChan') = Range(dispatchChan) \cup {n}
      <3>1. dispatchChan \in Seq(Jobs)
        BY <1>2, FanOutTypes
      <3> HIDE DEF n
      <3> QED
        BY <1>3, <1>6, <3>1, AppendPlaces
    <2>2. DispatchTypeOK'
      <3>1. accepted' \in 0..MaxJobs
        BY <1>1, <1>2, <1>6, FanOutTypes
      <3>2. Len(dispatchChan') <= DispatchChannelSize
        BY <1>6, <2>1, DispatchAssumption DEF DispatchAssumption
      <3> QED
        BY <1>1, <1>2, <1>6, <2>1, <3>1, <3>2 DEF DispatchTypeOK
    <2>3. \A j, b : /\ Waiting(j)' <=> Waiting(j) \/ j = n
                    /\ Fanned(j, b)' <=> Fanned(j, b)
                    /\ Queued(j, b)' <=> Queued(j, b)
                    /\ InHand(j, b)' <=> InHand(j, b)
                    /\ Pushed(j, b)' <=> Pushed(j, b)
      BY <1>1, <2>1 DEF Waiting, Fanned, Queued, InHand, Pushed
    <2>4. \A b \in Buckets :
            ~Waiting(n) /\ ~Fanned(n, b) /\ ~Queued(n, b) /\ ~InHand(n, b) /\ ~Pushed(n, b)
      <3>1. ~(n <= accepted)
        BY <1>3
      <3> HIDE DEF n
      <3> QED
        BY <1>3, <3>1 DEF FanOutInv, JobsKnown
    <2>5. JobsKnown' /\ JobsApart' /\ JobsKept'
      <3>1. \A j \in Jobs : j \in Nat /\ (j <= n <=> j <= accepted \/ j = n)
        BY <1>2, <1>3, FanOutTypes
      <3> HIDE DEF n
      <3>2. JobsKnown'
        <4> SUFFICES ASSUME NEW j \in Jobs, NEW b \in Buckets,
                            \/ Waiting(j)' \/ Fanned(j, b)' \/ Queued(j, b)'
                            \/ InHand(j, b)' \/ Pushed(j, b)'
                     PROVE  j <= accepted'
          BY DEF JobsKnown
        <4>1. \/ Waiting(j) \/ Fanned(j, b) \/ Queued(j, b) \/ InHand(j, b) \/ Pushed(j, b)
              \/ j = n
          BY <2>3
        <4>2. j <= accepted \/ j = n
          BY <4>1 DEF FanOutInv, JobsKnown
        <4> QED
          BY <1>6, <3>1, <4>2
      <3>3. JobsApart'
        BY <2>3, <2>4 DEF FanOutInv, JobsApart
      <3>4. JobsKept'
        BY <1>1, <1>6, <2>3, <3>1 DEF FanOutInv, JobsKept
      <3> QED
        BY <3>2, <3>3, <3>4
    <2>6. JobsOnce'
      <3>1. OnceEach(dispatchChan')
        <4>1. n \notin Range(dispatchChan)
          <5>1. 0 \in Buckets
            BY <1>2, FanOutTypes
          <5> QED
            BY <2>4, <5>1 DEF Waiting
        <4>2. dispatchChan \in Seq(Jobs) /\ OnceEach(dispatchChan)
          BY <1>2, FanOutTypes DEF FanOutInv, JobsOnce
        <4> HIDE DEF n
        <4> QED
          BY <1>3, <1>6, <4>1, <4>2, AppendOnce
      <3> QED
        BY <1>1, <3>1 DEF FanOutInv, JobsOnce
    <2> QED
      BY <1>4, <2>2, <2>5, <2>6 DEF FanOutInv
  <1> QED
    BY <1>1, <1>5, <1>6

\* A dispatch worker takes the oldest job: it is no longer waiting, and still has
\* to come past every bucket.  While the manager closes it may be dropped.
LEMMA TakeJobKeeps ==
  ASSUME FanOutInv, NEW d \in DispatchWorkers, TakeJob(d) PROVE FanOutInv'
  <1> DEFINE h == Head(dispatchChan)
  <1>1. /\ UNCHANGED <<accepted, jobChan, jpc, pushJob, executed, main, panicked>>
        /\ dpc[d] = "select" /\ dispatchChan # <<>> /\ dispatchChan' = Tail(dispatchChan)
        /\ \/ main # "running" /\ UNCHANGED <<dpc, dispatchJob, bucketIdx>>
           \/ /\ dpc' = [dpc EXCEPT ![d] = "fanOut"]
              /\ dispatchJob' = [dispatchJob EXCEPT ![d] = h]
              /\ bucketIdx' = [bucketIdx EXCEPT ![d] = 0]
    BY DEF TakeJob, BucketsGone, jobVars, dispatchVars, processVars
  <1>2. DispatchTypeOK
    BY DEF FanOutInv
  <1>3. /\ dispatchChan \in Seq(Jobs) /\ OnceEach(dispatchChan)
        /\ Len(dispatchChan) <= DispatchChannelSize
    BY <1>2, FanOutTypes DEF FanOutInv, JobsOnce, DispatchTypeOK
  <1>4. /\ h \in Jobs /\ dispatchChan' \in Seq(Jobs) /\ OnceEach(dispatchChan')
        /\ Len(dispatchChan') = Len(dispatchChan) - 1 /\ Len(dispatchChan) \in Nat
        /\ Waiting(h) /\ Range(dispatchChan') = Range(dispatchChan) \ {h}
    BY <1>1, <1>3, TailPlaces, TailOnce DEF Waiting
  <1> HIDE DEF h
  <1>5. dispatchJob[d] = NoJob
    BY <1>1 DEF FanOutInv, HandsFull
  <1>6. Len(dispatchChan') <= DispatchChannelSize
    BY <1>3, <1>4, DispatchAssumption DEF DispatchAssumption
  <1>7. \A j, b : /\ Waiting(j)' <=> Waiting(j) /\ j # h
                  /\ Queued(j, b)' <=> Queued(j, b)
                  /\ InHand(j, b)' <=> InHand(j, b)
                  /\ Pushed(j, b)' <=> Pushed(j, b)
    BY <1>1, <1>4 DEF Waiting, Queued, InHand, Pushed
  <1>8. CASE main # "running" /\ UNCHANGED <<dpc, dispatchJob, bucketIdx>>
    <2>1. DispatchTypeOK'
      BY <1>1, <1>2, <1>4, <1>6, <1>8 DEF DispatchTypeOK
    <2>2. \A j, b : Fanned(j, b)' <=> Fanned(j, b)
      BY <1>8 DEF Fanned
    <2>3. HandsFull' /\ JobsOnce' /\ JobsKept'
      BY <1>1, <1>4, <1>8 DEF FanOutInv, HandsFull, JobsOnce, JobsKept
    <2>4. JobsKnown' /\ JobsApart'
      BY <1>1, <1>7, <2>2 DEF FanOutInv, JobsKnown, JobsApart
    <2> QED
      BY <2>1, <2>3, <2>4 DEF FanOutInv
  <1>9. CASE /\ dpc' = [dpc EXCEPT ![d] = "fanOut"]
             /\ dispatchJob' = [dispatchJob EXCEPT ![d] = h]
             /\ bucketIdx' = [bucketIdx EXCEPT ![d] = 0]
    <2>1. /\ dpc' \in [DispatchWorkers -> {"select", "fanOut", "done"}]
          /\ dispatchJob' \in [DispatchWorkers -> Jobs \cup {NoJob}]
          /\ bucketIdx' \in [DispatchWorkers -> Buckets]
          /\ \A e \in DispatchWorkers :
               /\ dispatchJob'[e] = IF e = d THEN h ELSE dispatchJob[e]
               /\ bucketIdx'[e] = IF e = d THEN 0 ELSE bucketIdx[e]
               /\ dpc'[e] = IF e = d THEN "fanOut" ELSE dpc[e]
      <3>1. /\ dpc \in [DispatchWorkers -> {"select", "fanOut", "done"}]
            /\ dispatchJob \in [DispatchWorkers -> Jobs \cup {NoJob}]
            /\ bucketIdx \in [DispatchWorkers -> Buckets]
            /\ 0 \in Buckets
        BY <1>2, FanOutTypes
      <3>2. /\ dpc' \in [DispatchWorkers -> {"select", "fanOut", "done"}]
            /\ \A e \in DispatchWorkers : dpc'[e] = IF e = d THEN "fanOut" ELSE dpc[e]
        BY <1>9, <3>1
      <3>3. /\ dispatchJob' \in [DispatchWorkers -> Jobs \cup {NoJob}]
            /\ \A e \in DispatchWorkers : dispatchJob'[e] = IF e = d THEN h ELSE dispatchJob[e]
        BY <1>4, <1>9, <3>1
      <3>4. /\ bucketIdx' \in [DispatchWorkers -> Buckets]
            /\ \A e \in DispatchWorkers : bucketIdx'[e] = IF e = d THEN 0 ELSE bucketIdx[e]
        BY <1>9, <3>1
      <3> QED
        BY <3>2, <3>3, <3>4
    <2>2. DispatchTypeOK'
      BY <1>1, <1>2, <1>4, <1>6, <2>1 DEF DispatchTypeOK
    <2>3. \A j \in Jobs, b \in Buckets : Fanned(j, b)' <=> Fanned(j, b) \/ j = h
      <3>1. NoJob \notin Jobs /\ \A b \in Buckets : 0 <= b
        BY <1>2, FanOutTypes
      <3> QED
        BY <1>5, <2>1, <3>1 DEF Fanned
    <2>4. HandsFull'
      <3>1. h # NoJob
        BY <1>2, <1>4, FanOutTypes
      <3> QED
        BY <1>1, <2>1, <3>1 DEF FanOutInv, HandsFull
    <2>5. JobsOnce'
      <3>1. \A e \in DispatchWorkers : dispatchJob[e] # h
        <4>1. 0 \in Buckets /\ Buckets = 0..(BucketCount - 1) /\ BucketCount \in Nat \ {0}
          BY <1>2, FanOutTypes
        <4>2. \A b \in Buckets : ~Fanned(h, b)
          BY <1>4 DEF FanOutInv, JobsApart
        <4>3. \A e \in DispatchWorkers : bucketIdx[e] \in Buckets /\ bucketIdx[e] <= bucketIdx[e]
          BY <1>2, <4>1, FanOutTypes
        <4> QED
          BY <4>2, <4>3 DEF Fanned
      <3>2. \A e, f \in DispatchWorkers :
              dispatchJob'[e] = dispatchJob'[f] /\ dispatchJob'[e] # NoJob => e = f
        BY <2>1, <3>1 DEF FanOutInv, JobsOnce
      <3> QED
        BY <1>1, <1>4, <3>2 DEF FanOutInv, JobsOnce
    <2>6. JobsKnown'
      BY <1>1, <1>4, <1>7, <2>3 DEF FanOutInv, JobsKnown
    <2>7. JobsApart'
      BY <1>4, <1>7, <2>3 DEF FanOutInv, JobsApart
    <2>8. JobsKept'
      BY <1>1, <1>4, <1>7, <2>3 DEF FanOutInv, JobsKept
    <2> QED
      BY <2>2, <2>4, <2>5, <2>6, <2>7, <2>8 DEF FanOutInv
  <1> QED
    BY <1>1, <1>8, <1>9

\* The worker queues its job for the bucket it has come to, and goes on to the
\* next, or has come past all.
LEMMA SendToBucketKeeps ==
  ASSUME FanOutInv, NEW d \in DispatchWorkers, SendToBucket(d) PROVE FanOutInv'
  <1> DEFINE n == dispatchJob[d]
             k == bucketIdx[d]
  <1>1. /\ UNCHANGED <<accepted, dispatchChan, jpc, pushJob, executed, main, panicked>>
        /\ dpc[d] = "fanOut"
        /\ Len(jobChan[k]) < BucketJobChannelSize
        /\ jobChan' = [jobChan EXCEPT ![k] = Append(@, n)]
        /\ \/ /\ k + 1 = BucketCount
              /\ bucketIdx' = [bucketIdx EXCEPT ![d] = 0]
              /\ dpc' = [dpc EXCEPT ![d] = "select"]
              /\ dispatchJob' = [dispatchJob EXCEPT ![d] = NoJob]
           \/ /\ k + 1 # BucketCount
              /\ bucketIdx' = [bucketIdx EXCEPT ![d] = k + 1]
              /\ UNCHANGED <<dpc, dispatchJob>>
    BY DEF SendToBucket, HasPlace, IsLast, queueVars, jobVars, processVars
  <1>2. DispatchTypeOK
    BY DEF FanOutInv
  <1>3. n # NoJob /\ n \in Jobs /\ k \in Buckets /\ jobChan[k] \in Seq(Jobs)
    BY <1>1, <1>2, FanOutTypes DEF FanOutInv, HandsFull
  <1>4. /\ k \in Nat /\ k < BucketCount /\ BucketCount \in Nat \ {0}
        /\ Buckets = 0..(BucketCount - 1)
    BY <1>2, <1>3, FanOutTypes
  <1>5. Fanned(n, k) /\ ~Queued(n, k) /\ ~Waiting(n) /\ ~InHand(n, k) /\ ~Pushed(n, k)
    <2>1. Fanned(n, k)
      BY <1>4 DEF Fanned
    <2> QED
      BY <1>3, <2>1 DEF FanOutInv, JobsApart
  <1> HIDE DEF n, k
  <1>6. /\ Append(jobChan[k], n) \in Seq(Jobs)
        /\ Len(jobChan[k]) \in Nat /\ Len(Append(jobChan[k], n)) = Len(jobChan[k]) + 1
        /\ Range(Append(jobChan[k], n)) = Range(jobChan[k]) \cup {n}
        /\ OnceEach(Append(jobChan[k], n))
    <2>1. OnceEach(jobChan[k]) /\ n \notin Range(jobChan[k])
      BY <1>3, <1>5 DEF FanOutInv, JobsOnce, Queued
    <2> QED
      BY <1>3, <2>1, AppendPlaces, AppendOnce
  <1>7. /\ jobChan' \in [Buckets -> Seq(Jobs)]
        /\ \A b \in Buckets :
             jobChan'[b] = IF b = k THEN Append(jobChan[k], n) ELSE jobChan[b]
    BY <1>1, <1>2, <1>3, <1>6, FanOutTypes
  <1>8. \A b \in Buckets : Len(jobChan'[b]) <= BucketJobChannelSize
    <2>1. Len(jobChan[k]) + 1 <= BucketJobChannelSize
      BY <1>1, <1>6, DispatchAssumption DEF DispatchAssumption
    <2> QED
      BY <1>2, <1>6, <1>7, <2>1 DEF DispatchTypeOK
  <1>9. \A j, b : /\ Waiting(j)' <=> Waiting(j)
                  /\ InHand(j, b)' <=> InHand(j, b)
                  /\ Pushed(j, b)' <=> Pushed(j, b)
    BY <1>1 DEF Waiting, InHand, Pushed
  <1>10. \A j \in Jobs, b \in Buckets : Queued(j, b)' <=> Queued(j, b) \/ (j = n /\ b = k)
    BY <1>6, <1>7 DEF Queued
  <1>11. \A e \in DispatchWorkers : dispatchJob[e] = n => e = d
    BY <1>3 DEF FanOutInv, JobsOnce, n
  <1>12. /\ dpc' \in [DispatchWorkers -> {"select", "fanOut", "done"}]
         /\ dispatchJob' \in [DispatchWorkers -> Jobs \cup {NoJob}]
         /\ bucketIdx' \in [DispatchWorkers -> Buckets]
         /\ HandsFull'
         /\ \A e \in DispatchWorkers : dispatchJob'[e] = dispatchJob[e] \/ dispatchJob'[e] = NoJob
         /\ \A j \in Jobs, b \in Buckets : Fanned(j, b)' <=> Fanned(j, b) /\ ~(j = n /\ b = k)
    <2>1. /\ dpc \in [DispatchWorkers -> {"select", "fanOut", "done"}]
          /\ dispatchJob \in [DispatchWorkers -> Jobs \cup {NoJob}]
          /\ bucketIdx \in [DispatchWorkers -> Buckets]
          /\ NoJob \notin Jobs
      BY <1>2, FanOutTypes
    <2>2. \A b \in Buckets : Fanned(n, b) <=> k <= b
      BY <1>11 DEF Fanned, n, k
    <2>3. CASE /\ k + 1 = BucketCount
               /\ bucketIdx' = [bucketIdx EXCEPT ![d] = 0]
               /\ dpc' = [dpc EXCEPT ![d] = "select"]
               /\ dispatchJob' = [dispatchJob EXCEPT ![d] = NoJob]
      <3>1. \A e \in DispatchWorkers :
              /\ dispatchJob'[e] = IF e = d THEN NoJob ELSE dispatchJob[e]
              /\ bucketIdx'[e] = IF e = d THEN 0 ELSE bucketIdx[e]
              /\ dpc'[e] = IF e = d THEN "select" ELSE dpc[e]
        BY <2>1, <2>3
      <3>2. 0 \in Buckets /\ \A b \in Buckets : k <= b <=> b = k
        BY <1>4, <2>3
      <3>3. /\ dpc' \in [DispatchWorkers -> {"select", "fanOut", "done"}]
            /\ dispatchJob' \in [DispatchWorkers -> Jobs \cup {NoJob}]
            /\ bucketIdx' \in [DispatchWorkers -> Buckets]
        BY <2>1, <2>3, <3>2
      <3>4. HandsFull'
        BY <1>1, <3>1 DEF FanOutInv, HandsFull
      <3>5. \A j \in Jobs, b \in Buckets : Fanned(j, b)' <=> Fanned(j, b) /\ ~(j = n /\ b = k)
        <4> SUFFICES ASSUME NEW j \in Jobs, NEW b \in Buckets
                     PROVE  Fanned(j, b)' <=> Fanned(j, b) /\ ~(j = n /\ b = k)
          OBVIOUS
        <4>1. Fanned(j, b)' <=> \E e \in DispatchWorkers : e # d /\ dispatchJob[e] = j /\ bucketIdx[e] <= b
          BY <2>1, <3>1 DEF Fanned
        <4>2. CASE j = n
          BY <1>11, <2>2, <3>2, <4>1, <4>2
        <4>3. CASE j # n
          BY <4>1, <4>3 DEF Fanned, n
        <4> QED
          BY <4>2, <4>3
      <3> QED
        BY <3>1, <3>3, <3>4, <3>5
    <2>4. CASE /\ k + 1 # BucketCount
               /\ bucketIdx' = [bucketIdx EXCEPT ![d] = k + 1]
               /\ UNCHANGED <<dpc, dispatchJob>>
      <3>1. k + 1 \in Buckets /\ \A b \in Buckets : k + 1 <= b <=> k <= b /\ b # k
        BY <1>4, <2>4
      <3>2. bucketIdx' \in [DispatchWorkers -> Buckets]
            /\ \A e \in DispatchWorkers : bucketIdx'[e] = IF e = d THEN k + 1 ELSE bucketIdx[e]
        BY <2>1, <2>4, <3>1
      <3>3. HandsFull'
        BY <1>1, <2>4 DEF FanOutInv, HandsFull
      <3>4. \A j \in Jobs, b \in Buckets : Fanned(j, b)' <=> Fanned(j, b) /\ ~(j = n /\ b = k)
        <4> SUFFICES ASSUME NEW j \in Jobs, NEW b \in Buckets
                     PROVE  Fanned(j, b)' <=> Fanned(j, b) /\ ~(j = n /\ b = k)
          OBVIOUS
        <4>1. CASE j = n
          <5>1. Fanned(j, b)' <=> k + 1 <= b
            BY <1>11, <2>4, <3>2, <4>1 DEF Fanned, n
          <5> QED
            BY <2>2, <3>1, <4>1, <5>1
        <4>2. CASE j # n
          BY <2>4, <3>2, <4>2 DEF Fanned, n
        <4> QED
          BY <4>1, <4>2
      <3> QED
        BY <2>1, <2>4, <3>2, <3>3, <3>4
    <2> QED
      BY <1>1, <2>3, <2>4
  <1>13. DispatchTypeOK'
    BY <1>1, <1>2, <1>7, <1>8, <1>12 DEF DispatchTypeOK
  <1>14. JobsOnce'
    BY <1>1, <1>6, <1>7, <1>12 DEF FanOutInv, JobsOnce
  <1>15. JobsKnown'
    BY <1>1, <1>3, <1>5, <1>9, <1>10, <1>12 DEF FanOutInv, JobsKnown
  <1>16. JobsApart'
    BY <1>3, <1>5, <1>9, <1>10, <1>12 DEF FanOutInv, JobsApart
  <1>17. JobsKept'
    BY <1>1, <1>9, <1>10, <1>12 DEF FanOutInv, JobsKept
  <1> QED
    BY <1>12, <1>13, <1>14, <1>15, <1>16, <1>17 DEF FanOutInv

\* A job worker of the bucket takes the oldest job of the bucket's queue.
LEMMA ReceiveJobKeeps ==
  ASSUME FanOutInv, NEW w \in JobWorkers, ReceiveJob(w) PROVE FanOutInv'
  <1> DEFINE k == WorkerBucket[w]
             h == Head(jobChan[k])
  <1>1. /\ UNCHANGED <<accepted, dispatchChan, dpc, dispatchJob, bucketIdx, executed, main, panicked>>
        /\ jpc[w] = "select" /\ jobChan[k] # <<>>
        /\ jobChan' = [jobChan EXCEPT ![k] = Tail(@)]
        /\ pushJob' = [pushJob EXCEPT ![w] = h]
        /\ jpc' = [jpc EXCEPT ![w] = "push"]
    BY DEF ReceiveJob, queueVars, dispatchVars, processVars
  <1>2. DispatchTypeOK
    BY DEF FanOutInv
  <1>3. /\ k \in Buckets /\ jobChan[k] \in Seq(Jobs) /\ OnceEach(jobChan[k])
        /\ Len(jobChan[k]) <= BucketJobChannelSize
        /\ NoJob \notin Jobs
    BY <1>2, FanOutTypes DEF FanOutInv, JobsOnce, DispatchTypeOK
  <1> HIDE DEF k
  <1>4. /\ h \in Jobs /\ Queued(h, k)
        /\ Tail(jobChan[k]) \in Seq(Jobs) /\ OnceEach(Tail(jobChan[k]))
        /\ Len(Tail(jobChan[k])) = Len(jobChan[k]) - 1 /\ Len(jobChan[k]) \in Nat
        /\ Range(Tail(jobChan[k])) = Range(jobChan[k]) \ {h}
    BY <1>1, <1>3, TailPlaces, TailOnce DEF Queued
  <1> HIDE DEF h
  <1>5. /\ jobChan' \in [Buckets -> Seq(Jobs)]
        /\ \A b \in Buckets : jobChan'[b] = IF b = k THEN Tail(jobChan[k]) ELSE jobChan[b]
    BY <1>1, <1>2, <1>3, <1>4, FanOutTypes
  <1>6. \A b \in Buckets : Len(jobChan'[b]) <= BucketJobChannelSize
    <2>1. Len(jobChan[k]) - 1 <= BucketJobChannelSize
      BY <1>3, <1>4, DispatchAssumption DEF DispatchAssumption
    <2> QED
      BY <1>2, <1>4, <1>5, <2>1 DEF DispatchTypeOK
  <1>7. pushJob[w] = NoJob
    BY <1>1 DEF FanOutInv, HandsFull
  <1>8. /\ pushJob' \in [JobWorkers -> Jobs \cup {NoJob}]
        /\ jpc' \in [JobWorkers -> {"select", "push", "done"}]
        /\ \A v \in JobWorkers : /\ pushJob'[v] = IF v = w THEN h ELSE pushJob[v]
                                 /\ jpc'[v] = IF v = w THEN "push" ELSE jpc[v]
    BY <1>1, <1>2, <1>4, FanOutTypes
  <1>9. \A j, b : /\ Waiting(j)' <=> Waiting(j)
                  /\ Fanned(j, b)' <=> Fanned(j, b)
                  /\ Pushed(j, b)' <=> Pushed(j, b)
    BY <1>1 DEF Waiting, Fanned, Pushed
  <1>10. \A j \in Jobs, b \in Buckets :
           /\ Queued(j, b)' <=> Queued(j, b) /\ ~(j = h /\ b = k)
           /\ InHand(j, b)' <=> InHand(j, b) \/ (j = h /\ b = k)
    <2>1. \A j \in Jobs, b \in Buckets : Queued(j, b)' <=> Queued(j, b) /\ ~(j = h /\ b = k)
      BY <1>4, <1>5 DEF Queued
    <2>2. \A j \in Jobs, b \in Buckets : InHand(j, b)' <=> InHand(j, b) \/ (j = h /\ b = k)
      BY <1>3, <1>7, <1>8 DEF InHand, k
    <2> QED
      BY <2>1, <2>2
  <1>11. ~InHand(h, k) /\ ~Waiting(h) /\ ~Fanned(h, k) /\ ~Pushed(h, k)
    BY <1>3, <1>4 DEF FanOutInv, JobsApart
  <1>12. DispatchTypeOK'
    BY <1>1, <1>2, <1>5, <1>6, <1>8 DEF DispatchTypeOK
  <1>13. HandsFull'
    BY <1>1, <1>3, <1>4, <1>8 DEF FanOutInv, HandsFull
  <1>14. JobsOnce'
    <2>1. \A v, x \in JobWorkers :
            pushJob'[v] = pushJob'[x] /\ pushJob'[v] # NoJob /\ WorkerBucket[v] = WorkerBucket[x]
              => v = x
      <3>1. \A v \in JobWorkers : WorkerBucket[v] = WorkerBucket[w] => pushJob[v] # h
        BY <1>11 DEF InHand, k
      <3> SUFFICES ASSUME NEW v \in JobWorkers, NEW x \in JobWorkers,
                          pushJob'[v] = pushJob'[x], pushJob'[v] # NoJob,
                          WorkerBucket[v] = WorkerBucket[x]
                   PROVE  v = x
        OBVIOUS
      <3>2. /\ pushJob'[v] = IF v = w THEN h ELSE pushJob[v]
            /\ pushJob'[x] = IF x = w THEN h ELSE pushJob[x]
        BY <1>8
      <3>3. CASE v # w /\ x # w
        BY <3>2, <3>3 DEF FanOutInv, JobsOnce
      <3> QED
        BY <3>1, <3>2, <3>3
    <2> QED
      BY <1>1, <1>4, <1>5, <2>1 DEF FanOutInv, JobsOnce
  <1>15. JobsKnown'
    BY <1>1, <1>3, <1>4, <1>9, <1>10 DEF FanOutInv, JobsKnown
  <1>16. JobsApart'
    BY <1>3, <1>4, <1>9, <1>10, <1>11 DEF FanOutInv, JobsApart
  <1>17. JobsKept'
    BY <1>1, <1>9, <1>10 DEF FanOutInv, JobsKept
  <1> QED
    BY <1>12, <1>13, <1>14, <1>15, <1>16, <1>17 DEF FanOutInv

\* The worker has pushed the job to the bucket.
LEMMA ExecuteJobKeeps ==
  ASSUME FanOutInv, NEW w \in JobWorkers, ExecuteJob(w) PROVE FanOutInv'
  <1> DEFINE k == WorkerBucket[w]
             n == pushJob[w]
  <1>1. /\ UNCHANGED <<accepted, dispatchChan, dpc, dispatchJob, bucketIdx, jobChan, main, panicked>>
        /\ jpc[w] = "push"
        /\ executed' = [executed EXCEPT ![k] = Append(@, n)]
        /\ pushJob' = [pushJob EXCEPT ![w] = NoJob]
        /\ jpc' = [jpc EXCEPT ![w] = "select"]
    BY DEF ExecuteJob, queueVars, dispatchVars, processVars
  <1>2. DispatchTypeOK
    BY DEF FanOutInv
  <1>3. /\ k \in Buckets /\ executed[k] \in Seq(Jobs) /\ OnceEach(executed[k])
        /\ NoJob \notin Jobs /\ n # NoJob /\ n \in Jobs
    BY <1>1, <1>2, FanOutTypes DEF FanOutInv, HandsFull, JobsOnce
  <1>4. InHand(n, k) /\ ~Waiting(n) /\ ~Fanned(n, k) /\ ~Queued(n, k) /\ ~Pushed(n, k)
    <2>1. InHand(n, k)
      BY DEF InHand
    <2> QED
      BY <1>3, <2>1 DEF FanOutInv, JobsApart
  <1>5. \A v \in JobWorkers : pushJob[v] = n /\ WorkerBucket[v] = k => v = w
    BY <1>3 DEF FanOutInv, JobsOnce
  <1> HIDE DEF k, n
  <1>6. /\ Append(executed[k], n) \in Seq(Jobs) /\ OnceEach(Append(executed[k], n))
        /\ Range(Append(executed[k], n)) = Range(executed[k]) \cup {n}
    BY <1>3, <1>4, AppendPlaces, AppendOnce DEF Pushed
  <1>7. /\ executed' \in [Buckets -> Seq(Jobs)]
        /\ \A b \in Buckets :
             executed'[b] = IF b = k THEN Append(executed[k], n) ELSE executed[b]
    BY <1>1, <1>2, <1>3, <1>6, FanOutTypes
  <1>8. /\ pushJob' \in [JobWorkers -> Jobs \cup {NoJob}]
        /\ jpc' \in [JobWorkers -> {"select", "push", "done"}]
        /\ \A v \in JobWorkers : /\ pushJob'[v] = IF v = w THEN NoJob ELSE pushJob[v]
                                 /\ jpc'[v] = IF v = w THEN "select" ELSE jpc[v]
    BY <1>1, <1>2, FanOutTypes
  <1>9. \A j, b : /\ Waiting(j)' <=> Waiting(j)
                  /\ Fanned(j, b)' <=> Fanned(j, b)
                  /\ Queued(j, b)' <=> Queued(j, b)
    BY <1>1 DEF Waiting, Fanned, Queued
  <1>10. \A j \in Jobs, b \in Buckets :
           /\ Pushed(j, b)' <=> Pushed(j, b) \/ (j = n /\ b = k)
           /\ InHand(j, b)' <=> InHand(j, b) /\ ~(j = n /\ b = k)
    <2>1. \A j \in Jobs, b \in Buckets : Pushed(j, b)' <=> Pushed(j, b) \/ (j = n /\ b = k)
      BY <1>6, <1>7 DEF Pushed
    <2>2. \A j \in Jobs, b \in Buckets : InHand(j, b)' <=> InHand(j, b) /\ ~(j = n /\ b = k)
      BY <1>3, <1>5, <1>8 DEF InHand, n, k
    <2> QED
      BY <2>1, <2>2
  <1>11. DispatchTypeOK'
    BY <1>1, <1>2, <1>7, <1>8 DEF DispatchTypeOK
  <1>12. HandsFull'
    BY <1>1, <1>8 DEF FanOutInv, HandsFull
  <1>13. JobsOnce'
    BY <1>1, <1>6, <1>7, <1>8 DEF FanOutInv, JobsOnce
  <1>14. JobsKnown'
    BY <1>1, <1>3, <1>4, <1>9, <1>10 DEF FanOutInv, JobsKnown
  <1>15. JobsApart'
    BY <1>3, <1>4, <1>9, <1>10 DEF FanOutInv, JobsApart
  <1>16. JobsKept'
    BY <1>1, <1>9, <1>10 DEF FanOutInv, JobsKept
  <1> QED
    BY <1>11, <1>12, <1>13, <1>14, <1>15, <1>16 DEF FanOutInv

\* The other steps leave every job where it is.
LEMMA OthersKeep ==
  ASSUME FanOutInv,
         \/ ConnectManagerClose
         \/ \E d \in DispatchWorkers : TakeNilJob(d) \/ DispatchStop(d)
         \/ \E w \in JobWorkers : JobStop(w)
         \/ UNCHANGED managerVars
  PROVE  FanOutInv'
  <1>1. DispatchTypeOK
    BY DEF FanOutInv
  <1>2. UNCHANGED <<accepted, dispatchChan, dispatchJob, bucketIdx, jobChan, pushJob, executed>>
    BY DEF ConnectManagerClose, TakeNilJob, DispatchStop, JobStop, managerVars,
           queueVars, dispatchVars, jobVars, processVars
  <1>3. JobsKnown' /\ JobsApart'
    BY <1>2, PlacesKept DEF FanOutInv, JobsKnown, JobsApart
  <1>4. JobsOnce'
    BY <1>2 DEF FanOutInv, JobsOnce
  <1>5. /\ main' \in {"running", "bucketsNil", "dispatchClosed", "stopClosed", "exited"}
        /\ panicked' \in BOOLEAN
        /\ main' = "running" => main = "running"
    <2>1. /\ main \in {"running", "bucketsNil", "dispatchClosed", "stopClosed", "exited"}
          /\ panicked \in BOOLEAN
      BY <1>1 DEF DispatchTypeOK
    <2>2. CASE ConnectManagerClose
      <3>1. main # "exited" /\ main' = CloseOrder[main] /\ panicked' = panicked
        BY <2>2 DEF ConnectManagerClose, Alive
      <3> QED
        BY <2>1, <3>1 DEF CloseOrder
    <2>3. CASE main' = main /\ panicked' \in {panicked, TRUE}
      BY <2>1, <2>3
    <2> QED
      BY <2>2, <2>3 DEF TakeNilJob, DispatchStop, JobStop, managerVars, processVars
  <1>6. JobsKept'
    BY <1>2, <1>5, PlacesKept DEF FanOutInv, JobsKept
  <1>7. /\ dpc' \in [DispatchWorkers -> {"select", "fanOut", "done"}]
        /\ jpc' \in [JobWorkers -> {"select", "push", "done"}]
        /\ HandsFull'
    <2>1. /\ dpc \in [DispatchWorkers -> {"select", "fanOut", "done"}]
          /\ jpc \in [JobWorkers -> {"select", "push", "done"}]
      BY <1>1 DEF DispatchTypeOK
    <2>2. CASE UNCHANGED <<dpc, jpc>>
      BY <1>2, <2>1, <2>2 DEF FanOutInv, HandsFull
    <2>3. CASE \E d \in DispatchWorkers : DispatchStop(d)
      <3>1. PICK d \in DispatchWorkers : dpc[d] = "select" /\ dpc' = [dpc EXCEPT ![d] = "done"]
        BY <2>3 DEF DispatchStop
      <3>2. jpc' = jpc
        BY <2>3 DEF DispatchStop, jobVars
      <3> QED
        BY <1>2, <2>1, <3>1, <3>2 DEF FanOutInv, HandsFull
    <2>4. CASE \E w \in JobWorkers : JobStop(w)
      <3>1. PICK w \in JobWorkers : jpc[w] = "select" /\ jpc' = [jpc EXCEPT ![w] = "done"]
        BY <2>4 DEF JobStop
      <3>2. dpc' = dpc
        BY <2>4 DEF JobStop, dispatchVars
      <3> QED
        BY <1>2, <2>1, <3>1, <3>2 DEF FanOutInv, HandsFull
    <2> QED
      BY <2>2, <2>3, <2>4
         DEF ConnectManagerClose, TakeNilJob, managerVars, dispatchVars, jobVars
  <1>8. DispatchTypeOK'
    BY <1>1, <1>2, <1>5, <1>7 DEF DispatchTypeOK
  <1> QED
    BY <1>3, <1>4, <1>6, <1>7, <1>8 DEF FanOutInv

\* Every step of the fan-out preserves the places of the jobs.
LEMMA FanOutInductive == FanOutInv /\ [DispatchNext]_managerVars => FanOutInv'
  <1> SUFFICES ASSUME FanOutInv, [DispatchNext]_managerVars PROVE FanOutInv'
    OBVIOUS
  <1>1. CASE Push
    BY <1>1, PushKeeps
  <1>2. ASSUME NEW d \in DispatchWorkers, DispatchStep(d) PROVE FanOutInv'
    BY <1>2, TakeJobKeeps, SendToBucketKeeps, OthersKeep DEF DispatchStep
  <1>3. ASSUME NEW w \in JobWorkers, JobStep(w) PROVE FanOutInv'
    BY <1>3, ReceiveJobKeeps, ExecuteJobKeeps, OthersKeep DEF JobStep
  <1>4. CASE ConnectManagerClose \/ UNCHANGED managerVars
    BY <1>4, OthersKeep
  <1> QED
    BY <1>1, <1>2, <1>3, <1>4 DEF DispatchNext

\* The places of the jobs, as Dispatch runs on its own.
THEOREM FanOutHolds == DispatchSpec => []FanOutInv
  <1> QED
    BY FanOutInit, FanOutInductive, PTL DEF DispatchSpec

\* The queues of the fan-out keep to their sizes, and a worker to its states.
THEOREM DispatchTypeCorrect == DispatchSpec => []DispatchTypeOK
  <1>1. FanOutInv => DispatchTypeOK
    BY DEF FanOutInv
  <1> QED
    BY <1>1, FanOutHolds, PTL

\* However the dispatch workers and the job workers interleave, and however full
\* the queues are, every bucket gets an accepted job neither twice nor, while the
\* manager runs, not at all.
LEMMA PlacesAreOne == FanOutInv => EveryBucketOnce
  <1> SUFFICES ASSUME FanOutInv, NEW j \in 1..accepted, NEW b \in Buckets
               PROVE  /\ Cardinality(Places(j, b)) <= 1
                      /\ main = "running" => Places(j, b) # {}
    BY DEF EveryBucketOnce
  <1> DEFINE inChan == Where(dispatchChan, j)
             fanOut == {d \in DispatchWorkers : dispatchJob[d] = j /\ bucketIdx[d] <= b}
             inQueue == Where(jobChan[b], j)
             push == {w \in JobWorkers : pushJob[w] = j /\ WorkerBucket[w] = b}
             done == Where(executed[b], j)
  <1>1. j \in Jobs /\ j # NoJob /\ j <= accepted
    BY FanOutTypes DEF FanOutInv
  <1>2. /\ inChan # {} <=> Waiting(j)
        /\ fanOut # {} <=> Fanned(j, b)
        /\ inQueue # {} <=> Queued(j, b)
        /\ push # {} <=> InHand(j, b)
        /\ done # {} <=> Pushed(j, b)
    BY DEF Waiting, Fanned, Queued, InHand, Pushed, Range, Where
  <1>3. /\ \A x, y \in inChan : x = y
        /\ \A x, y \in fanOut : x = y
        /\ \A x, y \in inQueue : x = y
        /\ \A x, y \in push : x = y
        /\ \A x, y \in done : x = y
    <2>1. /\ \A x, y \in inChan : x = y
          /\ \A x, y \in inQueue : x = y
          /\ \A x, y \in done : x = y
      BY DEF FanOutInv, JobsOnce, OnceEach, Where
    <2>2. /\ \A x, y \in fanOut : x = y
          /\ \A x, y \in push : x = y
      BY <1>1 DEF FanOutInv, JobsOnce
    <2> QED
      BY <2>1, <2>2
  <1>4. /\ Waiting(j) => ~Fanned(j, b) /\ ~Queued(j, b) /\ ~InHand(j, b) /\ ~Pushed(j, b)
        /\ Fanned(j, b) => ~Queued(j, b) /\ ~InHand(j, b) /\ ~Pushed(j, b)
        /\ Queued(j, b) => ~InHand(j, b) /\ ~Pushed(j, b)
        /\ InHand(j, b) => ~Pushed(j, b)
    BY <1>1 DEF FanOutInv, JobsApart
  <1>5. main = "running" =>
          Waiting(j) \/ Fanned(j, b) \/ Queued(j, b) \/ InHand(j, b) \/ Pushed(j, b)
    BY <1>1 DEF FanOutInv, JobsKept
  <1>6. Places(j, b) = ({"dispatchChan"} \X inChan) \cup ({"fanOut"} \X fanOut)
                           \cup ({"jobChan"} \X inQueue) \cup ({"push"} \X push)
                           \cup ({"executed"} \X done)
    BY DEF Places
  <1> HIDE DEF inChan, fanOut, inQueue, push, done
  <1>7. \A p, q \in Places(j, b) : p = q
    BY <1>2, <1>3, <1>4, <1>6
  <1>8. main = "running" => Places(j, b) # {}
    <2>1. /\ \A x \in inChan : <<"dispatchChan", x>> \in Places(j, b)
          /\ \A x \in fanOut : <<"fanOut", x>> \in Places(j, b)
          /\ \A x \in inQueue : <<"jobChan", x>> \in Places(j, b)
          /\ \A x \in push : <<"push", x>> \in Places(j, b)
          /\ \A x \in done : <<"executed", x>> \in Places(j, b)
      BY <1>6
    <2> QED
      BY <1>2, <1>5, <2>1
  <1>9. Cardinality(Places(j, b)) <= 1
    <2>1. CASE Places(j, b) = {}
      BY <2>1, FS_EmptySet
    <2>2. CASE Places(j, b) # {}
      <3>1. PICK p : p \in Places(j, b)
        BY <2>2
      <3>2. Places(j, b) = {p}
        BY <1>7, <3>1
      <3> QED
        BY <3>2, FS_Singleton
    <2> QED
      BY <2>1, <2>2
  <1> QED
    BY <1>8, <1>9

\* However the workers interleave, a bucket gets an accepted job neither twice nor,
\* while the manager runs, not at all.
THEOREM BucketsGetJobsOnce == DispatchSpec => []EveryBucketOnce
  <1> QED
    BY FanOutHolds, PlacesAreOne, PTL

\* Every step of the message server is a step of the fan-out or leaves it alone,
\* so what holds of the fan-out alone holds of it in the server.
THEOREM ServerDispatches == Spec => DispatchSpec
  <1>1. Init => DispatchInit
    BY DEF Init
  <1>2. [Next]_vars => [DispatchNext]_managerVars
    <2> SUFFICES ASSUME [Next]_vars PROVE [DispatchNext]_managerVars
      OBVIOUS
    <2>1. CASE UNCHANGED vars
      BY <2>1 DEF vars
    <2>2. ASSUME NEW q \in Requests, StartRequest(q) \/ ServeItem(q) PROVE UNCHANGED managerVars
      BY <2>2 DEF StartRequest, ServeItem
    <2>3. ASSUME NEW t, NEW items, Commit(t, items) PROVE DispatchNext
      BY <2>3 DEF Commit, DispatchNext
    <2>4. ASSUME NEW w \in MergeWorkers, MergeStep(w) PROVE [DispatchNext]_managerVars
      <3>1. CASE TakeContext(w)
        BY <2>3, <3>1 DEF TakeContext
      <3>2. CASE MergeStop(w)
        BY <3>2 DEF MergeStop
      <3>3. CASE \E t \in Topics : WorkerOf(t) = w /\ TakeTimeout(t)
        BY <2>3, <3>3 DEF TakeTimeout
      <3> QED
        BY <2>4, <3>1, <3>2, <3>3 DEF MergeStep
    <2>5. ASSUME NEW d \in DispatchWorkers, FanOutStep(d) PROVE DispatchNext
      BY <2>5 DEF FanOutStep, DispatchNext
    <2>6. ASSUME NEW w \in JobWorkers, JobWorkerStep(w) PROVE DispatchNext
      BY <2>6 DEF JobWorkerStep, DeliverJob, JobStep, DispatchNext
    <2>7. ASSUME NEW c \in Clients, WriteMessage(c) PROVE UNCHANGED managerVars
      BY <2>7 DEF WriteMessage
    <2>8. CASE HttpServerClose \/ MergeClose
      BY <2>8 DEF HttpServerClose, MergeClose
    <2>9. CASE CloseConnectManager
      BY <2>9 DEF CloseConnectManager, DispatchNext
    <2> QED
      BY <2>1, <2>2, <2>4, <2>5, <2>6, <2>7, <2>8, <2>9 DEF Next
  <1> QED
    BY <1>1, <1>2, PTL DEF Spec, DispatchSpec

\* So it holds in the server, too, that a bucket gets a job exactly once.
COROLLARY ServerJobsOnce == Spec => []EveryBucketOnce
  BY ServerDispatches, BucketsGetJobsOnce, PTL
-----------------------------------------------------------------------------
(* The server: types.                                                        *)

Entries == [topic : Topics, item : Nat]
Batches == [topic : Topics, items : Seq(Nat)]

\* What is known of the requests and of the merge workers' queues.
RequestTypes ==
  /\ phase \in {"running", "httpClosing", "mergeClosed"}
  /\ next \in [Requests -> Nat]
  /\ \A q \in Requests : next[q] <= ItemCount[q] + 1
  /\ origin \in [Topics -> Seq(Requests \X Nat)]
  /\ refused \subseteq Requests \X Nat
  /\ contextChan \in [MergeWorkers -> Seq(Entries)]
  /\ \A w \in MergeWorkers : Len(contextChan[w]) <= MergerChannelSize
  /\ mergeStopped \subseteq MergeWorkers

\* Of the open batches, the committed ones and the jobs; every job is a batch,
\* and the jobs are accepted in the order of their batches.
BatchTypes ==
  /\ pending \in [Topics -> Seq(Nat)]
  /\ \A t \in Topics : Len(pending[t]) < MaxMergerBatchSize
  /\ batches \in Seq(Batches)
  /\ \A k \in 1..Len(batches) : Len(batches[k].items) \in 1..MaxMergerBatchSize
  /\ job \in Seq(Nat) /\ Len(job) = accepted
  /\ \A j \in 1..Len(job) : job[j] \in 1..Len(batches)
  /\ Growing(job)

\* Of the clients.
ClientTypes ==
  /\ unread \in [Clients -> 0..WsOutChannelSize]
  /\ received \in [Clients -> Seq(Nat)]

ServerTypes == DispatchTypeOK /\ RequestTypes /\ BatchTypes /\ ClientTypes

\* At the start every queue is empty.
LEMMA ServerTypesInit == Init => ServerTypes
  <1> SUFFICES ASSUME Init PROVE ServerTypes
    OBVIOUS
  <1>1. DispatchTypeOK
    BY FanOutInit DEF Init, FanOutInv
  <1> USE MessageServerAssumption DEF Init
  <1>2. RequestTypes
    <2>1. next \in [Requests -> Nat] /\ \A q \in Requests : next[q] <= ItemCount[q] + 1
      OBVIOUS
    <2>2. origin \in [Topics -> Seq(Requests \X Nat)]
      OBVIOUS
    <2>3. /\ contextChan \in [MergeWorkers -> Seq(Entries)]
          /\ \A w \in MergeWorkers : Len(contextChan[w]) <= MergerChannelSize
      OBVIOUS
    <2> QED
      BY <2>1, <2>2, <2>3 DEF RequestTypes
  <1>3. BatchTypes
    <2>1. pending \in [Topics -> Seq(Nat)] /\ \A t \in Topics : Len(pending[t]) < MaxMergerBatchSize
      OBVIOUS
    <2>2. batches \in Seq(Batches) /\ Len(batches) = 0
      OBVIOUS
    <2>3. job \in Seq(Nat) /\ Len(job) = 0 /\ accepted = 0 /\ DOMAIN job = {}
      BY DEF DispatchInit
    <2> QED
      BY <2>1, <2>2, <2>3 DEF BatchTypes, Growing
  <1>4. ClientTypes
    BY DEF ClientTypes
  <1> QED
    BY <1>1, <1>2, <1>3, <1>4 DEF ServerTypes

\* A batch is committed: it is the last one, and a job if dispatchChan took it.
LEMMA CommitSteps ==
  ASSUME ServerTypes, NEW t \in Topics, NEW items \in Seq(Nat),
         Len(items) \in 1..MaxMergerBatchSize, Commit(t, items)
  PROVE  /\ BatchTypes'
         /\ Len(batches) \in Nat /\ Len(batches') = Len(batches) + 1
         /\ \A k \in 1..Len(batches) : batches'[k] = batches[k]
         /\ batches'[Len(batches) + 1] = [topic |-> t, items |-> items]
         /\ \A x \in Topics : pending'[x] = IF x = t THEN <<>> ELSE pending[x]
         /\ \/ job' = job
            \/ /\ job' = Append(job, Len(batches) + 1)
               /\ Len(job') = Len(job) + 1 /\ job'[Len(job) + 1] = Len(batches) + 1
         /\ \A j \in 1..Len(job) : job'[j] = job[j]
         /\ UNCHANGED executed
  <1> DEFINE n == Len(batches) + 1
             batch == [topic |-> t, items |-> items]
  <1>1. /\ batches' = Append(batches, batch)
        /\ job' = IF accepted' > accepted THEN Append(job, n) ELSE job
        /\ pending' = [pending EXCEPT ![t] = <<>>]
        /\ Push
    BY DEF Commit
  <1>2. UNCHANGED executed /\ (accepted' = accepted + 1 \/ accepted' = accepted)
    BY <1>1 DEF Push, queueVars
  <1>3. accepted \in Nat
    BY FanOutTypes DEF ServerTypes
  <1>4. /\ batches \in Seq(Batches) /\ batch \in Batches /\ job \in Seq(Nat) /\ Len(job) = accepted
        /\ \A k \in 1..Len(batches) : Len(batches[k].items) \in 1..MaxMergerBatchSize
        /\ \A j \in 1..Len(job) : job[j] \in 1..Len(batches)
        /\ Growing(job)
    BY DEF ServerTypes, BatchTypes, Batches
  <1>5. batch.topic = t /\ batch.items = items
    OBVIOUS
  <1> HIDE DEF batch
  <1>6. /\ Len(batches) \in Nat /\ n \in Nat /\ Len(batches') = n
        /\ batches' \in Seq(Batches)
        /\ \A k \in 1..Len(batches) : batches'[k] = batches[k]
        /\ batches'[n] = batch
    BY <1>1, <1>4, AppendPlaces
  <1>7. \A k \in 1..Len(batches') : Len(batches'[k].items) \in 1..MaxMergerBatchSize
    <2>1. \A k \in 1..Len(batches') : k \in 1..Len(batches) \/ k = n
      BY <1>6
    <2> QED
      BY <1>4, <1>5, <1>6, <2>1
  <1> HIDE DEF n
  <1>8. /\ job' \in Seq(Nat) /\ Len(job') = accepted' /\ Growing(job')
        /\ \A j \in 1..Len(job') : job'[j] \in 1..n
        /\ \A j \in 1..Len(job) : job'[j] = job[j]
        /\ \/ job' = job
           \/ job' = Append(job, n) /\ Len(job') = Len(job) + 1 /\ job'[Len(job) + 1] = n
    <2>1. \A i \in 1..Len(batches) : i \in 1..n /\ i < n
      BY <1>6 DEF n
    <2>2. CASE accepted' = accepted
      <3>1. job' = job
        BY <1>1, <1>3, <2>2
      <3> QED
        BY <1>4, <2>1, <2>2, <3>1
    <2>3. CASE accepted' = accepted + 1
      <3>1. job' = Append(job, n)
        BY <1>1, <1>3, <2>3
      <3>2. /\ job' \in Seq(Nat) /\ Len(job') = Len(job) + 1 /\ Len(job) \in Nat
            /\ \A j \in 1..Len(job) : job'[j] = job[j]
            /\ job'[Len(job) + 1] = n /\ DOMAIN job = 1..Len(job)
        BY <1>4, <1>6, <3>1, AppendPlaces
      <3>3. \A y \in Range(job) : y < n
        BY <1>4, <2>1, <3>2 DEF Range
      <3>4. Growing(job')
        BY <1>4, <1>6, <3>1, <3>3, AppendGrowing
      <3>5. \A j \in 1..Len(job') : j \in 1..Len(job) \/ j = Len(job) + 1
        BY <3>2
      <3>6. n \in 1..n
        BY <1>6 DEF n
      <3>7. \A j \in 1..Len(job') : job'[j] \in 1..n
        BY <1>4, <2>1, <3>2, <3>5, <3>6
      <3> QED
        BY <1>4, <2>3, <3>1, <3>2, <3>4, <3>7
    <2> QED
      BY <1>2, <2>2, <2>3
  <1>9. /\ pending' \in [Topics -> Seq(Nat)]
        /\ \A x \in Topics : pending'[x] = IF x = t THEN <<>> ELSE pending[x]
    BY <1>1 DEF ServerTypes, BatchTypes
  <1>10. \A x \in Topics : Len(pending'[x]) < MaxMergerBatchSize
    <2>1. Len(<<>>) < MaxMergerBatchSize
      BY MessageServerAssumption
    <2> QED
      BY <1>9, <2>1 DEF ServerTypes, BatchTypes
  <1>11. BatchTypes'
    BY <1>6, <1>7, <1>8, <1>9, <1>10 DEF BatchTypes
  <1> QED
    BY <1>2, <1>5, <1>6, <1>8, <1>9, <1>11 DEF n, batch

\* A merge worker takes an item: it leaves the queue and joins the open batch of
\* its topic.
LEMMA TakeSteps ==
  ASSUME ServerTypes, NEW w \in MergeWorkers, TakeContext(w),
         NEW t, NEW n, NEW items,
         t = Head(contextChan[w]).topic, n = Head(contextChan[w]).item,
         items = Append(pending[t], n)
  PROVE  /\ contextChan[w] \in Seq(Entries) /\ contextChan[w] # <<>>
         /\ t \in Topics /\ n \in Nat
         /\ contextChan' \in [MergeWorkers -> Seq(Entries)]
         /\ \A v \in MergeWorkers :
              contextChan'[v] = IF v = w THEN Tail(contextChan[w]) ELSE contextChan[v]
         /\ items \in Seq(Nat) /\ Len(items) \in 1..MaxMergerBatchSize
         /\ \/ Commit(t, items)
            \/ /\ pending' = [pending EXCEPT ![t] = items]
               /\ Len(items) < MaxMergerBatchSize
               /\ UNCHANGED <<batches, job, managerVars>>
         /\ UNCHANGED <<phase, requestVars, mergeStopped, clientVars>>
  <1>1. /\ contextChan[w] # <<>>
        /\ contextChan' = [contextChan EXCEPT ![w] = Tail(@)]
        /\ IF Len(items) >= MaxMergerBatchSize
           THEN Commit(t, items)
           ELSE /\ pending' = [pending EXCEPT ![t] = items]
                /\ UNCHANGED <<batches, job, managerVars>>
        /\ UNCHANGED <<phase, requestVars, mergeStopped, clientVars>>
    BY DEF TakeContext
  <1>2. /\ contextChan \in [MergeWorkers -> Seq(Entries)]
        /\ pending \in [Topics -> Seq(Nat)]
        /\ \A x \in Topics : Len(pending[x]) < MaxMergerBatchSize
    BY DEF ServerTypes, RequestTypes, BatchTypes
  <1>3. contextChan[w] \in Seq(Entries)
    BY <1>2
  <1>4. Head(contextChan[w]) \in Entries /\ Tail(contextChan[w]) \in Seq(Entries)
    BY <1>1, <1>3, TailPlaces
  <1>5. t \in Topics /\ n \in Nat
    BY <1>4 DEF Entries
  <1>6. /\ contextChan' \in [MergeWorkers -> Seq(Entries)]
        /\ \A v \in MergeWorkers :
             contextChan'[v] = IF v = w THEN Tail(contextChan[w]) ELSE contextChan[v]
    BY <1>1, <1>2, <1>4
  <1>7. pending[t] \in Seq(Nat) /\ Len(pending[t]) < MaxMergerBatchSize
    BY <1>2, <1>5
  <1>8. items \in Seq(Nat) /\ Len(items) = Len(pending[t]) + 1 /\ Len(pending[t]) \in Nat
    BY <1>5, <1>7, AppendPlaces
  <1>9. MaxMergerBatchSize \in Nat
    BY MessageServerAssumption
  <1>10. /\ Len(items) \in 1..MaxMergerBatchSize
         /\ ~(Len(items) >= MaxMergerBatchSize) => Len(items) < MaxMergerBatchSize
    <2>1. \A a \in Nat, b \in Nat, c \in Nat :
            a < b /\ c = a + 1 => c \in 1..b /\ (~(c >= b) => c < b)
      OBVIOUS
    <2>2. Len(pending[t]) \in Nat /\ Len(pending[t]) + 1 \in Nat
      BY <1>8
    <2> QED
      BY <1>7, <1>8, <1>9, <2>1, <2>2
  <1> QED
    BY <1>1, <1>3, <1>5, <1>6, <1>8, <1>10

\* The timer of an open batch fires.
LEMMA TimeoutSteps ==
  ASSUME ServerTypes, NEW t \in Topics, TakeTimeout(t)
  PROVE  /\ pending[t] \in Seq(Nat) /\ Len(pending[t]) \in 1..MaxMergerBatchSize
         /\ Commit(t, pending[t])
         /\ UNCHANGED <<phase, requestVars, contextChan, mergeStopped, clientVars>>
  <1>1. /\ pending[t] # <<>> /\ Commit(t, pending[t])
        /\ UNCHANGED <<phase, requestVars, contextChan, mergeStopped, clientVars>>
    BY DEF TakeTimeout, TimeoutDue
  <1>2. pending[t] \in Seq(Nat) /\ Len(pending[t]) < MaxMergerBatchSize
    BY DEF ServerTypes, BatchTypes
  <1>3. Len(pending[t]) \in Nat /\ Len(pending[t]) # 0
    BY <1>1, <1>2, EmptySeq
  <1> QED
    BY <1>1, <1>2, <1>3, MessageServerAssumption

\* An item of a request enters the order of its topic and the queue of the
\* topic's worker, or is refused.
LEMMA ServeSteps ==
  ASSUME ServerTypes, NEW q \in Requests, ServeItem(q),
         NEW t, NEW i, NEW m, NEW entry,
         t = RequestTopic[q], i = next[q], m = Len(origin[t]),
         entry = [topic |-> t, item |-> m + 1]
  PROVE  /\ t \in Topics /\ i \in Nat /\ m \in Nat /\ entry \in Entries
         /\ 1 <= i /\ i <= ItemCount[q]
         /\ next' \in [Requests -> Nat]
         /\ \A p \in Requests : next'[p] = IF p = q THEN i + 1 ELSE next[p]
         /\ \/ /\ refused' = refused \cup {<<q, i>>}
               /\ UNCHANGED <<origin, contextChan>>
            \/ /\ origin' = [origin EXCEPT ![t] = Append(@, <<q, i>>)]
               /\ contextChan' = [contextChan EXCEPT ![WorkerOf(t)] = Append(@, entry)]
               /\ Len(contextChan[WorkerOf(t)]) # MergerChannelSize
               /\ UNCHANGED refused
         /\ UNCHANGED <<phase, mergeVars, clientVars, managerVars>>
  <1>1. /\ 0 < i /\ i <= ItemCount[q]
        /\ next' = [next EXCEPT ![q] = i + 1]
        /\ \/ /\ refused' = refused \cup {<<q, i>>}
              /\ UNCHANGED <<origin, contextChan>>
           \/ /\ origin' = [origin EXCEPT ![t] = Append(@, <<q, i>>)]
              /\ contextChan' = [contextChan EXCEPT ![WorkerOf(t)] = Append(@, entry)]
              /\ Len(contextChan[WorkerOf(t)]) # MergerChannelSize
              /\ UNCHANGED refused
        /\ UNCHANGED <<phase, mergeVars, clientVars, managerVars>>
    BY DEF ServeItem, IsServed, NextItem, IsFull
  <1>2. next \in [Requests -> Nat] /\ origin \in [Topics -> Seq(Requests \X Nat)]
    BY DEF ServerTypes, RequestTypes
  <1>3. t \in Topics /\ i \in Nat
    BY <1>2, MessageServerAssumption
  <1>4. m \in Nat
    BY <1>2, <1>3, LenProperties
  <1>5. entry \in Entries
    BY <1>3, <1>4 DEF Entries
  <1>6. /\ next' \in [Requests -> Nat]
        /\ \A p \in Requests : next'[p] = IF p = q THEN i + 1 ELSE next[p]
    BY <1>1, <1>2, <1>3
  <1> QED
    BY <1>1, <1>3, <1>4, <1>5, <1>6

\* A batch is pushed to a bucket.
LEMMA ExecuteSteps ==
  ASSUME ServerTypes, FanOutInv, NEW w \in JobWorkers, DeliverJob(w),
         NEW j, NEW k, j = pushJob[w], k = job[j]
  PROVE  /\ j \in 1..Len(job) /\ k \in 1..Len(batches) /\ k \in Nat
         /\ batches[k].topic \in Topics
         /\ \A c \in Clients :
              \/ unread'[c] = unread[c] /\ received'[c] = received[c]
              \/ /\ BucketOf[c] = WorkerBucket[w] /\ batches[k].topic \in Follows[c]
                 /\ unread[c] < WsOutChannelSize /\ unread'[c] = unread[c] + 1
                 /\ received'[c] = Append(received[c], k)
         /\ ClientTypes'
         /\ UNCHANGED <<phase, requestVars, contextChan, mergeVars, accepted>>
         /\ executed' = [executed EXCEPT ![WorkerBucket[w]] = Append(@, j)]
  <1> DEFINE topic == batches[k].topic
             reached == {c \in Audience(WorkerBucket[w], topic) : unread[c] < WsOutChannelSize}
  <1>1. /\ jpc[w] = "push"
        /\ executed' = [executed EXCEPT ![WorkerBucket[w]] = Append(@, j)]
        /\ unread' = [c \in Clients |-> IF c \in reached THEN unread[c] + 1 ELSE unread[c]]
        /\ received' = [c \in Clients |->
                          IF c \in reached THEN Append(received[c], k) ELSE received[c]]
        /\ UNCHANGED <<phase, requestVars, contextChan, mergeVars, accepted>>
    BY DEF DeliverJob, ExecuteJob, queueVars
  <1>2. j \in Jobs /\ j <= accepted /\ 1 <= j
    <2>1. j # NoJob
      BY <1>1 DEF FanOutInv, HandsFull
    <2>2. /\ pushJob \in [JobWorkers -> Jobs \cup {NoJob}]
          /\ WorkerBucket \in [JobWorkers -> Buckets] /\ Jobs = 1..MaxJobs /\ MaxJobs \in Nat
      BY FanOutTypes DEF ServerTypes
    <2>3. j \in Jobs /\ WorkerBucket[w] \in Buckets
      BY <2>1, <2>2
    <2>4. InHand(j, WorkerBucket[w])
      BY DEF InHand
    <2> QED
      BY <2>2, <2>3, <2>4 DEF FanOutInv, JobsKnown
  <1>3. accepted \in Nat /\ Jobs \subseteq Nat
    BY FanOutTypes DEF ServerTypes
  <1>4. j \in 1..Len(job) /\ k \in 1..Len(batches) /\ Len(batches) \in Nat
    BY <1>2, <1>3 DEF ServerTypes, BatchTypes
  <1>5. k \in Nat /\ topic \in Topics
    <2>1. batches[k] \in Batches
      BY <1>4 DEF ServerTypes, BatchTypes
    <2> QED
      BY <1>4, <2>1 DEF Batches
  <1>6. \A c \in Clients :
          \/ unread'[c] = unread[c] /\ received'[c] = received[c]
          \/ /\ BucketOf[c] = WorkerBucket[w] /\ topic \in Follows[c]
             /\ unread[c] < WsOutChannelSize /\ unread'[c] = unread[c] + 1
             /\ received'[c] = Append(received[c], k)
    BY <1>1 DEF Audience
  <1>7. ClientTypes'
    <2>1. WsOutChannelSize \in Nat /\ unread \in [Clients -> 0..WsOutChannelSize]
          /\ received \in [Clients -> Seq(Nat)]
      BY MessageServerAssumption DEF ServerTypes, ClientTypes
    <2>2. \A c \in Clients : unread'[c] \in 0..WsOutChannelSize
      BY <1>6, <2>1
    <2>3. \A c \in Clients : received'[c] \in Seq(Nat)
      <3> SUFFICES ASSUME NEW c \in Clients PROVE received'[c] \in Seq(Nat)
        OBVIOUS
      <3>1. received[c] \in Seq(Nat)
        BY <2>1
      <3>2. Append(received[c], k) \in Seq(Nat)
        BY <1>5, <3>1, AppendPlaces
      <3> QED
        BY <1>6, <3>1, <3>2
    <2>4. unread' = [c \in Clients |-> unread'[c]] /\ received' = [c \in Clients |-> received'[c]]
      BY <1>1
    <2> QED
      BY <2>2, <2>3, <2>4 DEF ClientTypes
  <1> QED
    BY <1>1, <1>4, <1>5, <1>6, <1>7

\* The steps that concern neither the items nor the clients.
LEMMA OtherSteps ==
  ASSUME [Next]_vars,
         ~\E q \in Requests : StartRequest(q) \/ ServeItem(q),
         ~\E w \in MergeWorkers : TakeContext(w),
         ~\E t \in Topics : TakeTimeout(t),
         ~\E w \in JobWorkers : DeliverJob(w),
         ~\E c \in Clients : WriteMessage(c)
  PROVE  /\ UNCHANGED <<requestVars, contextChan, pending, batches, job, clientVars>>
         /\ UNCHANGED <<accepted, executed>>
         /\ phase' \in {phase, "httpClosing", "mergeClosed"}
         /\ mergeStopped' \in {mergeStopped} \cup {mergeStopped \cup {w} : w \in MergeWorkers}
  <1>1. CASE UNCHANGED vars
    BY <1>1 DEF vars, mergeVars, managerVars, queueVars, dispatchVars, jobVars, processVars
  <1>2. ASSUME NEW w \in MergeWorkers, MergeStop(w)
        PROVE  /\ UNCHANGED <<requestVars, contextChan, pending, batches, job, clientVars>>
               /\ UNCHANGED <<accepted, executed>>
               /\ phase' = phase /\ mergeStopped' = mergeStopped \cup {w}
    BY <1>2 DEF MergeStop, managerVars, queueVars, dispatchVars, jobVars, processVars
  <1>3. CASE \E d \in DispatchWorkers : FanOutStep(d)
    <2>1. /\ UNCHANGED <<phase, requestVars, contextChan, mergeVars, clientVars>>
          /\ \E d \in DispatchWorkers : DispatchStep(d)
      BY <1>3 DEF FanOutStep
    <2>2. UNCHANGED <<accepted, executed>>
      BY <2>1 DEF DispatchStep, TakeJob, TakeNilJob, SendToBucket, DispatchStop, queueVars
    <2> QED
      BY <2>1, <2>2 DEF mergeVars
  <1>4. CASE \E w \in JobWorkers : /\ ReceiveJob(w) \/ JobStop(w)
                                   /\ UNCHANGED <<phase, requestVars, contextChan, mergeVars, clientVars>>
    <2>1. UNCHANGED <<accepted, executed>>
      BY <1>4 DEF ReceiveJob, JobStop, queueVars
    <2> QED
      BY <1>4, <2>1 DEF mergeVars
  <1>5. CASE HttpServerClose \/ MergeClose
    BY <1>5
       DEF HttpServerClose, MergeClose, mergeVars, managerVars, queueVars, dispatchVars, jobVars, processVars
  <1>6. CASE CloseConnectManager
    BY <1>6 DEF CloseConnectManager, ConnectManagerClose, queueVars, mergeVars
  <1> QED
    BY <1>1, <1>2, <1>3, <1>4, <1>5, <1>6 DEF Next, MergeStep, JobWorkerStep

\* The parts of the type invariant, but for the fan-out's, under every step.
LEMMA ServerTypesInductive ==
  ASSUME ServerTypes, FanOutInv, [Next]_vars PROVE RequestTypes' /\ BatchTypes' /\ ClientTypes'
  <1>1. RequestTypes /\ BatchTypes /\ ClientTypes
    BY DEF ServerTypes
  <1>0. /\ next \in [Requests -> Nat] /\ ItemCount \in [Requests -> Nat]
        /\ \A p \in Requests : next[p] <= ItemCount[p] + 1
    BY <1>1, MessageServerAssumption DEF RequestTypes
  <1>2. UNCHANGED <<pending, batches, job, accepted>> => BatchTypes'
    BY <1>1 DEF BatchTypes
  <1>3. UNCHANGED clientVars => ClientTypes'
    BY <1>1 DEF ClientTypes, clientVars
  <1>4. UNCHANGED <<phase, requestVars, contextChan, mergeStopped>> => RequestTypes'
    BY <1>1 DEF RequestTypes, requestVars
  <1>5. ASSUME NEW q \in Requests, StartRequest(q) PROVE RequestTypes' /\ BatchTypes' /\ ClientTypes'
    <2>1. /\ next' = [next EXCEPT ![q] = 1]
          /\ UNCHANGED <<phase, origin, refused, contextChan, mergeVars, clientVars, managerVars>>
      BY <1>5 DEF StartRequest
    <2>2. next' \in [Requests -> Nat] /\ \A p \in Requests : next'[p] <= ItemCount[p] + 1
      <3>1. \A p \in Requests : next'[p] = (IF p = q THEN 1 ELSE next[p]) /\ 1 <= ItemCount[p] + 1
        BY <1>0, <2>1
      <3> QED
        BY <1>0, <2>1, <3>1
    <2>3. RequestTypes'
      BY <1>1, <2>1, <2>2 DEF RequestTypes, mergeVars
    <2> QED
      BY <1>2, <1>3, <2>1, <2>3
         DEF mergeVars, managerVars, queueVars, dispatchVars, jobVars, processVars
  <1>6. ASSUME NEW q \in Requests, ServeItem(q) PROVE RequestTypes' /\ BatchTypes' /\ ClientTypes'
    <2> DEFINE t == RequestTopic[q]
               i == next[q]
               m == Len(origin[t])
               entry == [topic |-> t, item |-> m + 1]
    <2>1. /\ t \in Topics /\ i \in Nat /\ m \in Nat /\ entry \in Entries
          /\ 1 <= i /\ i <= ItemCount[q]
          /\ next' \in [Requests -> Nat]
          /\ \A p \in Requests : next'[p] = IF p = q THEN i + 1 ELSE next[p]
          /\ \/ /\ refused' = refused \cup {<<q, i>>}
                /\ UNCHANGED <<origin, contextChan>>
             \/ /\ origin' = [origin EXCEPT ![t] = Append(@, <<q, i>>)]
                /\ contextChan' = [contextChan EXCEPT ![WorkerOf(t)] = Append(@, entry)]
                /\ Len(contextChan[WorkerOf(t)]) # MergerChannelSize
                /\ UNCHANGED refused
          /\ UNCHANGED <<phase, mergeVars, clientVars, managerVars>>
      BY <1>6, ServeSteps
    <2> HIDE DEF t, i, m, entry
    <2>2. \A p \in Requests : next'[p] <= ItemCount[p] + 1
      <3> SUFFICES ASSUME NEW p \in Requests PROVE next'[p] <= ItemCount[p] + 1
        OBVIOUS
      <3>1. i \in Nat /\ ItemCount[p] \in Nat /\ next[p] <= ItemCount[p] + 1
        BY <1>0, <2>1
      <3>2. i <= ItemCount[q] /\ next'[p] = IF p = q THEN i + 1 ELSE next[p]
        BY <2>1
      <3> QED
        BY <3>1, <3>2
    <2>3. refused' \subseteq Requests \X Nat /\ origin' \in [Topics -> Seq(Requests \X Nat)]
      <3>1. <<q, i>> \in Requests \X Nat /\ origin[t] \in Seq(Requests \X Nat)
        BY <1>1, <2>1 DEF RequestTypes
      <3>2. Append(origin[t], <<q, i>>) \in Seq(Requests \X Nat)
        BY <3>1, AppendPlaces
      <3> QED
        BY <1>1, <2>1, <3>1, <3>2 DEF RequestTypes
    <2>4. /\ contextChan' \in [MergeWorkers -> Seq(Entries)]
          /\ \A v \in MergeWorkers : Len(contextChan'[v]) <= MergerChannelSize
      <3>1. contextChan \in [MergeWorkers -> Seq(Entries)]
            /\ \A v \in MergeWorkers : Len(contextChan[v]) <= MergerChannelSize
        BY <1>1 DEF RequestTypes
      <3>2. CASE UNCHANGED contextChan
        BY <3>1, <3>2
      <3>3. CASE /\ contextChan' = [contextChan EXCEPT ![WorkerOf(t)] = Append(@, entry)]
                 /\ Len(contextChan[WorkerOf(t)]) # MergerChannelSize
        <4>1. \A v \in MergeWorkers :
                contextChan'[v] = IF v = WorkerOf(t) THEN Append(contextChan[v], entry)
                                                     ELSE contextChan[v]
          BY <3>1, <3>3
        <4>2. \A v \in MergeWorkers :
                /\ Append(contextChan[v], entry) \in Seq(Entries)
                /\ Len(Append(contextChan[v], entry)) = Len(contextChan[v]) + 1
                /\ Len(contextChan[v]) \in Nat
          BY <2>1, <3>1, AppendPlaces
        <4>3. \A v \in MergeWorkers : contextChan'[v] \in Seq(Entries)
          BY <3>1, <4>1, <4>2
        <4>4. \A v \in MergeWorkers : Len(contextChan'[v]) <= MergerChannelSize
          BY <3>1, <3>3, <4>1, <4>2, MessageServerAssumption
        <4>5. contextChan' = [v \in MergeWorkers |-> contextChan'[v]]
          BY <3>1, <3>3
        <4> QED
          BY <4>3, <4>4, <4>5
      <3> QED
        BY <2>1, <3>2, <3>3
    <2>5. RequestTypes'
      BY <1>1, <2>1, <2>2, <2>3, <2>4 DEF RequestTypes, mergeVars
    <2> QED
      BY <1>2, <1>3, <2>1, <2>5
         DEF mergeVars, managerVars, queueVars, dispatchVars, jobVars, processVars
  <1>7. ASSUME NEW w \in MergeWorkers, TakeContext(w) PROVE RequestTypes' /\ BatchTypes' /\ ClientTypes'
    <2> DEFINE t == Head(contextChan[w]).topic
               n == Head(contextChan[w]).item
               items == Append(pending[t], n)
    <2>1. /\ contextChan[w] \in Seq(Entries) /\ contextChan[w] # <<>>
          /\ t \in Topics /\ n \in Nat
          /\ contextChan' \in [MergeWorkers -> Seq(Entries)]
          /\ \A v \in MergeWorkers :
               contextChan'[v] = IF v = w THEN Tail(contextChan[w]) ELSE contextChan[v]
          /\ items \in Seq(Nat) /\ Len(items) \in 1..MaxMergerBatchSize
          /\ \/ Commit(t, items)
             \/ /\ pending' = [pending EXCEPT ![t] = items]
                /\ Len(items) < MaxMergerBatchSize
                /\ UNCHANGED <<batches, job, managerVars>>
          /\ UNCHANGED <<phase, requestVars, mergeStopped, clientVars>>
      BY <1>7, TakeSteps
    <2> HIDE DEF t, n, items
    <2>2. \A v \in MergeWorkers : Len(contextChan'[v]) <= MergerChannelSize
      <3>1. /\ Len(Tail(contextChan[w])) = Len(contextChan[w]) - 1 /\ Len(contextChan[w]) \in Nat
        BY <2>1, TailPlaces
      <3> QED
        BY <1>1, <2>1, <3>1, MessageServerAssumption DEF RequestTypes
    <2>3. RequestTypes'
      BY <1>1, <2>1, <2>2 DEF RequestTypes, requestVars
    <2>4. BatchTypes'
      <3>1. CASE Commit(t, items)
        BY <2>1, <3>1, CommitSteps
      <3>2. CASE /\ pending' = [pending EXCEPT ![t] = items]
                 /\ Len(items) < MaxMergerBatchSize
                 /\ UNCHANGED <<batches, job, managerVars>>
        <4>1. pending' \in [Topics -> Seq(Nat)]
              /\ \A x \in Topics : Len(pending'[x]) < MaxMergerBatchSize
          BY <1>1, <2>1, <3>2 DEF BatchTypes
        <4> QED
          BY <1>1, <3>2, <4>1
             DEF BatchTypes, managerVars, queueVars, dispatchVars, jobVars, processVars
      <3> QED
        BY <2>1, <3>1, <3>2
    <2> QED
      BY <1>3, <2>1, <2>3, <2>4
  <1>8. ASSUME NEW t \in Topics, TakeTimeout(t) PROVE RequestTypes' /\ BatchTypes' /\ ClientTypes'
    <2>1. /\ pending[t] \in Seq(Nat) /\ Len(pending[t]) \in 1..MaxMergerBatchSize
          /\ Commit(t, pending[t])
          /\ UNCHANGED <<phase, requestVars, contextChan, mergeStopped, clientVars>>
      BY <1>8, TimeoutSteps
    <2>2. BatchTypes'
      BY <2>1, CommitSteps
    <2> QED
      BY <1>3, <1>4, <2>1, <2>2
  <1>9. ASSUME NEW w \in JobWorkers, DeliverJob(w) PROVE RequestTypes' /\ BatchTypes' /\ ClientTypes'
    <2>1. /\ ClientTypes'
          /\ UNCHANGED <<phase, requestVars, contextChan, mergeVars, accepted>>
      BY <1>9, ExecuteSteps
    <2> QED
      BY <1>2, <1>4, <2>1 DEF mergeVars
  <1>10. ASSUME NEW c \in Clients, WriteMessage(c) PROVE RequestTypes' /\ BatchTypes' /\ ClientTypes'
    <2>1. /\ unread[c] > 0 /\ unread' = [unread EXCEPT ![c] = @ - 1]
          /\ UNCHANGED <<phase, requestVars, contextChan, mergeVars, received, managerVars>>
      BY <1>10 DEF WriteMessage
    <2>2. unread' \in [Clients -> 0..WsOutChannelSize]
      BY <1>1, <2>1, MessageServerAssumption DEF ClientTypes
    <2> QED
      BY <1>1, <1>2, <1>4, <2>1, <2>2
         DEF ClientTypes, mergeVars, managerVars, queueVars, dispatchVars, jobVars, processVars
  <1>11. CASE /\ ~\E q \in Requests : StartRequest(q) \/ ServeItem(q)
              /\ ~\E w \in MergeWorkers : TakeContext(w)
              /\ ~\E t \in Topics : TakeTimeout(t)
              /\ ~\E w \in JobWorkers : DeliverJob(w)
              /\ ~\E c \in Clients : WriteMessage(c)
    <2>1. /\ UNCHANGED <<requestVars, contextChan, pending, batches, job, clientVars, accepted>>
          /\ phase' \in {phase, "httpClosing", "mergeClosed"}
          /\ mergeStopped' \in {mergeStopped} \cup {mergeStopped \cup {w} : w \in MergeWorkers}
      BY <1>11, OtherSteps
    <2>2. RequestTypes'
      BY <1>1, <2>1 DEF RequestTypes, requestVars
    <2> QED
      BY <1>2, <1>3, <2>1, <2>2
  <1> QED
    BY <1>5, <1>6, <1>7, <1>8, <1>9, <1>10, <1>11

\* The fan-out's invariant and the types, together.
LEMMA ServerTypesHold == Spec => [](FanOutInv /\ ServerTypes)
  <1>1. Spec => []FanOutInv
    BY FanOutHolds, ServerDispatches, PTL
  <1>2. FanOutInv' => DispatchTypeOK'
    BY DEF FanOutInv
  <1>3. FanOutInv /\ FanOutInv' /\ ServerTypes /\ [Next]_vars => ServerTypes'
    BY <1>2, ServerTypesInductive DEF ServerTypes
  <1> QED
    BY <1>1, <1>3, ServerTypesInit, PTL DEF Spec

\* No queue of the server grows beyond its size, no open batch reaches the size
\* at which it must be committed, no committed batch is empty or too large, and
\* there is a batch for every job that dispatchChan has accepted.
THEOREM ServerTypeCorrect == Spec => []TypeOK
  <1>1. ServerTypes => TypeOK
    <2> SUFFICES ASSUME ServerTypes PROVE TypeOK
      OBVIOUS
    <2>1. RequestTypes /\ BatchTypes /\ ClientTypes
      BY DEF ServerTypes
    <2>2. /\ phase \in {"running", "httpClosing", "mergeClosed"}
          /\ \A q \in Requests : next[q] \in 0..(ItemCount[q] + 1)
          /\ \A t \in Topics : origin[t] \in Seq(Requests \X Nat)
          /\ refused \subseteq Requests \X Nat
          /\ \A w \in MergeWorkers : Len(contextChan[w]) <= MergerChannelSize
          /\ mergeStopped \subseteq MergeWorkers
      BY <2>1, MessageServerAssumption DEF RequestTypes
    <2>3. /\ \A t \in Topics : Len(pending[t]) < MaxMergerBatchSize
          /\ \A k \in DOMAIN batches : Len(batches[k].items) \in 1..MaxMergerBatchSize
          /\ Len(job) = accepted
      BY <2>1, LenProperties DEF BatchTypes
    <2> QED
      BY <2>1, <2>2, <2>3 DEF TypeOK, ClientTypes
  <1> QED
    BY <1>1, ServerTypesHold, PTL
-----------------------------------------------------------------------------
(* The items of the requests.                                                *)

\* What entered the order of a topic comes from a request for it, whose loop has
\* passed that item, and was not refused.
EntriesServed ==
  \A t \in Topics : \A n \in 1..Len(origin[t]) :
    /\ RequestTopic[origin[t][n][1]] = t
    /\ origin[t][n][2] < next[origin[t][n][1]]
    /\ origin[t][n] \notin refused

\* The items of one request entered in the order of the request.
EntriesOrdered ==
  \A t \in Topics : \A n, k \in 1..Len(origin[t]) :
    n < k /\ origin[t][n][1] = origin[t][k][1] => origin[t][n][2] < origin[t][k][2]

\* A refused item was served.
RefusedServed == \A q \in Requests, i \in Nat : <<q, i>> \in refused => i < next[q]

\* An item that was served is refused or entered the order.
Entered(q, i) ==
  \E n \in 1..Len(origin[RequestTopic[q]]) : origin[RequestTopic[q]][n] = <<q, i>>
ServedPlaced ==
  \A q \in Requests, i \in Nat : 1 <= i /\ i < next[q] => <<q, i>> \in refused \/ Entered(q, i)

RequestsServed == EntriesServed /\ EntriesOrdered /\ RefusedServed /\ ServedPlaced

\* At the start nothing has been served.
LEMMA RequestsServedInit == Init => RequestsServed
  <1> SUFFICES ASSUME Init PROVE RequestsServed
    OBVIOUS
  <1>1. \A t \in Topics : 1..Len(origin[t]) = {}
    BY DEF Init
  <1>2. refused = {} /\ \A q \in Requests : next[q] = 0
    BY DEF Init
  <1> QED
    BY <1>1, <1>2
       DEF RequestsServed, EntriesServed, EntriesOrdered, RefusedServed, ServedPlaced

\* The request's item enters the order of its topic, or is refused.
LEMMA ServeItemKeeps ==
  ASSUME ServerTypes, RequestsServed, NEW q \in Requests, ServeItem(q) PROVE RequestsServed'
  <1> DEFINE t == RequestTopic[q]
             i == next[q]
             m == Len(origin[t])
             entry == [topic |-> t, item |-> m + 1]
  <1>1. /\ t \in Topics /\ i \in Nat /\ m \in Nat
        /\ next' \in [Requests -> Nat]
        /\ \A p \in Requests : next'[p] = IF p = q THEN i + 1 ELSE next[p]
        /\ \/ refused' = refused \cup {<<q, i>>} /\ UNCHANGED origin
           \/ origin' = [origin EXCEPT ![t] = Append(@, <<q, i>>)] /\ UNCHANGED refused
    <2>1. /\ t \in Topics /\ i \in Nat /\ m \in Nat /\ entry \in Entries
          /\ 1 <= i /\ i <= ItemCount[q]
          /\ next' \in [Requests -> Nat]
          /\ \A p \in Requests : next'[p] = IF p = q THEN i + 1 ELSE next[p]
          /\ \/ /\ refused' = refused \cup {<<q, i>>}
                /\ UNCHANGED <<origin, contextChan>>
             \/ /\ origin' = [origin EXCEPT ![t] = Append(@, <<q, i>>)]
                /\ contextChan' = [contextChan EXCEPT ![WorkerOf(t)] = Append(@, entry)]
                /\ Len(contextChan[WorkerOf(t)]) # MergerChannelSize
                /\ UNCHANGED refused
          /\ UNCHANGED <<phase, mergeVars, clientVars, managerVars>>
      BY ServeSteps
    <2> HIDE DEF t, i, m, entry
    <2> QED
      BY <2>1
  <1>2. /\ next \in [Requests -> Nat] /\ origin \in [Topics -> Seq(Requests \X Nat)]
        /\ refused \subseteq Requests \X Nat
        /\ RequestTopic \in [Requests -> Topics]
    BY MessageServerAssumption DEF ServerTypes, RequestTypes
  <1>3. EntriesServed /\ EntriesOrdered /\ RefusedServed /\ ServedPlaced
    BY DEF RequestsServed
  <1>4. \A x \in Topics : /\ Len(origin[x]) \in Nat
                          /\ \A n \in 1..Len(origin[x]) : origin[x][n] \in Requests \X Nat
    BY <1>2
  <1>5. \A p \in Requests : next[p] \in Nat /\ next[p] <= next'[p] /\ next'[p] \in Nat
    <2> SUFFICES ASSUME NEW p \in Requests
                 PROVE  next[p] \in Nat /\ next[p] <= next'[p] /\ next'[p] \in Nat
      OBVIOUS
    <2>1. next[p] \in Nat /\ next'[p] = IF p = q THEN i + 1 ELSE next[p]
      BY <1>1, <1>2
    <2> QED
      BY <2>1
  <1>6. <<q, i>> \notin refused
    BY <1>1, <1>3 DEF RefusedServed
  <1>7. RequestTopic[q] = t
    OBVIOUS
  <1>8. next[q] = i
    OBVIOUS
  <1> HIDE DEF t, i, m
  <1>9. \A x \in Topics : \A n \in 1..Len(origin[x]) :
          origin[x][n][1] \in Requests /\ origin[x][n][2] \in Nat
    BY <1>4
  <1>10. CASE refused' = refused \cup {<<q, i>>} /\ UNCHANGED origin
    <2>1. EntriesServed'
      <3> SUFFICES ASSUME NEW x \in Topics, NEW n \in 1..Len(origin[x])
                   PROVE  /\ RequestTopic[origin[x][n][1]] = x
                          /\ origin[x][n][2] < next'[origin[x][n][1]]
                          /\ origin[x][n] \notin refused'
        BY <1>10 DEF EntriesServed
      <3>1. /\ RequestTopic[origin[x][n][1]] = x
            /\ origin[x][n][2] < next[origin[x][n][1]]
            /\ origin[x][n] \notin refused
        BY <1>3 DEF EntriesServed
      <3>2. origin[x][n][1] \in Requests /\ origin[x][n][2] \in Nat
        BY <1>9
      <3>3. origin[x][n] # <<q, i>>
        BY <1>1, <1>8, <3>1, <3>2
      <3>4. origin[x][n][2] < next'[origin[x][n][1]]
        BY <1>5, <3>1, <3>2
      <3> QED
        BY <1>10, <3>1, <3>3, <3>4
    <2>2. EntriesOrdered'
      BY <1>3, <1>10 DEF EntriesOrdered
    <2>3. RefusedServed'
      <3> SUFFICES ASSUME NEW p \in Requests, NEW k \in Nat, <<p, k>> \in refused'
                   PROVE  k < next'[p]
        BY DEF RefusedServed
      <3>1. CASE <<p, k>> \in refused
        BY <1>3, <1>5, <3>1 DEF RefusedServed
      <3>2. CASE <<p, k>> = <<q, i>>
        BY <1>1, <3>2
      <3> QED
        BY <1>10, <3>1, <3>2
    <2>4. ServedPlaced'
      <3> SUFFICES ASSUME NEW p \in Requests, NEW k \in Nat, 1 <= k, k < next'[p]
                   PROVE  <<p, k>> \in refused' \/ Entered(p, k)'
        BY DEF ServedPlaced
      <3>1. CASE k < next[p]
        BY <1>3, <1>10, <3>1 DEF ServedPlaced, Entered
      <3>2. CASE ~(k < next[p])
        <4>1. p = q /\ k = i
          BY <1>1, <1>5, <1>8, <3>2
        <4> QED
          BY <1>10, <4>1
      <3> QED
        BY <3>1, <3>2
    <2> QED
      BY <2>1, <2>2, <2>3, <2>4 DEF RequestsServed
  <1>11. CASE origin' = [origin EXCEPT ![t] = Append(@, <<q, i>>)] /\ UNCHANGED refused
    <2>1. /\ Len(Append(origin[t], <<q, i>>)) = m + 1 /\ Len(origin[t]) = m
          /\ \A n \in 1..m : Append(origin[t], <<q, i>>)[n] = origin[t][n]
          /\ Append(origin[t], <<q, i>>)[m + 1] = <<q, i>>
      <3>1. origin[t] \in Seq(Requests \X Nat) /\ <<q, i>> \in Requests \X Nat
        BY <1>1, <1>2
      <3> QED
        BY <3>1, AppendPlaces DEF m
    <2>2. \A x \in Topics :
            origin'[x] = IF x = t THEN Append(origin[t], <<q, i>>) ELSE origin[x]
      BY <1>1, <1>2, <1>11
    <2>3. \A x \in Topics : \A n \in 1..Len(origin'[x]) :
            \/ n \in 1..Len(origin[x]) /\ origin'[x][n] = origin[x][n]
            \/ x = t /\ n = m + 1 /\ origin'[x][n] = <<q, i>>
      <3> SUFFICES ASSUME NEW x \in Topics, NEW n \in 1..Len(origin'[x])
                   PROVE  \/ n \in 1..Len(origin[x]) /\ origin'[x][n] = origin[x][n]
                          \/ x = t /\ n = m + 1 /\ origin'[x][n] = <<q, i>>
        OBVIOUS
      <3>1. CASE x = t
        <4>1. n \in 1..m \/ n = m + 1
          <5>1. n \in 1..(m + 1)
            BY <1>1, <2>1, <2>2, <3>1
          <5> QED
            BY <1>1, <5>1
        <4> QED
          BY <2>1, <2>2, <3>1, <4>1
      <3>2. CASE x # t
        BY <2>2, <3>2
      <3> QED
        BY <3>1, <3>2
    <2>4. EntriesServed'
      <3> SUFFICES ASSUME NEW x \in Topics, NEW n \in 1..Len(origin'[x])
                   PROVE  /\ RequestTopic[origin'[x][n][1]] = x
                          /\ origin'[x][n][2] < next'[origin'[x][n][1]]
                          /\ origin'[x][n] \notin refused'
        BY DEF EntriesServed
      <3>1. CASE n \in 1..Len(origin[x]) /\ origin'[x][n] = origin[x][n]
        <4>1. origin[x][n][1] \in Requests /\ origin[x][n][2] \in Nat
          BY <1>9, <3>1
        <4>2. /\ RequestTopic[origin[x][n][1]] = x
              /\ origin[x][n][2] < next[origin[x][n][1]]
              /\ origin[x][n] \notin refused
          BY <1>3, <3>1 DEF EntriesServed
        <4>3. origin[x][n][2] < next'[origin[x][n][1]]
          BY <1>5, <4>1, <4>2
        <4> QED
          BY <1>11, <3>1, <4>2, <4>3
      <3>2. CASE x = t /\ origin'[x][n] = <<q, i>>
        <4>1. i < next'[q]
          BY <1>1
        <4>2. origin'[x][n][1] = q /\ origin'[x][n][2] = i
          BY <3>2
        <4>3. RequestTopic[origin'[x][n][1]] = x
          BY <1>7, <3>2, <4>2
        <4>4. origin'[x][n][2] < next'[origin'[x][n][1]]
          BY <4>1, <4>2
        <4>5. origin'[x][n] \notin refused'
          <5>1. refused' = refused
            BY <1>11
          <5> QED
            BY <1>6, <3>2, <5>1
        <4> QED
          BY <4>3, <4>4, <4>5
      <3> QED
        BY <2>3, <3>1, <3>2
    <2>5. EntriesOrdered'
      <3> SUFFICES ASSUME NEW x \in Topics, NEW n \in 1..Len(origin'[x]), NEW k \in 1..Len(origin'[x]),
                          n < k, origin'[x][n][1] = origin'[x][k][1]
                   PROVE  origin'[x][n][2] < origin'[x][k][2]
        BY DEF EntriesOrdered
      <3>1. CASE /\ k \in 1..Len(origin[x]) /\ origin'[x][k] = origin[x][k]
        <4>1. n \in 1..Len(origin[x]) /\ origin'[x][n] = origin[x][n]
          BY <1>1, <1>4, <2>1, <2>3, <3>1
        <4> QED
          BY <1>3, <3>1, <4>1 DEF EntriesOrdered
      <3>2. CASE x = t /\ k = m + 1 /\ origin'[x][k] = <<q, i>>
        <4>1. n \in 1..Len(origin[x]) /\ origin'[x][n] = origin[x][n]
          BY <2>3, <3>2
        <4>2. origin[x][n][1] = q
          BY <3>2, <4>1
        <4>3. origin[x][n][2] < next[q]
          BY <1>3, <4>1, <4>2 DEF EntriesServed
        <4> QED
          BY <1>8, <3>2, <4>1, <4>3
      <3> QED
        BY <2>3, <3>1, <3>2
    <2>6. RefusedServed'
      BY <1>3, <1>5, <1>11 DEF RefusedServed
    <2>7. ServedPlaced'
      <3> SUFFICES ASSUME NEW p \in Requests, NEW k \in Nat, 1 <= k, k < next'[p]
                   PROVE  <<p, k>> \in refused' \/ Entered(p, k)'
        BY DEF ServedPlaced
      <3>1. CASE k < next[p]
        <4>1. CASE <<p, k>> \in refused
          BY <1>11, <4>1
        <4>2. CASE Entered(p, k)
          <5> DEFINE x == RequestTopic[p]
          <5>1. PICK n \in 1..Len(origin[x]) : origin[x][n] = <<p, k>>
            BY <4>2 DEF Entered
          <5>2. x \in Topics
            BY <1>2
          <5>3. n \in 1..Len(origin'[x]) /\ origin'[x][n] = <<p, k>>
            <6>1. CASE x = t
              <7>1. Len(origin'[x]) = m + 1 /\ n \in 1..m
                BY <1>1, <2>1, <2>2, <5>1, <6>1
              <7>2. n \in 1..(m + 1)
                BY <1>1, <7>1
              <7> QED
                BY <1>1, <2>1, <2>2, <5>1, <6>1, <7>1, <7>2
            <6>2. CASE x # t
              BY <2>2, <5>1, <5>2, <6>2
            <6> QED
              BY <6>1, <6>2
          <5> QED
            BY <5>3 DEF Entered
        <4> QED
          BY <1>3, <3>1, <4>1, <4>2 DEF ServedPlaced
      <3>2. CASE ~(k < next[p])
        <4>1. p = q /\ k = i
          BY <1>1, <1>5, <1>8, <3>2
        <4>2. m + 1 \in 1..Len(origin'[t]) /\ origin'[t][m + 1] = <<q, i>>
          <5>1. Len(origin'[t]) = m + 1 /\ origin'[t][m + 1] = <<q, i>>
            BY <1>1, <2>1, <2>2
          <5>2. m + 1 \in 1..(m + 1)
            BY <1>1
          <5> QED
            BY <5>1, <5>2
        <4> QED
          BY <1>7, <4>1, <4>2 DEF Entered
      <3> QED
        BY <3>1, <3>2
    <2> QED
      BY <2>4, <2>5, <2>6, <2>7 DEF RequestsServed
  <1> QED
    BY <1>1, <1>10, <1>11

\* Only the requests' own steps touch this.
LEMMA RequestVarsKept ==
  ASSUME [Next]_vars, ~\E q \in Requests : StartRequest(q) \/ ServeItem(q)
  PROVE  UNCHANGED requestVars
  <1>1. CASE UNCHANGED vars
    BY <1>1 DEF vars
  <1>2. CASE \E w \in MergeWorkers : MergeStep(w)
    BY <1>2 DEF MergeStep, TakeContext, MergeStop, TakeTimeout
  <1>3. CASE \E d \in DispatchWorkers : FanOutStep(d)
    BY <1>3 DEF FanOutStep
  <1>4. CASE \E w \in JobWorkers : JobWorkerStep(w)
    BY <1>4 DEF JobWorkerStep, DeliverJob
  <1>5. CASE \E c \in Clients : WriteMessage(c)
    BY <1>5 DEF WriteMessage
  <1>6. CASE HttpServerClose \/ MergeClose \/ CloseConnectManager
    BY <1>6 DEF HttpServerClose, MergeClose, CloseConnectManager
  <1> QED
    BY <1>1, <1>2, <1>3, <1>4, <1>5, <1>6 DEF Next

\* Every step of the server preserves what is known of the requests' items.
LEMMA RequestsServedInductive ==
  ASSUME ServerTypes, RequestsServed, [Next]_vars PROVE RequestsServed'
  <1>1. ASSUME NEW q \in Requests, StartRequest(q) PROVE RequestsServed'
    <2>1. /\ next \in [Requests -> Nat] /\ origin \in [Topics -> Seq(Requests \X Nat)]
      BY DEF ServerTypes, RequestTypes
    <2>2. next[q] = 0 /\ next' = [next EXCEPT ![q] = 1] /\ UNCHANGED <<origin, refused>>
      BY <1>1 DEF StartRequest
    <2>3. \A p \in Requests : next'[p] = (IF p = q THEN 1 ELSE next[p]) /\ next[p] \in Nat
      BY <2>1, <2>2
    <2>4. \A p \in Requests : /\ \A i \in Nat : i < next[p] => i < next'[p]
                              /\ \A i \in Nat : 1 <= i /\ i < next'[p] => i < next[p]
      BY <2>2, <2>3
    <2>5. EntriesServed'
      <3> SUFFICES ASSUME NEW x \in Topics, NEW n \in 1..Len(origin[x])
                   PROVE  /\ RequestTopic[origin[x][n][1]] = x
                          /\ origin[x][n][2] < next'[origin[x][n][1]]
                          /\ origin[x][n] \notin refused
        BY <2>2 DEF EntriesServed
      <3>1. origin[x][n] \in Requests \X Nat
        BY <2>1
      <3> QED
        BY <2>4, <3>1 DEF RequestsServed, EntriesServed
    <2>6. EntriesOrdered'
      BY <2>2 DEF RequestsServed, EntriesOrdered
    <2>7. RefusedServed'
      BY <2>2, <2>4 DEF RequestsServed, RefusedServed
    <2>8. ServedPlaced'
      BY <2>2, <2>4 DEF RequestsServed, ServedPlaced, Entered
    <2> QED
      BY <2>5, <2>6, <2>7, <2>8 DEF RequestsServed
  <1>2. CASE UNCHANGED requestVars
    BY <1>2 DEF requestVars, RequestsServed, EntriesServed, EntriesOrdered, RefusedServed,
                ServedPlaced, Entered
  <1> QED
    BY <1>1, <1>2, ServeItemKeeps, RequestVarsKept

\* However the requests interleave, an item that was served has entered the order
\* of its topic exactly once, in the order of its request, unless it found the
\* queue full; a refused item is nowhere in the order.
THEOREM ItemsAreAccountedFor == Spec => []ItemsAccountedFor
  <1>1. ServerTypes /\ RequestsServed => ItemsAccountedFor
    <2> SUFFICES ASSUME ServerTypes, RequestsServed, NEW q \in Requests, NEW i \in 1..ItemCount[q],
                        NEW order, order = origin[RequestTopic[q]],
                        NEW places, places = {n \in DOMAIN order : order[n] = <<q, i>>}
                 PROVE  /\ i < next[q] /\ <<q, i>> \notin refused <=> Cardinality(places) = 1
                        /\ \A n \in places, k \in DOMAIN order :
                             order[k][1] = q /\ order[k][2] < i => k < n
      BY DEF ItemsAccountedFor
    <2>1. /\ RequestTopic[q] \in Topics /\ order \in Seq(Requests \X Nat)
          /\ ItemCount[q] \in Nat
      BY MessageServerAssumption DEF ServerTypes, RequestTypes
    <2>2. Len(order) \in Nat /\ DOMAIN order = 1..Len(order) /\ i \in Nat /\ 1 <= i
      BY <2>1
    <2>3. \A n \in 1..Len(order) : order[n][2] < next[order[n][1]] /\ order[n] \notin refused
      BY <2>1 DEF RequestsServed, EntriesServed
    <2>4. \A n, k \in 1..Len(order) : n < k /\ order[n][1] = order[k][1] => order[n][2] < order[k][2]
      BY <2>1 DEF RequestsServed, EntriesOrdered
    <2>5. \A n, k \in places : n = k
      <3> SUFFICES ASSUME NEW n \in places, NEW k \in places, n # k PROVE FALSE
        OBVIOUS
      <3>1. n \in 1..Len(order) /\ k \in 1..Len(order) /\ (n < k \/ k < n)
        BY <2>2
      <3>2. order[n] = <<q, i>> /\ order[k] = <<q, i>>
        OBVIOUS
      <3> QED
        BY <2>2, <2>4, <3>1, <3>2
    <2>6. places # {} <=> i < next[q] /\ <<q, i>> \notin refused
      <3>1. places # {} => i < next[q] /\ <<q, i>> \notin refused
        BY <2>2, <2>3
      <3>2. i < next[q] /\ <<q, i>> \notin refused => places # {}
        BY <2>2 DEF RequestsServed, ServedPlaced, Entered
      <3> QED
        BY <3>1, <3>2
    <2>7. places # {} <=> Cardinality(places) = 1
      <3>1. CASE places = {}
        <4>1. Cardinality({}) = 0
          BY FS_EmptySet
        <4> QED
          BY <3>1, <4>1
      <3>2. CASE places # {}
        <4>1. PICK n : n \in places
          BY <3>2
        <4>2. places = {n}
          BY <2>5, <4>1
        <4>3. Cardinality({n}) = 1
          BY FS_Singleton
        <4> QED
          BY <3>2, <4>2, <4>3
      <3> QED
        BY <3>1, <3>2
    <2>8. ASSUME NEW n \in places, NEW k \in DOMAIN order, order[k][1] = q, order[k][2] < i
          PROVE  k < n
      <3>1. n \in 1..Len(order) /\ k \in 1..Len(order) /\ order[n] = <<q, i>>
        BY <2>2
      <3>2. order[k][2] \in Nat
        BY <2>1, <3>1
      <3>3. order[n][1] = q /\ order[n][2] = i
        BY <3>1
      <3>4. ~(i < order[k][2]) /\ order[k][2] # i
        BY <2>2, <2>8, <3>2
      <3>5. ~(n < k) /\ n # k
        BY <2>4, <2>8, <3>1, <3>3, <3>4
      <3> QED
        BY <2>2, <3>1, <3>5
    <2> QED
      BY <2>6, <2>7, <2>8
  <1>2. ServerTypes /\ RequestsServed /\ [Next]_vars => RequestsServed'
    BY RequestsServedInductive
  <1> QED
    BY <1>1, <1>2, RequestsServedInit, ServerTypesHold, PTL DEF Spec
-----------------------------------------------------------------------------
(* The batches: what the merge workers have taken, cut and left open.        *)

\* n is the last item of topic t that is in one of the batches bs, or 0.
LastItem(batch) == batch.items[Len(batch.items)]
IsCut(bs, t, n) ==
  /\ n \in Nat
  /\ n = 0 \/ \E k \in 1..Len(bs) : bs[k].topic = t /\ LastItem(bs[k]) = n
  /\ \A k \in 1..Len(bs) : bs[k].topic = t => LastItem(bs[k]) <= n

\* Broadcast's CutUpTo, of the batches bs.
CutOf(bs, t) ==
  LET last == {bs[k].items[Len(bs[k].items)] : k \in {b \in DOMAIN bs : bs[b].topic = t}}
  IN  CHOOSE n \in last \cup {0} : \A m \in last : m <= n

\* How many items of the topic its merge worker has taken from its queue.
Taken(t) == CutOf(batches, t) + Len(pending[t])

\* The batches of a topic are cut one after the other, each item in one of them,
\* and the open batch continues where the last one ends.
BatchesJoin ==
  /\ \A t \in Topics : IsCut(batches, t, CutOf(batches, t))
  /\ \A k \in 1..Len(batches) : \A i \in 1..Len(batches[k].items) :
       batches[k].items[i] <= CutOf(batches, batches[k].topic)
  /\ \A k, l \in 1..Len(batches) : k < l /\ batches[k].topic = batches[l].topic =>
       \A i \in 1..Len(batches[k].items), m \in 1..Len(batches[l].items) :
         batches[k].items[i] < batches[l].items[m]
  /\ \A t \in Topics : \A i \in 1..Len(pending[t]) : pending[t][i] = CutOf(batches, t) + i

\* An item in a queue is in the queue of its topic's worker, was accepted, and has
\* not been taken.
QueuesOfTopics ==
  \A w \in MergeWorkers : \A i \in 1..Len(contextChan[w]) :
    LET t == contextChan[w][i].topic
        n == contextChan[w][i].item
    IN  w = WorkerOf(t) /\ Taken(t) < n /\ n <= Len(origin[t])

\* The items of a topic wait in their order, and none is missing before another.
QueuesOrdered ==
  \A w \in MergeWorkers : \A i, k \in 1..Len(contextChan[w]) :
    i < k /\ contextChan[w][i].topic = contextChan[w][k].topic =>
      contextChan[w][i].item < contextChan[w][k].item
QueuesComplete ==
  \A w \in MergeWorkers : \A i \in 1..Len(contextChan[w]), t \in Topics, n \in Nat :
    contextChan[w][i].topic = t /\ Taken(t) < n /\ n < contextChan[w][i].item =>
      \E k \in 1..(i - 1) : contextChan[w][k] = [topic |-> t, item |-> n]

\* What was accepted and not taken is in the queue.
QueuesKeep ==
  \A t \in Topics :
    /\ Taken(t) <= Len(origin[t])
    /\ WorkerOf(t) \in MergeWorkers =>
         \A n \in Nat : Taken(t) < n /\ n <= Len(origin[t]) =>
           \E k \in 1..Len(contextChan[WorkerOf(t)]) :
             contextChan[WorkerOf(t)][k] = [topic |-> t, item |-> n]

MergeInv == BatchesJoin /\ QueuesOfTopics /\ QueuesOrdered /\ QueuesComplete /\ QueuesKeep

\* CutOf is the number up to which the batches of a topic go.
LEMMA CutIs ==
  ASSUME NEW bs, NEW t, NEW n, IsCut(bs, t, n), NEW S, bs \in Seq(S),
         \A k \in 1..Len(bs) : LastItem(bs[k]) \in Nat
  PROVE  CutOf(bs, t) = n
  <1> DEFINE last == {bs[k].items[Len(bs[k].items)] : k \in {b \in DOMAIN bs : bs[b].topic = t}}
  <1>1. DOMAIN bs = 1..Len(bs)
    OBVIOUS
  <1>2. \A m : m \in last <=> \E k \in 1..Len(bs) : bs[k].topic = t /\ LastItem(bs[k]) = m
    BY <1>1 DEF LastItem
  <1>3. CutOf(bs, t) = CHOOSE c \in last \cup {0} : \A m \in last : m <= c
    BY DEF CutOf
  <1> HIDE DEF last
  <1>4. last \subseteq Nat /\ n \in Nat
    BY <1>2 DEF IsCut
  <1>5. n \in last \cup {0} /\ \A m \in last : m <= n
    BY <1>2 DEF IsCut
  <1>6. \A c \in last \cup {0} : (\A m \in last : m <= c) => c = n
    <2> SUFFICES ASSUME NEW c \in last \cup {0}, \A m \in last : m <= c PROVE c = n
      OBVIOUS
    <2>1. c \in Nat /\ c <= n /\ n <= c
      BY <1>4, <1>5
    <2> QED
      BY <1>4, <2>1
  <1> QED
    BY <1>3, <1>5, <1>6

\* The items of the batches are numbers, and every batch has a last one.
LEMMA BatchItems ==
  ASSUME BatchTypes
  PROVE  /\ batches \in Seq(Batches) /\ Len(batches) \in Nat
         /\ \A k \in 1..Len(batches) :
              /\ batches[k].topic \in Topics /\ batches[k].items \in Seq(Nat)
              /\ Len(batches[k].items) \in 1..Len(batches[k].items)
              /\ \A i \in 1..Len(batches[k].items) : batches[k].items[i] \in Nat
              /\ LastItem(batches[k]) \in Nat
  <1>1. batches \in Seq(Batches)
    BY DEF BatchTypes
  <1>2. ASSUME NEW k \in 1..Len(batches)
        PROVE  /\ batches[k].topic \in Topics /\ batches[k].items \in Seq(Nat)
               /\ Len(batches[k].items) \in 1..Len(batches[k].items)
               /\ \A i \in 1..Len(batches[k].items) : batches[k].items[i] \in Nat
               /\ LastItem(batches[k]) \in Nat
    <2>1. batches[k] \in Batches
      BY <1>1
    <2>2. batches[k].topic \in Topics /\ batches[k].items \in Seq(Nat)
      BY <2>1 DEF Batches
    <2>3. Len(batches[k].items) \in 1..MaxMergerBatchSize /\ MaxMergerBatchSize \in Nat
      BY MessageServerAssumption DEF BatchTypes
    <2>4. Len(batches[k].items) \in 1..Len(batches[k].items)
      BY <2>3
    <2>5. \A i \in 1..Len(batches[k].items) : batches[k].items[i] \in Nat
      BY <2>2
    <2> QED
      BY <2>2, <2>4, <2>5 DEF LastItem
  <1> QED
    BY <1>1, <1>2

\* A batch that continues where the last one of its topic ends is committed.
LEMMA CommitJoins ==
  ASSUME ServerTypes, BatchesJoin, NEW t \in Topics, NEW items \in Seq(Nat),
         Len(items) \in 1..MaxMergerBatchSize, Commit(t, items),
         \A i \in 1..Len(items) : items[i] = CutOf(batches, t) + i
  PROVE  /\ BatchesJoin'
         /\ \A x \in Topics : CutOf(batches', x) =
              IF x = t THEN CutOf(batches, t) + Len(items) ELSE CutOf(batches, x)
         /\ \A x \in Topics : pending'[x] = IF x = t THEN <<>> ELSE pending[x]
  <1> DEFINE cut == CutOf(batches, t)
             n == Len(items)
             m == Len(batches) + 1
  <1>1. /\ BatchTypes' /\ Len(batches) \in Nat /\ Len(batches') = m
        /\ \A k \in 1..Len(batches) : batches'[k] = batches[k]
        /\ batches'[m] = [topic |-> t, items |-> items]
        /\ \A x \in Topics : pending'[x] = IF x = t THEN <<>> ELSE pending[x]
    BY CommitSteps
  <1>2. BatchTypes
    BY DEF ServerTypes
  <1>3. /\ batches \in Seq(Batches)
        /\ \A k \in 1..Len(batches) :
             /\ batches[k].topic \in Topics
             /\ \A i \in 1..Len(batches[k].items) : batches[k].items[i] \in Nat
             /\ LastItem(batches[k]) \in Nat
    BY <1>2, BatchItems
  <1>4. n \in Nat /\ 1 <= n /\ n \in 1..n /\ cut \in Nat /\ \A i \in 1..n : items[i] = cut + i
    BY MessageServerAssumption DEF BatchesJoin, IsCut
  <1>5. batches'[m].topic = t /\ batches'[m].items = items /\ LastItem(batches'[m]) = cut + n
    BY <1>1, <1>4 DEF LastItem
  <1>6. \A x \in Topics : IsCut(batches, x, CutOf(batches, x))
    BY DEF BatchesJoin
  <1>7. \A k \in 1..m : k \in 1..Len(batches) \/ k = m
    BY <1>1
  <1>8. m \in 1..m /\ \A k \in 1..Len(batches) : k \in 1..m
    BY <1>1
  <1> HIDE DEF cut, n, m
  <1>9. batches' \in Seq(Batches) /\ \A k \in 1..Len(batches') : LastItem(batches'[k]) \in Nat
    <2>1. batches' \in Seq(Batches)
      BY <1>1 DEF BatchTypes
    <2>2. ASSUME NEW k \in 1..Len(batches') PROVE LastItem(batches'[k]) \in Nat
      <3>1. CASE k \in 1..Len(batches)
        <4>1. batches'[k] = batches[k]
          BY <1>1, <3>1
        <4> QED
          BY <1>3, <3>1, <4>1
      <3>2. CASE k = m
        BY <1>4, <1>5, <3>2
      <3> QED
        BY <1>1, <1>7, <2>2, <3>1, <3>2
    <2> QED
      BY <2>1, <2>2
  <1>10. CutOf(batches', t) = cut + n /\ IsCut(batches', t, cut + n)
    <2>1. IsCut(batches, t, cut)
      BY <1>6 DEF cut
    <2>2. \A k \in 1..Len(batches') : batches'[k].topic = t => LastItem(batches'[k]) <= cut + n
      <3>1. \A k \in 1..Len(batches) : batches[k].topic = t => LastItem(batches[k]) <= cut + n
        BY <1>3, <1>4, <2>1 DEF IsCut
      <3>2. SUFFICES ASSUME NEW k \in 1..m, batches'[k].topic = t
                     PROVE  LastItem(batches'[k]) <= cut + n
        BY <1>1
      <3>3. CASE k \in 1..Len(batches)
        <4>1. batches'[k] = batches[k]
          BY <1>1, <3>3
        <4> QED
          BY <3>1, <3>2, <3>3, <4>1
      <3>4. CASE k = m
        BY <1>4, <1>5, <3>4
      <3> QED
        BY <1>7, <3>2, <3>3, <3>4
    <2>3. IsCut(batches', t, cut + n)
      BY <1>1, <1>4, <1>5, <1>8, <2>2 DEF IsCut
    <2> QED
      BY <1>9, <2>3, CutIs
  <1>11. ASSUME NEW x \in Topics, x # t
         PROVE  CutOf(batches', x) = CutOf(batches, x) /\ IsCut(batches', x, CutOf(batches, x))
    <2> DEFINE c == CutOf(batches, x)
    <2>1. IsCut(batches, x, c)
      BY <1>6
    <2> HIDE DEF c
    <2>2. \A k \in 1..Len(batches') : batches'[k].topic = x => LastItem(batches'[k]) <= c
      BY <1>1, <1>5, <1>7, <1>11, <2>1 DEF IsCut
    <2>3. c = 0 \/ \E k \in 1..Len(batches') : batches'[k].topic = x /\ LastItem(batches'[k]) = c
      BY <1>1, <1>8, <2>1 DEF IsCut
    <2>4. IsCut(batches', x, c)
      BY <2>1, <2>2, <2>3 DEF IsCut
    <2>5. CutOf(batches', x) = c
      BY <1>9, <2>4, CutIs
    <2> QED
      BY <2>4, <2>5 DEF c
  <1>12. \A x \in Topics : CutOf(batches', x) = IF x = t THEN cut + n ELSE CutOf(batches, x)
    BY <1>10, <1>11
  <1>13. \A x \in Topics : /\ CutOf(batches, x) \in Nat /\ CutOf(batches', x) \in Nat
                           /\ CutOf(batches, x) <= CutOf(batches', x)
    <2>1. cut = CutOf(batches, t)
      BY DEF cut
    <2> QED
      BY <1>4, <1>6, <1>12, <2>1 DEF IsCut
  <1>14. BatchesJoin'
    <2>1. \A x \in Topics : IsCut(batches', x, CutOf(batches', x))
      BY <1>10, <1>11
    <2>2. \A k \in 1..Len(batches) : \A i \in 1..Len(batches[k].items) :
            batches[k].items[i] <= CutOf(batches, batches[k].topic)
      BY DEF BatchesJoin
    <2>3. \A k \in 1..Len(batches') : \A i \in 1..Len(batches'[k].items) :
            batches'[k].items[i] <= CutOf(batches', batches'[k].topic)
      <3> SUFFICES ASSUME NEW k \in 1..Len(batches'), NEW i \in 1..Len(batches'[k].items)
                   PROVE  batches'[k].items[i] <= CutOf(batches', batches'[k].topic)
        OBVIOUS
      <3>1. CASE k \in 1..Len(batches)
        <4>1. /\ batches[k].items[i] \in Nat /\ batches[k].topic \in Topics
              /\ batches[k].items[i] <= CutOf(batches, batches[k].topic)
          BY <1>1, <1>3, <2>2, <3>1
        <4>2. batches'[k] = batches[k]
          BY <1>1, <3>1
        <4>3. /\ CutOf(batches, batches[k].topic) \in Nat
              /\ CutOf(batches', batches[k].topic) \in Nat
              /\ CutOf(batches, batches[k].topic) <= CutOf(batches', batches[k].topic)
          BY <1>13, <4>1
        <4>4. batches[k].items[i] <= CutOf(batches', batches[k].topic)
          BY <4>1, <4>3
        <4> QED
          BY <4>2, <4>4
      <3>2. CASE k = m
        <4>1. i \in 1..n /\ batches'[k].items[i] = cut + i
          BY <1>4, <1>5, <3>2 DEF n
        <4>2. cut + i <= cut + n
          BY <1>4, <4>1
        <4> QED
          BY <1>5, <1>10, <3>2, <4>1, <4>2
      <3> QED
        BY <1>1, <1>7, <3>1, <3>2
    <2>4. ASSUME NEW k \in 1..Len(batches'), NEW l \in 1..Len(batches'), k < l,
                 batches'[k].topic = batches'[l].topic,
                 NEW i \in 1..Len(batches'[k].items), NEW j \in 1..Len(batches'[l].items)
          PROVE  batches'[k].items[i] < batches'[l].items[j]
      <3>1. k \in 1..Len(batches) /\ batches'[k] = batches[k]
        BY <1>1, <1>7, <2>4
      <3>2. CASE l \in 1..Len(batches)
        BY <1>1, <2>4, <3>1, <3>2 DEF BatchesJoin
      <3>3. CASE l = m
        <4>1. j \in 1..n /\ batches'[l].items[j] = cut + j
          BY <1>4, <1>5, <3>3 DEF n
        <4>2. batches[k].items[i] <= cut /\ batches[k].items[i] \in Nat
          BY <1>3, <1>5, <2>2, <2>4, <3>1, <3>3 DEF cut
        <4>3. \A a, b, c \in Nat : \A x \in 1..b : a <= c => a < c + x
          OBVIOUS
        <4>4. batches[k].items[i] < cut + j
          BY <1>4, <4>1, <4>2, <4>3
        <4> QED
          BY <3>1, <4>1, <4>4
      <3> QED
        BY <1>1, <1>7, <3>2, <3>3
    <2>5. \A x \in Topics : \A i \in 1..Len(pending'[x]) : pending'[x][i] = CutOf(batches', x) + i
      <3> SUFFICES ASSUME NEW x \in Topics, NEW i \in 1..Len(pending'[x])
                   PROVE  pending'[x][i] = CutOf(batches', x) + i
        OBVIOUS
      <3>1. x # t
        BY <1>1
      <3> QED
        BY <1>1, <1>11, <3>1 DEF BatchesJoin
    <2> QED
      BY <2>1, <2>3, <2>4, <2>5 DEF BatchesJoin
  <1> QED
    BY <1>1, <1>12, <1>14 DEF cut, n

\* The numbers this is about.
LEMMA MergeNumbers ==
  ASSUME ServerTypes, BatchesJoin
  PROVE  /\ \A w \in MergeWorkers :
              /\ contextChan[w] \in Seq(Entries) /\ Len(contextChan[w]) \in Nat
              /\ \A i \in 1..Len(contextChan[w]) :
                   /\ contextChan[w][i].topic \in Topics /\ contextChan[w][i].item \in Nat
                   /\ contextChan[w][i] = [topic |-> contextChan[w][i].topic,
                                           item |-> contextChan[w][i].item]
         /\ \A t \in Topics :
              /\ CutOf(batches, t) \in Nat
              /\ pending[t] \in Seq(Nat) /\ Len(pending[t]) \in Nat
              /\ Taken(t) \in Nat /\ Taken(t) = CutOf(batches, t) + Len(pending[t])
              /\ Len(origin[t]) \in Nat
  <1>1. ASSUME NEW w \in MergeWorkers
        PROVE  /\ contextChan[w] \in Seq(Entries) /\ Len(contextChan[w]) \in Nat
               /\ \A i \in 1..Len(contextChan[w]) :
                    /\ contextChan[w][i].topic \in Topics /\ contextChan[w][i].item \in Nat
                    /\ contextChan[w][i] = [topic |-> contextChan[w][i].topic,
                                            item |-> contextChan[w][i].item]
    <2>1. contextChan[w] \in Seq(Entries)
      BY DEF ServerTypes, RequestTypes
    <2>2. Len(contextChan[w]) \in Nat /\ \A i \in 1..Len(contextChan[w]) : contextChan[w][i] \in Entries
      BY <2>1
    <2> QED
      BY <2>1, <2>2 DEF Entries
  <1>2. ASSUME NEW t \in Topics
        PROVE  /\ CutOf(batches, t) \in Nat
               /\ pending[t] \in Seq(Nat) /\ Len(pending[t]) \in Nat
               /\ Taken(t) \in Nat /\ Taken(t) = CutOf(batches, t) + Len(pending[t])
               /\ Len(origin[t]) \in Nat
    <2>1. CutOf(batches, t) \in Nat
      BY DEF BatchesJoin, IsCut
    <2>2. pending[t] \in Seq(Nat) /\ Len(pending[t]) \in Nat
      BY DEF ServerTypes, BatchTypes
    <2>3. Len(origin[t]) \in Nat
      BY DEF ServerTypes, RequestTypes
    <2> QED
      BY <2>1, <2>2, <2>3 DEF Taken
  <1> QED
    BY <1>1, <1>2

\* The oldest item in a queue is the next one of its topic.
LEMMA HeadIsNext ==
  ASSUME ServerTypes, MergeInv, NEW w \in MergeWorkers, contextChan[w] # <<>>,
         NEW t, NEW n, t = Head(contextChan[w]).topic, n = Head(contextChan[w]).item
  PROVE  /\ t \in Topics /\ n = Taken(t) + 1 /\ n <= Len(origin[t]) /\ w = WorkerOf(t)
         /\ Head(contextChan[w]) = contextChan[w][1] /\ 1 \in 1..Len(contextChan[w])
  <1>1. /\ contextChan[w] \in Seq(Entries) /\ Len(contextChan[w]) \in Nat
        /\ \A i \in 1..Len(contextChan[w]) :
             contextChan[w][i].topic \in Topics /\ contextChan[w][i].item \in Nat
    BY MergeNumbers DEF MergeInv
  <1>2. Head(contextChan[w]) = contextChan[w][1] /\ 1 \in 1..Len(contextChan[w])
    BY <1>1, TailPlaces
  <1>3. t \in Topics /\ n \in Nat /\ Taken(t) \in Nat
    BY <1>1, <1>2, MergeNumbers DEF MergeInv
  <1>4. w = WorkerOf(t) /\ Taken(t) < n /\ n <= Len(origin[t])
    BY <1>2 DEF MergeInv, QueuesOfTopics
  <1>5. n = Taken(t) + 1
    <2> SUFFICES ASSUME Taken(t) + 1 # n PROVE FALSE
      OBVIOUS
    <2>1. Taken(t) + 1 \in Nat /\ Taken(t) < Taken(t) + 1 /\ Taken(t) + 1 < n
      <3>1. \A a, b \in Nat : a < b /\ a + 1 # b => a + 1 \in Nat /\ a < a + 1 /\ a + 1 < b
        OBVIOUS
      <3> QED
        BY <1>3, <1>4, <3>1
    <2>2. \E k \in 1..(1 - 1) : contextChan[w][k] = [topic |-> t, item |-> Taken(t) + 1]
      BY <1>2, <1>3, <2>1 DEF MergeInv, QueuesComplete
    <2> QED
      BY <2>2
  <1> QED
    BY <1>2, <1>3, <1>4, <1>5

\* The queues after their worker has taken the next item of topic t.
LEMMA QueuesAfterTake ==
  ASSUME ServerTypes, MergeInv, NEW w \in MergeWorkers, contextChan[w] # <<>>,
         NEW t, t = Head(contextChan[w]).topic,
         contextChan' \in [MergeWorkers -> Seq(Entries)],
         \A v \in MergeWorkers :
           contextChan'[v] = IF v = w THEN Tail(contextChan[w]) ELSE contextChan[v],
         \A x \in Topics : Taken(x)' = IF x = t THEN Taken(t) + 1 ELSE Taken(x),
         UNCHANGED origin
  PROVE  QueuesOfTopics' /\ QueuesOrdered' /\ QueuesComplete' /\ QueuesKeep'
  <1> DEFINE q == contextChan[w]
             n == Head(q).item
  <1>1. /\ \A v \in MergeWorkers :
             /\ contextChan[v] \in Seq(Entries) /\ Len(contextChan[v]) \in Nat
             /\ \A i \in 1..Len(contextChan[v]) :
                  /\ contextChan[v][i].topic \in Topics /\ contextChan[v][i].item \in Nat
                  /\ contextChan[v][i] = [topic |-> contextChan[v][i].topic,
                                          item |-> contextChan[v][i].item]
        /\ \A x \in Topics : Taken(x) \in Nat /\ Len(origin[x]) \in Nat
    BY MergeNumbers DEF MergeInv
  <1>2. /\ t \in Topics /\ n = Taken(t) + 1 /\ n <= Len(origin[t]) /\ w = WorkerOf(t)
        /\ Head(q) = q[1] /\ 1 \in 1..Len(q)
    BY HeadIsNext
  <1>0. n \in Nat /\ \A x \in Topics : Taken(x) \in Nat /\ Len(origin[x]) \in Nat
    BY <1>1, <1>2
  <1>3. /\ Len(Tail(q)) = Len(q) - 1
        /\ \A i \in 1..(Len(q) - 1) : Tail(q)[i] = q[i + 1]
    BY <1>1, TailPlaces
  <1>4. q[1].topic = t /\ q[1].item = n
    BY <1>2
  <1>5. \A v \in MergeWorkers : \A i \in 1..Len(contextChan'[v]) :
          \/ v # w /\ i \in 1..Len(contextChan[v]) /\ contextChan'[v] = contextChan[v]
          \/ v = w /\ i \in 1..(Len(q) - 1) /\ i + 1 \in 1..Len(q) /\ contextChan'[v][i] = q[i + 1]
    <2> SUFFICES ASSUME NEW v \in MergeWorkers, NEW i \in 1..Len(contextChan'[v])
                 PROVE  \/ v # w /\ i \in 1..Len(contextChan[v]) /\ contextChan'[v] = contextChan[v]
                        \/ /\ v = w /\ i \in 1..(Len(q) - 1) /\ i + 1 \in 1..Len(q)
                           /\ contextChan'[v][i] = q[i + 1]
      OBVIOUS
    <2>1. CASE v # w
      BY <2>1
    <2>2. CASE v = w
      <3>1. i \in 1..(Len(q) - 1) /\ contextChan'[v] = Tail(q) /\ Len(q) \in Nat
        BY <1>1, <1>3, <2>2
      <3>2. i + 1 \in 1..Len(q)
        BY <3>1
      <3> QED
        BY <1>3, <2>2, <3>1, <3>2
    <2> QED
      BY <2>1, <2>2
  <1> HIDE DEF q, n
  <1>6. /\ QueuesOfTopics /\ QueuesOrdered /\ QueuesComplete /\ QueuesKeep
        /\ q = contextChan[w]
    BY DEF MergeInv, q
  <1>7. \A i \in 1..Len(q) : q[i].topic \in Topics /\ q[i].item \in Nat /\
                             q[i] = [topic |-> q[i].topic, item |-> q[i].item]
    BY <1>1, <1>6
  <1>8. \A v \in MergeWorkers : \A i \in 1..Len(contextChan[v]) :
          v # w => contextChan[v][i].topic # t
    BY <1>2, <1>6 DEF QueuesOfTopics
  <1>9. QueuesOfTopics'
    <2> SUFFICES ASSUME NEW v \in MergeWorkers, NEW i \in 1..Len(contextChan'[v]),
                        NEW x, NEW k, x = contextChan'[v][i].topic, k = contextChan'[v][i].item
                 PROVE  v = WorkerOf(x) /\ Taken(x)' < k /\ k <= Len(origin[x])
      BY DEF QueuesOfTopics
    <2>1. CASE v # w /\ i \in 1..Len(contextChan[v]) /\ contextChan'[v] = contextChan[v]
      <3>1. x \in Topics /\ x # t
        <4>1. x = contextChan[v][i].topic
          BY <2>1
        <4>2. x # t
          BY <1>8, <2>1, <4>1
        <4>3. contextChan[v][i].topic \in Topics
          BY <1>1, <2>1
        <4> QED
          BY <4>1, <4>2, <4>3
      <3> QED
        BY <1>6, <2>1, <3>1 DEF QueuesOfTopics
    <2>2. CASE v = w /\ i + 1 \in 1..Len(q) /\ i \in 1..(Len(q) - 1) /\ contextChan'[v][i] = q[i + 1]
      <3>1. x \in Topics /\ k \in Nat /\ x = q[i + 1].topic /\ k = q[i + 1].item
        BY <1>7, <2>2
      <3>2. w = WorkerOf(x) /\ Taken(x) < k /\ k <= Len(origin[x])
        BY <1>6, <2>2, <3>1 DEF QueuesOfTopics
      <3>3. CASE x = t
        <4>1. 1 < i + 1
          BY <2>2
        <4>2. n < k
          <5>1. 1 \in 1..Len(q) /\ q[1].topic = q[i + 1].topic
            BY <1>2, <1>4, <3>1, <3>3
          <5>2. q[1].item < q[i + 1].item
            BY <1>6, <2>2, <4>1, <5>1 DEF QueuesOrdered
          <5> QED
            BY <1>4, <3>1, <5>2
        <4> QED
          BY <1>2, <2>2, <3>2, <3>3, <4>2
      <3>4. CASE x # t
        BY <2>2, <3>1, <3>2, <3>4
      <3> QED
        BY <3>3, <3>4
    <2> QED
      BY <1>5, <2>1, <2>2
  <1>10. QueuesOrdered'
    <2> SUFFICES ASSUME NEW v \in MergeWorkers,
                        NEW i \in 1..Len(contextChan'[v]), NEW k \in 1..Len(contextChan'[v]),
                        i < k, contextChan'[v][i].topic = contextChan'[v][k].topic
                 PROVE  contextChan'[v][i].item < contextChan'[v][k].item
      BY DEF QueuesOrdered
    <2>1. CASE v # w
      BY <1>5, <1>6, <2>1 DEF QueuesOrdered
    <2>2. CASE v = w
      <3>1. /\ i + 1 \in 1..Len(q) /\ contextChan'[v][i] = q[i + 1]
            /\ k + 1 \in 1..Len(q) /\ contextChan'[v][k] = q[k + 1]
            /\ i + 1 < k + 1
        BY <1>5, <2>2
      <3> QED
        BY <1>6, <3>1 DEF QueuesOrdered
    <2> QED
      BY <2>1, <2>2
  <1>11. QueuesComplete'
    <2> SUFFICES ASSUME NEW v \in MergeWorkers, NEW i \in 1..Len(contextChan'[v]),
                        NEW x \in Topics, NEW k \in Nat
                 PROVE  contextChan'[v][i].topic = x /\ Taken(x)' < k /\ k < contextChan'[v][i].item =>
                          \E j \in 1..(i - 1) : contextChan'[v][j] = [topic |-> x, item |-> k]
      BY DEF QueuesComplete
    <2> SUFFICES ASSUME x = contextChan'[v][i].topic, Taken(x)' < k, k < contextChan'[v][i].item
                 PROVE  \E j \in 1..(i - 1) : contextChan'[v][j] = [topic |-> x, item |-> k]
      OBVIOUS
    <2>1. CASE v # w /\ i \in 1..Len(contextChan[v]) /\ contextChan'[v] = contextChan[v]
      <3>1. x \in Topics /\ x # t
        <4>1. x = contextChan[v][i].topic
          BY <2>1
        <4>2. x # t
          BY <1>8, <2>1, <4>1
        <4>3. contextChan[v][i].topic \in Topics
          BY <1>1, <2>1
        <4> QED
          BY <4>1, <4>2, <4>3
      <3>2. Taken(x)' = Taken(x)
        BY <3>1
      <3> QED
        BY <1>6, <2>1, <3>2 DEF QueuesComplete
    <2>2. CASE v = w /\ i + 1 \in 1..Len(q) /\ i \in 1..(Len(q) - 1) /\ contextChan'[v][i] = q[i + 1]
      <3>1. x \in Topics /\ x = q[i + 1].topic /\ k < q[i + 1].item
        BY <1>7, <2>2
      <3>2. Taken(x) < k /\ (x = t => n < k)
        <4>1. CASE x = t
          <5>1. Taken(x)' = Taken(t) + 1 /\ Taken(x) = Taken(t) /\ Taken(t) \in Nat
            BY <1>0, <4>1
          <5>2. Taken(x)' < k /\ n = Taken(t) + 1
            BY <1>2
          <5> QED
            BY <5>1, <5>2
        <4>2. CASE x # t
          BY <3>1, <4>2
        <4> QED
          BY <4>1, <4>2
      <3>3. PICK j \in 1..((i + 1) - 1) : q[j] = [topic |-> x, item |-> k]
        BY <1>6, <2>2, <3>1, <3>2 DEF QueuesComplete
      <3>4. q[j].topic = x /\ q[j].item = k
        BY <3>3
      <3>5. j # 1
        BY <1>0, <1>4, <3>2, <3>4
      <3>6. j - 1 \in 1..(i - 1) /\ j - 1 \in 1..(Len(q) - 1) /\ (j - 1) + 1 = j
        BY <2>2, <3>3, <3>5
      <3>7. contextChan'[w][j - 1] = q[j]
        BY <1>3, <1>6, <3>6
      <3> QED
        BY <2>2, <3>3, <3>6, <3>7
    <2> QED
      BY <1>5, <2>1, <2>2
  <1>12. QueuesKeep'
    <2>1. \A x \in Topics : Taken(x)' <= Len(origin[x])
      BY <1>2, <1>6 DEF QueuesKeep
    <2>2. ASSUME NEW x \in Topics, WorkerOf(x) \in MergeWorkers,
                 NEW k \in Nat, Taken(x)' < k, k <= Len(origin[x])
          PROVE  \E j \in 1..Len(contextChan'[WorkerOf(x)]) :
                   contextChan'[WorkerOf(x)][j] = [topic |-> x, item |-> k]
      <3>1. Taken(x) < k /\ (x = t => n < k)
        <4>1. CASE x = t
          <5>1. Taken(x)' = Taken(t) + 1 /\ Taken(x) = Taken(t) /\ Taken(t) \in Nat
            BY <1>0, <4>1
          <5>2. Taken(x)' < k /\ n = Taken(t) + 1
            BY <1>2, <2>2
          <5> QED
            BY <5>1, <5>2
        <4>2. CASE x # t
          BY <2>2, <4>2
        <4> QED
          BY <4>1, <4>2
      <3>2. PICK j \in 1..Len(contextChan[WorkerOf(x)]) :
              contextChan[WorkerOf(x)][j] = [topic |-> x, item |-> k]
        BY <1>6, <2>2, <3>1 DEF QueuesKeep
      <3>3. CASE WorkerOf(x) # w
        BY <2>2, <3>2, <3>3
      <3>4. CASE WorkerOf(x) = w
        <4>1. j \in 1..Len(q) /\ q[j] = [topic |-> x, item |-> k]
          BY <1>6, <3>2, <3>4
        <4>2. q[j].topic = x /\ q[j].item = k
          BY <4>1
        <4>3. j # 1
          BY <1>0, <1>4, <3>1, <4>2
        <4>4. j - 1 \in 1..(Len(q) - 1) /\ (j - 1) + 1 = j
          BY <1>1, <1>6, <4>1, <4>3
        <4>5. contextChan'[w] = Tail(q)
          BY <1>6
        <4>6. contextChan'[w][j - 1] = q[j] /\ j - 1 \in 1..Len(contextChan'[w])
          BY <1>3, <4>4, <4>5
        <4> QED
          BY <3>4, <4>1, <4>6
      <3> QED
        BY <3>3, <3>4
    <2> QED
      BY <2>1, <2>2 DEF QueuesKeep
  <1> QED
    BY <1>9, <1>10, <1>11, <1>12

\* The queues after an item was accepted for topic t.
LEMMA QueuesAfterAccept ==
  ASSUME ServerTypes, MergeInv, NEW t \in Topics, NEW m, m = Len(origin[t]),
         NEW entry \in Entries, entry = [topic |-> t, item |-> m + 1],
         contextChan' = [contextChan EXCEPT ![WorkerOf(t)] = Append(@, entry)],
         \A x \in Topics : Len(origin'[x]) = IF x = t THEN m + 1 ELSE Len(origin[x]),
         UNCHANGED <<pending, batches>>
  PROVE  QueuesOfTopics' /\ QueuesOrdered' /\ QueuesComplete' /\ QueuesKeep'
  <1>1. /\ \A v \in MergeWorkers :
             /\ contextChan[v] \in Seq(Entries) /\ Len(contextChan[v]) \in Nat
             /\ \A i \in 1..Len(contextChan[v]) :
                  contextChan[v][i].topic \in Topics /\ contextChan[v][i].item \in Nat
        /\ \A x \in Topics : Taken(x) \in Nat /\ Len(origin[x]) \in Nat
    BY MergeNumbers DEF MergeInv
  <1>2. QueuesOfTopics /\ QueuesOrdered /\ QueuesComplete /\ QueuesKeep
    BY DEF MergeInv
  <1>3. \A x : Taken(x)' = Taken(x)
    BY DEF Taken
  <1>4. m \in Nat /\ entry.topic = t /\ entry.item = m + 1
    BY <1>1
  <1>5. contextChan \in [MergeWorkers -> Seq(Entries)]
    BY DEF ServerTypes, RequestTypes
  <1>6. \A v \in MergeWorkers :
          contextChan'[v] = IF v = WorkerOf(t) THEN Append(contextChan[v], entry) ELSE contextChan[v]
    BY <1>5
  <1>7. \A v \in MergeWorkers : \A i \in 1..Len(contextChan[v]) :
          i \in 1..Len(contextChan'[v]) /\ contextChan'[v][i] = contextChan[v][i]
    <2> SUFFICES ASSUME NEW v \in MergeWorkers, NEW i \in 1..Len(contextChan[v])
                 PROVE  i \in 1..Len(contextChan'[v]) /\ contextChan'[v][i] = contextChan[v][i]
      OBVIOUS
    <2>1. CASE v = WorkerOf(t)
      <3>1. /\ Len(Append(contextChan[v], entry)) = Len(contextChan[v]) + 1
            /\ Len(contextChan[v]) \in Nat
            /\ Append(contextChan[v], entry)[i] = contextChan[v][i]
        BY <1>1, AppendPlaces
      <3>2. i \in 1..(Len(contextChan[v]) + 1)
        BY <3>1
      <3> QED
        BY <1>6, <2>1, <3>1, <3>2
    <2>2. CASE v # WorkerOf(t)
      BY <1>6, <2>2
    <2> QED
      BY <2>1, <2>2
  <1>8. \A v \in MergeWorkers : \A i \in 1..Len(contextChan'[v]) :
          \/ i \in 1..Len(contextChan[v]) /\ contextChan'[v][i] = contextChan[v][i]
          \/ v = WorkerOf(t) /\ i = Len(contextChan[v]) + 1 /\ contextChan'[v][i] = entry
    <2> SUFFICES ASSUME NEW v \in MergeWorkers, NEW i \in 1..Len(contextChan'[v])
                 PROVE  \/ i \in 1..Len(contextChan[v]) /\ contextChan'[v][i] = contextChan[v][i]
                        \/ /\ v = WorkerOf(t) /\ i = Len(contextChan[v]) + 1
                           /\ contextChan'[v][i] = entry
      OBVIOUS
    <2>1. CASE v = WorkerOf(t)
      <3>1. /\ Len(Append(contextChan[v], entry)) = Len(contextChan[v]) + 1
            /\ Len(contextChan[v]) \in Nat
            /\ Append(contextChan[v], entry)[Len(contextChan[v]) + 1] = entry
        BY <1>1, AppendPlaces
      <3>2. i \in 1..(Len(contextChan[v]) + 1)
        BY <1>6, <2>1, <3>1
      <3>3. i \in 1..Len(contextChan[v]) \/ i = Len(contextChan[v]) + 1
        BY <3>1, <3>2
      <3> QED
        BY <1>6, <1>7, <2>1, <3>1, <3>3
    <2>2. CASE v # WorkerOf(t)
      BY <1>6, <2>2
    <2> QED
      BY <2>1, <2>2
  <1>9. WorkerOf(t) \in MergeWorkers =>
          /\ Len(contextChan[WorkerOf(t)]) + 1 \in 1..Len(contextChan'[WorkerOf(t)])
          /\ contextChan'[WorkerOf(t)][Len(contextChan[WorkerOf(t)]) + 1] = entry
    <2> SUFFICES ASSUME NEW v \in MergeWorkers, v = WorkerOf(t)
                 PROVE  /\ Len(contextChan[v]) + 1 \in 1..Len(contextChan'[v])
                        /\ contextChan'[v][Len(contextChan[v]) + 1] = entry
      OBVIOUS
    <2>1. /\ Len(Append(contextChan[v], entry)) = Len(contextChan[v]) + 1
          /\ Len(contextChan[v]) \in Nat
          /\ Append(contextChan[v], entry)[Len(contextChan[v]) + 1] = entry
      BY <1>1, AppendPlaces
    <2>2. contextChan'[v] = Append(contextChan[v], entry)
      BY <1>6
    <2>3. Len(contextChan[v]) + 1 \in 1..(Len(contextChan[v]) + 1)
      BY <2>1
    <2> QED
      BY <2>1, <2>2, <2>3
  <1>10. QueuesOfTopics'
    <2> SUFFICES ASSUME NEW v \in MergeWorkers, NEW i \in 1..Len(contextChan'[v]),
                        NEW x, NEW k, x = contextChan'[v][i].topic, k = contextChan'[v][i].item
                 PROVE  v = WorkerOf(x) /\ Taken(x)' < k /\ k <= Len(origin'[x])
      BY DEF QueuesOfTopics
    <2>1. CASE i \in 1..Len(contextChan[v]) /\ contextChan'[v][i] = contextChan[v][i]
      <3>1. x = contextChan[v][i].topic /\ k = contextChan[v][i].item
        BY <2>1
      <3>2. x \in Topics /\ k \in Nat
        BY <1>1, <2>1, <3>1
      <3>3. v = WorkerOf(x) /\ Taken(x) < k /\ k <= Len(origin[x])
        BY <1>2, <2>1, <3>1 DEF QueuesOfTopics
      <3>4. Len(origin[x]) <= Len(origin'[x]) /\ Len(origin[x]) \in Nat /\ Len(origin'[x]) \in Nat
        <4>1. Len(origin[x]) \in Nat /\ Len(origin'[x]) = IF x = t THEN m + 1 ELSE Len(origin[x])
          BY <1>1, <3>2
        <4>2. x = t => Len(origin[x]) = m
          OBVIOUS
        <4> QED
          BY <1>4, <4>1, <4>2
      <3>5. Taken(x)' = Taken(x)
        BY <1>3
      <3> QED
        <4>1. k <= Len(origin'[x])
          <5>1. \A a, b, c \in Nat : a <= b /\ b <= c => a <= c
            OBVIOUS
          <5> QED
            BY <3>2, <3>3, <3>4, <5>1
        <4>2. Taken(x)' < k
          BY <3>3, <3>5
        <4> QED
          BY <3>3, <4>1, <4>2
    <2>2. CASE v = WorkerOf(t) /\ contextChan'[v][i] = entry
      <3>1. x = t /\ k = m + 1
        BY <1>4, <2>2
      <3>2. Taken(t) <= m /\ Taken(t) \in Nat
        BY <1>1, <1>2 DEF QueuesKeep
      <3>3. Taken(t)' = Taken(t) /\ Len(origin'[t]) = m + 1
        BY <1>3, <1>4
      <3>4. Taken(t) < m + 1 /\ m + 1 <= m + 1
        BY <1>4, <3>2
      <3> QED
        BY <2>2, <3>1, <3>3, <3>4
    <2> QED
      BY <1>8, <2>1, <2>2
  <1>11. QueuesOrdered'
    <2> SUFFICES ASSUME NEW v \in MergeWorkers,
                        NEW i \in 1..Len(contextChan'[v]), NEW k \in 1..Len(contextChan'[v]),
                        i < k, contextChan'[v][i].topic = contextChan'[v][k].topic
                 PROVE  contextChan'[v][i].item < contextChan'[v][k].item
      BY DEF QueuesOrdered
    <2>1. i \in 1..Len(contextChan[v]) /\ contextChan'[v][i] = contextChan[v][i]
      <3>1. Len(contextChan[v]) \in Nat
        BY <1>1
      <3>2. i < Len(contextChan[v]) + 1 \/ k \in 1..Len(contextChan[v])
        BY <1>8, <3>1
      <3>3. i \in 1..Len(contextChan[v])
        BY <3>1, <3>2
      <3> QED
        BY <1>7, <3>3
    <2>2. CASE k \in 1..Len(contextChan[v]) /\ contextChan'[v][k] = contextChan[v][k]
      BY <1>2, <2>1, <2>2 DEF QueuesOrdered
    <2>3. CASE v = WorkerOf(t) /\ contextChan'[v][k] = entry
      <3>1. contextChan[v][i].topic = t /\ contextChan[v][i].item \in Nat
        BY <1>1, <1>4, <2>1, <2>3
      <3>2. contextChan[v][i].item <= m
        BY <1>2, <2>1, <3>1 DEF QueuesOfTopics
      <3>3. contextChan[v][i].item < m + 1
        BY <1>4, <3>1, <3>2
      <3>4. contextChan'[v][k].item = m + 1 /\ contextChan'[v][i].item = contextChan[v][i].item
        BY <1>4, <2>1, <2>3
      <3> QED
        BY <3>3, <3>4
    <2> QED
      BY <1>8, <2>2, <2>3
  <1>12. QueuesKeep'
    <2>1. \A x \in Topics : Taken(x)' <= Len(origin'[x])
      BY <1>1, <1>2, <1>3, <1>4 DEF QueuesKeep
    <2>2. ASSUME NEW x \in Topics, WorkerOf(x) \in MergeWorkers,
                 NEW k \in Nat, Taken(x)' < k, k <= Len(origin'[x])
          PROVE  \E j \in 1..Len(contextChan'[WorkerOf(x)]) :
                   contextChan'[WorkerOf(x)][j] = [topic |-> x, item |-> k]
      <3>1. CASE k <= Len(origin[x])
        <4>1. Taken(x) < k
          BY <1>3, <2>2
        <4>2. PICK j \in 1..Len(contextChan[WorkerOf(x)]) :
                contextChan[WorkerOf(x)][j] = [topic |-> x, item |-> k]
          BY <1>2, <2>2, <3>1, <4>1 DEF QueuesKeep
        <4> QED
          BY <1>7, <2>2, <4>2
      <3>2. CASE ~(k <= Len(origin[x]))
        <4>1. x = t /\ k = m + 1
          BY <1>1, <1>4, <2>2, <3>2
        <4> QED
          BY <1>9, <2>2, <4>1
      <3> QED
        BY <3>1, <3>2
    <2> QED
      BY <2>1, <2>2 DEF QueuesKeep
  <1>13. QueuesComplete'
    <2> SUFFICES ASSUME NEW v \in MergeWorkers, NEW i \in 1..Len(contextChan'[v]),
                        NEW x \in Topics, contextChan'[v][i].topic = x,
                        NEW k \in Nat, Taken(x) < k, k < contextChan'[v][i].item
                 PROVE  \E j \in 1..(i - 1) : contextChan'[v][j] = [topic |-> x, item |-> k]
      BY <1>3 DEF QueuesComplete
    <2>2. CASE i \in 1..Len(contextChan[v]) /\ contextChan'[v][i] = contextChan[v][i]
      <3>1. PICK j \in 1..(i - 1) : contextChan[v][j] = [topic |-> x, item |-> k]
        BY <1>2, <2>2 DEF QueuesComplete
      <3>2. j \in 1..Len(contextChan[v])
        BY <1>1, <2>2
      <3> QED
        BY <1>7, <3>1, <3>2
    <2>3. CASE v = WorkerOf(t) /\ i = Len(contextChan[v]) + 1 /\ contextChan'[v][i] = entry
      <3>1. x = t /\ k < m + 1
        BY <1>4, <2>3
      <3>2. k <= Len(origin[x])
        <4>1. k <= m
          BY <1>4, <3>1
        <4> QED
          BY <3>1, <4>1
      <3>3. WorkerOf(x) = v /\ WorkerOf(x) \in MergeWorkers
        BY <2>3, <3>1
      <3>4. PICK j \in 1..Len(contextChan[v]) : contextChan[v][j] = [topic |-> x, item |-> k]
        BY <1>2, <3>2, <3>3 DEF QueuesKeep
      <3>5. j \in 1..(i - 1)
        BY <1>1, <2>3, <3>4
      <3> QED
        BY <1>7, <3>4, <3>5
    <2> QED
      BY <1>8, <2>2, <2>3
  <1> QED
    BY <1>10, <1>11, <1>12, <1>13

\* The queues where no item comes or goes.
LEMMA QueuesStay ==
  ASSUME MergeInv, \A x \in Topics : Taken(x)' = Taken(x), UNCHANGED <<contextChan, origin>>,
         \A w \in MergeWorkers : \A i \in 1..Len(contextChan[w]) : contextChan[w][i].topic \in Topics
  PROVE  QueuesOfTopics' /\ QueuesOrdered' /\ QueuesComplete' /\ QueuesKeep'
  <1>1. QueuesOfTopics'
    <2> SUFFICES ASSUME NEW w \in MergeWorkers, NEW i \in 1..Len(contextChan[w]),
                        NEW x, NEW k, x = contextChan[w][i].topic, k = contextChan[w][i].item
                 PROVE  w = WorkerOf(x) /\ Taken(x)' < k /\ k <= Len(origin[x])
      BY DEF QueuesOfTopics
    <2>1. x \in Topics /\ Taken(x)' = Taken(x)
      OBVIOUS
    <2> QED
      BY <2>1 DEF MergeInv, QueuesOfTopics
  <1>2. QueuesOrdered'
    BY DEF MergeInv, QueuesOrdered
  <1>3. QueuesComplete'
    BY DEF MergeInv, QueuesComplete
  <1>4. QueuesKeep'
    BY DEF MergeInv, QueuesKeep
  <1> QED
    BY <1>1, <1>2, <1>3, <1>4

\* At the start nothing is queued, open or committed.
LEMMA MergeInvInit == Init => MergeInv
  <1> SUFFICES ASSUME Init PROVE MergeInv
    OBVIOUS
  <1>1. /\ batches = <<>> /\ Len(batches) = 0
        /\ \A t \in Topics : Len(pending[t]) = 0 /\ Len(origin[t]) = 0
        /\ \A w \in MergeWorkers : Len(contextChan[w]) = 0
    BY DEF Init
  <1>2. \A t \in Topics : IsCut(batches, t, 0) /\ CutOf(batches, t) = 0
    <2> SUFFICES ASSUME NEW t \in Topics PROVE IsCut(batches, t, 0) /\ CutOf(batches, t) = 0
      OBVIOUS
    <2>1. IsCut(batches, t, 0)
      BY <1>1 DEF IsCut
    <2>2. batches \in Seq(Nat) /\ \A k \in 1..Len(batches) : LastItem(batches[k]) \in Nat
      BY <1>1
    <2> QED
      BY <2>1, <2>2, CutIs
  <1>3. \A t \in Topics : Taken(t) = 0
    BY <1>1, <1>2 DEF Taken
  <1>4. BatchesJoin
    BY <1>1, <1>2 DEF BatchesJoin
  <1>5. QueuesOfTopics /\ QueuesOrdered /\ QueuesComplete
    BY <1>1 DEF QueuesOfTopics, QueuesOrdered, QueuesComplete
  <1>6. QueuesKeep
    BY <1>1, <1>3 DEF QueuesKeep
  <1> QED
    BY <1>4, <1>5, <1>6 DEF MergeInv

\* What a merge worker commits continues where the last batch of the topic ends.
LEMMA TakenItems ==
  ASSUME ServerTypes, MergeInv, NEW w \in MergeWorkers, TakeContext(w),
         NEW t, NEW n, NEW items,
         t = Head(contextChan[w]).topic, n = Head(contextChan[w]).item,
         items = Append(pending[t], n)
  PROVE  /\ t \in Topics /\ items \in Seq(Nat) /\ Len(items) \in 1..MaxMergerBatchSize
         /\ Len(items) = Len(pending[t]) + 1
         /\ \A i \in 1..Len(items) : items[i] = CutOf(batches, t) + i
         /\ CutOf(batches, t) + Len(items) <= Len(origin[t])
  <1>1. /\ contextChan[w] # <<>> /\ t \in Topics /\ n \in Nat
        /\ items \in Seq(Nat) /\ Len(items) \in 1..MaxMergerBatchSize
    BY TakeSteps
  <1>2. n = Taken(t) + 1 /\ n <= Len(origin[t])
    BY <1>1, HeadIsNext
  <1>3. /\ CutOf(batches, t) \in Nat /\ pending[t] \in Seq(Nat) /\ Len(pending[t]) \in Nat
        /\ Taken(t) = CutOf(batches, t) + Len(pending[t])
    BY <1>1, MergeNumbers DEF MergeInv
  <1>4. /\ Len(items) = Len(pending[t]) + 1
        /\ \A i \in 1..Len(pending[t]) : items[i] = pending[t][i]
        /\ items[Len(pending[t]) + 1] = n
    <2>1. ASSUME NEW s \in Seq(Nat), items = Append(s, n)
          PROVE  /\ Len(items) = Len(s) + 1
                 /\ \A i \in 1..Len(s) : items[i] = s[i]
                 /\ items[Len(s) + 1] = n
      <3>1. /\ Len(Append(s, n)) = Len(s) + 1
            /\ \A i \in 1..Len(s) : Append(s, n)[i] = s[i]
            /\ Append(s, n)[Len(s) + 1] = n
        BY <1>1, AppendPlaces
      <3> QED
        BY <2>1, <3>1
    <2> QED
      BY <1>3, <2>1
  <1>5. \A i \in 1..Len(pending[t]) : pending[t][i] = CutOf(batches, t) + i
    BY <1>1 DEF MergeInv, BatchesJoin
  <1>6. \A i \in 1..Len(items) : i \in 1..Len(pending[t]) \/ i = Len(pending[t]) + 1
    <2>1. \A m \in Nat : \A i \in 1..(m + 1) : i \in 1..m \/ i = m + 1
      OBVIOUS
    <2> QED
      BY <1>3, <1>4, <2>1
  <1>7. n = CutOf(batches, t) + (Len(pending[t]) + 1)
    <2>1. \A a, b \in Nat : (a + b) + 1 = a + (b + 1)
      OBVIOUS
    <2>2. n = (CutOf(batches, t) + Len(pending[t])) + 1
      BY <1>2, <1>3
    <2> QED
      BY <1>3, <2>1, <2>2
  <1>8. \A i \in 1..Len(items) : items[i] = CutOf(batches, t) + i
    BY <1>4, <1>5, <1>6, <1>7
  <1> QED
    BY <1>1, <1>2, <1>4, <1>7, <1>8

\* The two steps that move items, for the proofs to name their parts.
LEMMA ItemServed ==
  ASSUME ServerTypes, NEW q \in Requests, ServeItem(q)
  PROVE  \/ UNCHANGED <<origin, contextChan, pending, batches, received>>
         \/ \E t \in Topics, m \in Nat, entry \in Entries :
              /\ m = Len(origin[t]) /\ entry = [topic |-> t, item |-> m + 1]
              /\ contextChan' = [contextChan EXCEPT ![WorkerOf(t)] = Append(@, entry)]
              /\ \A x \in Topics : Len(origin'[x]) = IF x = t THEN m + 1 ELSE Len(origin[x])
              /\ UNCHANGED <<pending, batches, received>>
  <1> DEFINE t == RequestTopic[q]
             i == next[q]
             m == Len(origin[t])
             entry == [topic |-> t, item |-> m + 1]
  <1>1. /\ t \in Topics /\ i \in Nat /\ m \in Nat /\ entry \in Entries
        /\ 1 <= i /\ i <= ItemCount[q]
        /\ next' \in [Requests -> Nat]
        /\ \A p \in Requests : next'[p] = IF p = q THEN i + 1 ELSE next[p]
        /\ \/ /\ refused' = refused \cup {<<q, i>>}
              /\ UNCHANGED <<origin, contextChan>>
           \/ /\ origin' = [origin EXCEPT ![t] = Append(@, <<q, i>>)]
              /\ contextChan' = [contextChan EXCEPT ![WorkerOf(t)] = Append(@, entry)]
              /\ Len(contextChan[WorkerOf(t)]) # MergerChannelSize
              /\ UNCHANGED refused
        /\ UNCHANGED <<phase, mergeVars, clientVars, managerVars>>
    BY ServeSteps
  <1>2. m = Len(origin[t]) /\ entry = [topic |-> t, item |-> m + 1]
    OBVIOUS
  <1> HIDE DEF t, i, m, entry
  <1>3. UNCHANGED <<pending, batches, received>>
    BY <1>1 DEF mergeVars, clientVars
  <1>4. origin \in [Topics -> Seq(Requests \X Nat)]
    BY DEF ServerTypes, RequestTypes
  <1>5. Len(Append(origin[t], <<q, i>>)) = m + 1
    <2>1. origin[t] \in Seq(Requests \X Nat) /\ <<q, i>> \in Requests \X Nat
      BY <1>1, <1>4
    <2> QED
      BY <1>2, <2>1, AppendPlaces
  <1>6. origin' = [origin EXCEPT ![t] = Append(@, <<q, i>>)] =>
          \A x \in Topics : Len(origin'[x]) = IF x = t THEN m + 1 ELSE Len(origin[x])
    BY <1>4, <1>5
  <1>7. CASE UNCHANGED <<origin, contextChan>>
    BY <1>3, <1>7
  <1>8. CASE /\ origin' = [origin EXCEPT ![t] = Append(@, <<q, i>>)]
             /\ contextChan' = [contextChan EXCEPT ![WorkerOf(t)] = Append(@, entry)]
    <2>1. \A x \in Topics : Len(origin'[x]) = IF x = t THEN m + 1 ELSE Len(origin[x])
      BY <1>6, <1>8
    <2>2. t \in Topics /\ m \in Nat /\ entry \in Entries
      BY <1>1
    <2> QED
      BY <1>2, <1>3, <1>8, <2>1, <2>2
  <1> QED
    BY <1>1, <1>7, <1>8

\* An item that is taken continues the open batch, which is then committed or not.
LEMMA ItemTaken ==
  ASSUME ServerTypes, MergeInv, NEW w \in MergeWorkers, TakeContext(w)
  PROVE  \E t \in Topics, items \in Seq(Nat) :
           /\ contextChan[w] # <<>> /\ t = Head(contextChan[w]).topic
           /\ Len(items) \in 1..MaxMergerBatchSize /\ Len(items) = Len(pending[t]) + 1
           /\ \A i \in 1..Len(items) : items[i] = CutOf(batches, t) + i
           /\ CutOf(batches, t) + Len(items) <= Len(origin[t])
           /\ contextChan' \in [MergeWorkers -> Seq(Entries)]
           /\ \A v \in MergeWorkers :
                contextChan'[v] = IF v = w THEN Tail(contextChan[w]) ELSE contextChan[v]
           /\ \/ Commit(t, items)
              \/ pending' = [pending EXCEPT ![t] = items] /\ UNCHANGED <<batches, job, executed>>
           /\ UNCHANGED <<origin, received>>
  <1> DEFINE t == Head(contextChan[w]).topic
             n == Head(contextChan[w]).item
             items == Append(pending[t], n)
  <1>1. /\ contextChan[w] \in Seq(Entries) /\ contextChan[w] # <<>>
        /\ t \in Topics /\ n \in Nat
        /\ contextChan' \in [MergeWorkers -> Seq(Entries)]
        /\ \A v \in MergeWorkers :
             contextChan'[v] = IF v = w THEN Tail(contextChan[w]) ELSE contextChan[v]
        /\ items \in Seq(Nat) /\ Len(items) \in 1..MaxMergerBatchSize
        /\ \/ Commit(t, items)
           \/ /\ pending' = [pending EXCEPT ![t] = items]
              /\ Len(items) < MaxMergerBatchSize
              /\ UNCHANGED <<batches, job, managerVars>>
        /\ UNCHANGED <<phase, requestVars, mergeStopped, clientVars>>
    BY TakeSteps
  <1>2. /\ t \in Topics /\ items \in Seq(Nat) /\ Len(items) \in 1..MaxMergerBatchSize
        /\ Len(items) = Len(pending[t]) + 1
        /\ \A i \in 1..Len(items) : items[i] = CutOf(batches, t) + i
        /\ CutOf(batches, t) + Len(items) <= Len(origin[t])
    BY TakenItems
  <1>3. t = Head(contextChan[w]).topic
    OBVIOUS
  <1> HIDE DEF t, n, items
  <1>4. UNCHANGED <<origin, received>> /\ (UNCHANGED managerVars => UNCHANGED executed)
    BY <1>1 DEF requestVars, clientVars, managerVars, queueVars, dispatchVars, jobVars, processVars
  <1> QED
    BY <1>1, <1>2, <1>3, <1>4

\* Every step of the server preserves the queues of the merge workers.
LEMMA MergeInvInductive ==
  ASSUME ServerTypes, FanOutInv, MergeInv, [Next]_vars PROVE MergeInv'
  <1>1. BatchesJoin
    BY DEF MergeInv
  <1>2. /\ \A w \in MergeWorkers : \A i \in 1..Len(contextChan[w]) :
             contextChan[w][i].topic \in Topics
        /\ \A t \in Topics :
             /\ CutOf(batches, t) \in Nat /\ pending[t] \in Seq(Nat) /\ Len(pending[t]) \in Nat
             /\ Taken(t) = CutOf(batches, t) + Len(pending[t])
             /\ Len(origin[t]) \in Nat
    BY <1>1, MergeNumbers
  <1>3. ASSUME UNCHANGED <<contextChan, origin, pending, batches>> PROVE MergeInv'
    <2>1. BatchesJoin'
      BY <1>1, <1>3 DEF BatchesJoin
    <2>2. \A x \in Topics : Taken(x)' = Taken(x)
      BY <1>3 DEF Taken
    <2> QED
      BY <1>2, <1>3, <2>1, <2>2, QueuesStay DEF MergeInv
  <1>4. ASSUME NEW q \in Requests, ServeItem(q) PROVE MergeInv'
    <2>1. CASE UNCHANGED <<origin, contextChan, pending, batches, received>>
      BY <1>3, <2>1
    <2>2. ASSUME NEW t \in Topics, NEW m \in Nat, NEW entry \in Entries,
                 m = Len(origin[t]), entry = [topic |-> t, item |-> m + 1],
                 contextChan' = [contextChan EXCEPT ![WorkerOf(t)] = Append(@, entry)],
                 \A x \in Topics : Len(origin'[x]) = IF x = t THEN m + 1 ELSE Len(origin[x]),
                 UNCHANGED <<pending, batches, received>>
          PROVE  MergeInv'
      <3>1. QueuesOfTopics' /\ QueuesOrdered' /\ QueuesComplete' /\ QueuesKeep'
        BY <2>2, QueuesAfterAccept
      <3>2. BatchesJoin'
        BY <1>1, <2>2 DEF BatchesJoin
      <3> QED
        BY <3>1, <3>2 DEF MergeInv
    <2> QED
      BY <1>4, <2>1, <2>2, ItemServed
  <1>5. ASSUME NEW w \in MergeWorkers, TakeContext(w) PROVE MergeInv'
    <2>1. PICK t \in Topics, items \in Seq(Nat) :
            /\ contextChan[w] # <<>> /\ t = Head(contextChan[w]).topic
            /\ Len(items) \in 1..MaxMergerBatchSize /\ Len(items) = Len(pending[t]) + 1
            /\ \A i \in 1..Len(items) : items[i] = CutOf(batches, t) + i
            /\ CutOf(batches, t) + Len(items) <= Len(origin[t])
            /\ contextChan' \in [MergeWorkers -> Seq(Entries)]
            /\ \A v \in MergeWorkers :
                 contextChan'[v] = IF v = w THEN Tail(contextChan[w]) ELSE contextChan[v]
            /\ \/ Commit(t, items)
               \/ pending' = [pending EXCEPT ![t] = items] /\ UNCHANGED <<batches, job, executed>>
            /\ UNCHANGED <<origin, received>>
      BY <1>5, ItemTaken
    <2>5. BatchesJoin' /\ \A x \in Topics : Taken(x)' = IF x = t THEN Taken(t) + 1 ELSE Taken(x)
      <3>1. CASE Commit(t, items)
        <4>1. /\ BatchesJoin'
              /\ \A x \in Topics : CutOf(batches', x) =
                   IF x = t THEN CutOf(batches, t) + Len(items) ELSE CutOf(batches, x)
              /\ \A x \in Topics : pending'[x] = IF x = t THEN <<>> ELSE pending[x]
          BY <1>1, <2>1, <3>1, CommitJoins
        <4>2. \A x \in Topics : Taken(x)' = CutOf(batches', x) + Len(pending'[x])
          BY DEF Taken
        <4>3. Taken(t)' = Taken(t) + 1
          <5>1. Taken(t)' = (CutOf(batches, t) + (Len(pending[t]) + 1)) + 0
            BY <2>1, <4>1, <4>2
          <5>2. \A a, b \in Nat : (a + (b + 1)) + 0 = (a + b) + 1
            OBVIOUS
          <5> QED
            BY <1>2, <5>1, <5>2
        <4>4. \A x \in Topics : x # t => Taken(x)' = Taken(x)
          BY <1>2, <4>1, <4>2
        <4> QED
          BY <4>1, <4>3, <4>4
      <3>2. CASE pending' = [pending EXCEPT ![t] = items] /\ UNCHANGED batches
        <4>1. \A x \in Topics : pending'[x] = IF x = t THEN items ELSE pending[x]
          BY <3>2 DEF ServerTypes, BatchTypes
        <4>2. \A x \in Topics : Taken(x)' = CutOf(batches, x) + Len(pending'[x])
          BY <3>2 DEF Taken
        <4>3. Taken(t)' = Taken(t) + 1
          <5>1. pending'[t] = items /\ Len(items) = Len(pending[t]) + 1
            BY <2>1, <4>1
          <5>2. Taken(t)' = CutOf(batches, t) + (Len(pending[t]) + 1)
            BY <4>2, <5>1
          <5>3. \A a, b \in Nat : a + (b + 1) = (a + b) + 1
            OBVIOUS
          <5> QED
            BY <1>2, <5>2, <5>3
        <4>4. \A x \in Topics : x # t => Taken(x)' = Taken(x)
          BY <1>2, <4>1, <4>2
        <4>5. \A x \in Topics : \A i \in 1..Len(pending'[x]) : pending'[x][i] = CutOf(batches, x) + i
          <5>1. \A x \in Topics : \A i \in 1..Len(pending[x]) : pending[x][i] = CutOf(batches, x) + i
            BY <1>1 DEF BatchesJoin
          <5>2. \A i \in 1..Len(items) : items[i] = CutOf(batches, t) + i
            BY <2>1
          <5>3. ASSUME NEW x \in Topics, NEW i \in 1..Len(pending'[x])
                PROVE  pending'[x][i] = CutOf(batches, x) + i
            <6>1. CASE x = t
              <7>1. pending'[t] = items
                BY <4>1, <6>1
              <7> QED
                BY <5>2, <5>3, <6>1, <7>1
            <6>2. CASE x # t
              <7>1. pending'[x] = pending[x]
                BY <4>1, <6>2
              <7> QED
                BY <5>1, <5>3, <7>1
            <6> QED
              BY <6>1, <6>2
          <5> QED
            BY <5>3
        <4>6. BatchesJoin'
          BY <1>1, <3>2, <4>5 DEF BatchesJoin
        <4> QED
          <5>1. \A x \in Topics : Taken(x)' = IF x = t THEN Taken(t) + 1 ELSE Taken(x)
            BY <4>3, <4>4
          <5> QED
            BY <4>6, <5>1
      <3> QED
        BY <2>1, <3>1, <3>2
    <2>6. QueuesOfTopics' /\ QueuesOrdered' /\ QueuesComplete' /\ QueuesKeep'
      <3>1. UNCHANGED origin /\ contextChan[w] # <<>> /\ t = Head(contextChan[w]).topic
        BY <2>1
      <3>2. /\ contextChan' \in [MergeWorkers -> Seq(Entries)]
            /\ \A v \in MergeWorkers :
                 contextChan'[v] = IF v = w THEN Tail(contextChan[w]) ELSE contextChan[v]
        BY <2>1
      <3>3. \A x \in Topics : Taken(x)' = IF x = t THEN Taken(t) + 1 ELSE Taken(x)
        BY <2>5
      <3> QED
        BY <3>1, <3>2, <3>3, QueuesAfterTake
    <2> QED
      BY <2>5, <2>6 DEF MergeInv
  <1>6. ASSUME NEW t \in Topics, TakeTimeout(t) PROVE MergeInv'
    <2>1. /\ pending[t] \in Seq(Nat) /\ Len(pending[t]) \in 1..MaxMergerBatchSize
          /\ Commit(t, pending[t])
          /\ UNCHANGED <<phase, requestVars, contextChan, mergeStopped, clientVars>>
      BY <1>6, TimeoutSteps
    <2>2. \A i \in 1..Len(pending[t]) : pending[t][i] = CutOf(batches, t) + i
      BY <1>1 DEF BatchesJoin
    <2>3. /\ BatchesJoin'
          /\ \A x \in Topics : CutOf(batches', x) =
               IF x = t THEN CutOf(batches, t) + Len(pending[t]) ELSE CutOf(batches, x)
          /\ \A x \in Topics : pending'[x] = IF x = t THEN <<>> ELSE pending[x]
      BY <1>1, <2>1, <2>2, CommitJoins
    <2>4. \A x \in Topics : Taken(x)' = CutOf(batches', x) + Len(pending'[x])
      BY DEF Taken
    <2>5. \A x \in Topics : Taken(x)' = Taken(x)
      <3>1. Taken(t)' = (CutOf(batches, t) + Len(pending[t])) + 0
        BY <2>3, <2>4
      <3>2. Taken(t)' = Taken(t)
        BY <1>2, <3>1
      <3>3. \A x \in Topics : x # t => Taken(x)' = Taken(x)
        BY <1>2, <2>3, <2>4
      <3> QED
        BY <3>2, <3>3
    <2>6. UNCHANGED <<contextChan, origin>>
      BY <2>1 DEF requestVars
    <2> QED
      BY <1>2, <2>3, <2>5, <2>6, QueuesStay DEF MergeInv
  <1>7. ASSUME NEW q \in Requests, StartRequest(q) PROVE MergeInv'
    BY <1>3, <1>7 DEF StartRequest, mergeVars
  <1>8. ASSUME NEW w \in JobWorkers, DeliverJob(w) PROVE MergeInv'
    BY <1>3, <1>8 DEF DeliverJob, mergeVars, requestVars
  <1>9. ASSUME NEW c \in Clients, WriteMessage(c) PROVE MergeInv'
    BY <1>3, <1>9 DEF WriteMessage, mergeVars, requestVars
  <1>10. CASE /\ ~\E q \in Requests : StartRequest(q) \/ ServeItem(q)
              /\ ~\E w \in MergeWorkers : TakeContext(w)
              /\ ~\E t \in Topics : TakeTimeout(t)
              /\ ~\E w \in JobWorkers : DeliverJob(w)
              /\ ~\E c \in Clients : WriteMessage(c)
    <2>1. UNCHANGED <<requestVars, contextChan, pending, batches, job, clientVars>>
      BY <1>10, OtherSteps
    <2> QED
      BY <1>3, <2>1 DEF requestVars
  <1> QED
    BY <1>4, <1>5, <1>6, <1>7, <1>8, <1>9, <1>10

\* So they are as described in every reachable state.
LEMMA MergeInvHolds == Spec => [](FanOutInv /\ ServerTypes /\ MergeInv)
  <1>1. FanOutInv /\ ServerTypes /\ MergeInv /\ [Next]_vars => MergeInv'
    BY MergeInvInductive
  <1> QED
    BY <1>1, MergeInvInit, ServerTypesHold, PTL DEF Spec
-----------------------------------------------------------------------------
(* The deliveries.                                                           *)

\* What a client got came with a job that was pushed to its bucket.
DeliveredPushed ==
  \A c \in Clients : \A i \in 1..Len(received[c]) :
    \E j \in 1..Len(job) : job[j] = received[c][i] /\ Pushed(j, BucketOf[c])

\* A job is pushed to a bucket for the first time.
LEMMA JobPushed ==
  ASSUME ServerTypes, FanOutInv, NEW w \in JobWorkers, DeliverJob(w)
  PROVE  \E j \in 1..Len(job), k \in 1..Len(batches), b \in Buckets :
           /\ k = job[j] /\ k \in Nat /\ b = WorkerBucket[w]
           /\ InHand(j, b) /\ ~Pushed(j, b) /\ j \in Jobs
           /\ \A c \in Clients :
                \/ received'[c] = received[c]
                \/ /\ BucketOf[c] = b /\ batches[k].topic \in Follows[c]
                   /\ received'[c] = Append(received[c], k)
           /\ received' = [c \in Clients |->
                             IF c \in {e \in Audience(b, batches[k].topic) :
                                         unread[e] < WsOutChannelSize}
                             THEN Append(received[c], k) ELSE received[c]]
           /\ executed' = [executed EXCEPT ![b] = Append(@, j)]
           /\ UNCHANGED <<origin, contextChan, pending, batches, job>>
  <1> DEFINE j == pushJob[w]
             k == job[j]
             b == WorkerBucket[w]
  <1>1. /\ j \in 1..Len(job) /\ k \in 1..Len(batches) /\ k \in Nat
        /\ batches[k].topic \in Topics
        /\ \A c \in Clients :
             \/ unread'[c] = unread[c] /\ received'[c] = received[c]
             \/ /\ BucketOf[c] = WorkerBucket[w] /\ batches[k].topic \in Follows[c]
                /\ unread[c] < WsOutChannelSize /\ unread'[c] = unread[c] + 1
                /\ received'[c] = Append(received[c], k)
        /\ ClientTypes'
        /\ UNCHANGED <<phase, requestVars, contextChan, mergeVars, accepted>>
        /\ executed' = [executed EXCEPT ![WorkerBucket[w]] = Append(@, j)]
    BY ExecuteSteps
  <1>2. b \in Buckets
    BY FanOutTypes DEF ServerTypes
  <1>3. InHand(j, b)
    BY DEF InHand
  <1>4. received' = [c \in Clients |->
                       IF c \in {e \in Audience(b, batches[k].topic) : unread[e] < WsOutChannelSize}
                       THEN Append(received[c], k) ELSE received[c]]
    BY DEF DeliverJob
  <1>5. k = job[j] /\ b = WorkerBucket[w]
    OBVIOUS
  <1> HIDE DEF j, k, b
  <1>6. j \in Jobs
    <2>1. accepted \in 0..MaxJobs /\ MaxJobs \in Nat /\ Jobs = 1..MaxJobs /\ Len(job) = accepted
      BY FanOutTypes DEF ServerTypes, BatchTypes
    <2> QED
      BY <1>1, <2>1
  <1>7. ~Pushed(j, b)
    BY <1>2, <1>3, <1>6 DEF FanOutInv, JobsApart
  <1>8. UNCHANGED <<origin, contextChan, pending, batches, job>>
    BY <1>1 DEF requestVars, mergeVars
  <1> QED
    BY <1>1, <1>2, <1>3, <1>4, <1>5, <1>6, <1>7, <1>8

\* Only a job worker that pushes a job adds to what the clients got.
LEMMA DeliveredInductive ==
  ASSUME ServerTypes, FanOutInv, MergeInv, DeliveredPushed, [Next]_vars PROVE DeliveredPushed'
  <1>1. ASSUME UNCHANGED <<received, executed>>, Len(job) <= Len(job'), Len(job) \in Nat, Len(job') \in Nat,
               \A j \in 1..Len(job) : job'[j] = job[j]
        PROVE  DeliveredPushed'
    <2>1. \A j, b : Pushed(j, b)' <=> Pushed(j, b)
      BY <1>1 DEF Pushed
    <2>2. ASSUME NEW j \in 1..Len(job) PROVE j \in 1..Len(job')
      <3>1. \A a, b \in Nat : a <= b => \A i \in 1..a : i \in 1..b
        OBVIOUS
      <3> QED
        BY <1>1, <2>2, <3>1
    <2> SUFFICES ASSUME NEW c \in Clients, NEW i \in 1..Len(received[c])
                 PROVE  \E j \in 1..Len(job') : job'[j] = received[c][i] /\ Pushed(j, BucketOf[c])'
      BY <1>1 DEF DeliveredPushed
    <2>3. PICK j \in 1..Len(job) : job[j] = received[c][i] /\ Pushed(j, BucketOf[c])
      BY DEF DeliveredPushed
    <2>4. job'[j] = received[c][i] /\ Pushed(j, BucketOf[c])'
      BY <1>1, <2>1, <2>3
    <2> QED
      BY <2>2, <2>4
  <1>2. Len(job) \in Nat
    BY DEF ServerTypes, BatchTypes
  <1>3. ASSUME UNCHANGED <<received, executed, job>> PROVE DeliveredPushed'
    BY <1>1, <1>2, <1>3
  <1>4. ASSUME NEW t \in Topics, NEW items \in Seq(Nat), Len(items) \in 1..MaxMergerBatchSize,
               Commit(t, items), UNCHANGED received
        PROVE  DeliveredPushed'
    <2>1. /\ BatchTypes'
          /\ \/ job' = job
             \/ Len(job') = Len(job) + 1
          /\ \A j \in 1..Len(job) : job'[j] = job[j]
          /\ UNCHANGED executed
      BY <1>4, CommitSteps
    <2> QED
      BY <1>1, <1>2, <1>4, <2>1
  <1>5. ASSUME NEW w \in MergeWorkers, TakeContext(w) PROVE DeliveredPushed'
    <2>1. PICK t \in Topics, items \in Seq(Nat) :
            /\ Len(items) \in 1..MaxMergerBatchSize
            /\ \/ Commit(t, items)
               \/ UNCHANGED <<batches, job, executed>>
            /\ UNCHANGED received
      BY <1>5, ItemTaken
    <2> QED
      BY <1>3, <1>4, <2>1
  <1>6. ASSUME NEW t \in Topics, TakeTimeout(t) PROVE DeliveredPushed'
    <2>1. /\ pending[t] \in Seq(Nat) /\ Len(pending[t]) \in 1..MaxMergerBatchSize
          /\ Commit(t, pending[t])
          /\ UNCHANGED <<phase, requestVars, contextChan, mergeStopped, clientVars>>
      BY <1>6, TimeoutSteps
    <2> QED
      BY <1>4, <2>1 DEF clientVars
  <1>7. ASSUME NEW w \in JobWorkers, DeliverJob(w) PROVE DeliveredPushed'
    <2>1. PICK j \in 1..Len(job), k \in 1..Len(batches), b \in Buckets :
            /\ k = job[j] /\ k \in Nat /\ b = WorkerBucket[w]
            /\ InHand(j, b) /\ ~Pushed(j, b) /\ j \in Jobs
            /\ \A c \in Clients :
                 \/ received'[c] = received[c]
                 \/ /\ BucketOf[c] = b /\ batches[k].topic \in Follows[c]
                    /\ received'[c] = Append(received[c], k)
            /\ executed' = [executed EXCEPT ![b] = Append(@, j)]
            /\ UNCHANGED job
      BY <1>7, JobPushed
    <2>2. /\ \A i, x : Pushed(i, x) /\ x \in Buckets => Pushed(i, x)'
          /\ Pushed(j, b)'
      <3>1. executed \in [Buckets -> Seq(Jobs)]
        BY FanOutTypes DEF ServerTypes
      <3>2. Range(Append(executed[b], j)) = Range(executed[b]) \cup {j}
        BY <2>1, <3>1, AppendPlaces
      <3>3. \A x \in Buckets :
              executed'[x] = IF x = b THEN Append(executed[b], j) ELSE executed[x]
        BY <2>1, <3>1
      <3> QED
        BY <3>2, <3>3 DEF Pushed
    <2>3. \A c \in Clients : BucketOf[c] \in Buckets
      BY MessageServerAssumption DEF Buckets
    <2> SUFFICES ASSUME NEW c \in Clients, NEW i \in 1..Len(received'[c])
                 PROVE  \E n \in 1..Len(job) : job[n] = received'[c][i] /\ Pushed(n, BucketOf[c])'
      BY <2>1 DEF DeliveredPushed
    <2>4. CASE i \in 1..Len(received[c]) /\ received'[c][i] = received[c][i]
      BY <2>2, <2>3, <2>4 DEF DeliveredPushed
    <2>5. CASE BucketOf[c] = b /\ received'[c][i] = k
      BY <2>1, <2>2, <2>5
    <2>6. \/ i \in 1..Len(received[c]) /\ received'[c][i] = received[c][i]
          \/ BucketOf[c] = b /\ received'[c][i] = k
      <3>1. CASE received'[c] = received[c]
        BY <3>1
      <3>2. CASE BucketOf[c] = b /\ received'[c] = Append(received[c], k)
        <4>1. received[c] \in Seq(Nat)
          BY DEF ServerTypes, ClientTypes
        <4>2. /\ Len(Append(received[c], k)) = Len(received[c]) + 1 /\ Len(received[c]) \in Nat
              /\ \A n \in 1..Len(received[c]) : Append(received[c], k)[n] = received[c][n]
              /\ Append(received[c], k)[Len(received[c]) + 1] = k
          BY <2>1, <4>1, AppendPlaces
        <4>3. i \in 1..(Len(received[c]) + 1)
          BY <3>2, <4>2
        <4>4. i \in 1..Len(received[c]) \/ i = Len(received[c]) + 1
          BY <4>2, <4>3
        <4> QED
          BY <3>2, <4>2, <4>4
      <3> QED
        BY <2>1, <3>1, <3>2
    <2> QED
      BY <2>4, <2>5, <2>6
  <1>8. ASSUME NEW q \in Requests, StartRequest(q) \/ ServeItem(q) PROVE DeliveredPushed'
    BY <1>3, <1>8
       DEF StartRequest, ServeItem, mergeVars, clientVars, managerVars, queueVars, dispatchVars, jobVars, processVars
  <1>9. ASSUME NEW c \in Clients, WriteMessage(c) PROVE DeliveredPushed'
    BY <1>3, <1>9
       DEF WriteMessage, mergeVars, managerVars, queueVars, dispatchVars, jobVars, processVars
  <1>10. CASE /\ ~\E q \in Requests : StartRequest(q) \/ ServeItem(q)
              /\ ~\E w \in MergeWorkers : TakeContext(w)
              /\ ~\E t \in Topics : TakeTimeout(t)
              /\ ~\E w \in JobWorkers : DeliverJob(w)
              /\ ~\E c \in Clients : WriteMessage(c)
    BY <1>3, <1>10, OtherSteps DEF clientVars
  <1> QED
    BY <1>5, <1>6, <1>7, <1>8, <1>9, <1>10

\* No client gets a batch twice: what it would get now it has not got.
LEMMA BatchIsNew ==
  ASSUME ServerTypes, DeliveredPushed, NEW j \in 1..Len(job), NEW b,
         ~Pushed(j, b), NEW c \in Clients, BucketOf[c] = b
  PROVE  job[j] \notin Range(received[c])
  <1> SUFFICES ASSUME job[j] \in Range(received[c]) PROVE FALSE
    OBVIOUS
  <1>1. received[c] \in Seq(Nat)
    BY DEF ServerTypes, ClientTypes
  <1>2. PICK i \in 1..Len(received[c]) : job[j] = received[c][i]
    BY <1>1 DEF Range
  <1>3. PICK n \in 1..Len(job) : job[n] = job[j] /\ Pushed(n, b)
    BY <1>2 DEF DeliveredPushed
  <1>4. job \in Seq(Nat) /\ Growing(job)
    BY DEF ServerTypes, BatchTypes
  <1>5. Len(job) \in Nat /\ DOMAIN job = 1..Len(job) /\ job[j] \in Nat
    BY <1>4
  <1>6. n < j => job[n] < job[j]
    BY <1>3, <1>4, <1>5 DEF Growing
  <1>7. j < n => job[j] < job[n]
    BY <1>3, <1>4, <1>5 DEF Growing
  <1>8. ~(job[n] < job[j]) /\ ~(job[j] < job[n])
    BY <1>3, <1>5
  <1>9. n = j
    BY <1>5, <1>6, <1>7, <1>8
  <1> QED
    BY <1>3, <1>9
-----------------------------------------------------------------------------
(* The refinement: every step of the server is one of Broadcast's, or leaves *)
(* what is published, cut and delivered as it is.                            *)

\* The refinement: the initial states.
LEMMA BroadcastStarts == Init => B!BroadcastInit
  BY DEF Init, B!BroadcastInit

\* The refinement: steps that do not concern it.
LEMMA BroadcastStutters ==
  ASSUME UNCHANGED <<origin, batches, received>> PROVE UNCHANGED B!broadcastVars
  BY DEF B!broadcastVars

\* Broadcast counts the items that were cut as CutOf does.
LEMMA BroadcastCuts == \A t : B!CutUpTo(t) = CutOf(batches, t)
  BY DEF B!CutUpTo, CutOf

\* An item that its merge worker's queue accepts is published.
LEMMA PublishStep ==
  ASSUME ServerTypes, NEW q \in Requests, ServeItem(q)
  PROVE  [B!BroadcastNext]_(B!broadcastVars)
  <1>1. ASSUME NEW t \in Topics,
               \A x \in Topics : Len(origin'[x]) = IF x = t THEN Len(origin[t]) + 1 ELSE Len(origin[x]),
               UNCHANGED <<batches, received>>
        PROVE  B!BroadcastNext
    <2>1. [x \in Topics |-> Len(origin'[x])]
            = [[x \in Topics |-> Len(origin[x])] EXCEPT ![t] = @ + 1]
      BY <1>1
    <2>2. B!Publish(t)
      BY <1>1, <2>1 DEF B!Publish
    <2> QED
      BY <2>2 DEF B!BroadcastNext
  <1> QED
    BY <1>1, ItemServed, BroadcastStutters

\* The items a merge worker commits are cut.
LEMMA CutStep ==
  ASSUME ServerTypes, MergeInv, NEW t \in Topics, NEW items \in Seq(Nat),
         Len(items) \in 1..MaxMergerBatchSize, Commit(t, items),
         \A i \in 1..Len(items) : items[i] = CutOf(batches, t) + i,
         CutOf(batches, t) + Len(items) <= Len(origin[t]),
         UNCHANGED <<origin, received>>
  PROVE  B!BroadcastNext
  <1> DEFINE n == Len(items)
             published == [x \in Topics |-> Len(origin[x])]
  <1>1. n \in Nat /\ 1 <= n /\ items = [i \in 1..n |-> CutOf(batches, t) + i]
    BY MessageServerAssumption
  <1>2. batches' = Append(batches, [topic |-> t, items |-> items])
    BY DEF Commit
  <1>3. CutOf(batches, t) \in Nat /\ Len(origin[t]) \in Nat
    BY MergeNumbers DEF MergeInv
  <1>4. CutOf(batches, t) + n <= published[t] /\ n \in 1..published[t]
    BY <1>1, <1>3
  <1> HIDE DEF n
  <1>5. B!Cut(t, n)
    BY <1>1, <1>2, <1>4, BroadcastCuts DEF B!Cut
  <1> QED
    BY <1>4, <1>5 DEF B!BroadcastNext

\* A batch that is pushed to a bucket is delivered, to clients that have not got
\* it before.
LEMMA DeliverStep ==
  ASSUME ServerTypes, FanOutInv, DeliveredPushed, NEW w \in JobWorkers, DeliverJob(w)
  PROVE  B!BroadcastNext
  <1>1. PICK j \in 1..Len(job), k \in 1..Len(batches), b \in Buckets :
          /\ k = job[j] /\ k \in Nat /\ b = WorkerBucket[w]
          /\ InHand(j, b) /\ ~Pushed(j, b) /\ j \in Jobs
          /\ received' = [c \in Clients |->
                            IF c \in {e \in Audience(b, batches[k].topic) :
                                        unread[e] < WsOutChannelSize}
                            THEN Append(received[c], k) ELSE received[c]]
          /\ UNCHANGED <<origin, contextChan, pending, batches, job>>
    BY JobPushed
  <1> DEFINE clients == {e \in Audience(b, batches[k].topic) : unread[e] < WsOutChannelSize}
  <1>2. clients \in SUBSET Clients
        /\ \A c \in clients : BucketOf[c] = b /\ batches[k].topic \in Follows[c]
    BY DEF Audience
  <1>3. received' = [c \in Clients |-> IF c \in clients THEN Append(received[c], k) ELSE received[c]]
    BY <1>1
  <1> HIDE DEF clients
  <1>4. \A c \in clients : k \notin Range(received[c])
    BY <1>1, <1>2, BatchIsNew
  <1>5. \A s : B!Range(s) = Range(s)
    BY DEF B!Range, Range
  <1>6. B!Deliver(k, clients)
    BY <1>1, <1>2, <1>3, <1>4, <1>5 DEF B!Deliver
  <1>7. k \in DOMAIN batches
    BY <1>1 DEF ServerTypes, BatchTypes
  <1> QED
    BY <1>2, <1>6, <1>7 DEF B!BroadcastNext

\* The refinement: an item accepted is a Publish, a commit a Cut, a push a Deliver.
LEMMA BroadcastSteps ==
  ASSUME ServerTypes, FanOutInv, MergeInv, DeliveredPushed, [Next]_vars
  PROVE  [B!BroadcastNext]_(B!broadcastVars)
  <1>1. ASSUME NEW q \in Requests, ServeItem(q) PROVE [B!BroadcastNext]_(B!broadcastVars)
    BY <1>1, PublishStep
  <1>2. ASSUME NEW w \in MergeWorkers, TakeContext(w) PROVE [B!BroadcastNext]_(B!broadcastVars)
    <2>1. PICK t \in Topics, items \in Seq(Nat) :
            /\ Len(items) \in 1..MaxMergerBatchSize
            /\ \A i \in 1..Len(items) : items[i] = CutOf(batches, t) + i
            /\ CutOf(batches, t) + Len(items) <= Len(origin[t])
            /\ Commit(t, items) \/ UNCHANGED batches
            /\ UNCHANGED <<origin, received>>
      BY <1>2, ItemTaken
    <2> QED
      BY <2>1, CutStep, BroadcastStutters
  <1>3. ASSUME NEW t \in Topics, TakeTimeout(t) PROVE [B!BroadcastNext]_(B!broadcastVars)
    <2>1. /\ pending[t] \in Seq(Nat) /\ Len(pending[t]) \in 1..MaxMergerBatchSize
          /\ Commit(t, pending[t])
          /\ UNCHANGED <<phase, requestVars, contextChan, mergeStopped, clientVars>>
      BY <1>3, TimeoutSteps
    <2>2. \A i \in 1..Len(pending[t]) : pending[t][i] = CutOf(batches, t) + i
      BY DEF MergeInv, BatchesJoin
    <2>3. CutOf(batches, t) + Len(pending[t]) <= Len(origin[t])
      BY DEF MergeInv, QueuesKeep, Taken
    <2>4. UNCHANGED <<origin, received>>
      BY <2>1 DEF requestVars, clientVars
    <2> QED
      BY <2>1, <2>2, <2>3, <2>4, CutStep
  <1>4. ASSUME NEW w \in JobWorkers, DeliverJob(w) PROVE [B!BroadcastNext]_(B!broadcastVars)
    BY <1>4, DeliverStep
  <1>5. ASSUME NEW q \in Requests, StartRequest(q) PROVE UNCHANGED B!broadcastVars
    BY <1>5, BroadcastStutters DEF StartRequest, mergeVars, clientVars
  <1>6. ASSUME NEW c \in Clients, WriteMessage(c) PROVE UNCHANGED B!broadcastVars
    BY <1>6, BroadcastStutters DEF WriteMessage, mergeVars, requestVars
  <1>7. CASE /\ ~\E q \in Requests : StartRequest(q) \/ ServeItem(q)
             /\ ~\E w \in MergeWorkers : TakeContext(w)
             /\ ~\E t \in Topics : TakeTimeout(t)
             /\ ~\E w \in JobWorkers : DeliverJob(w)
             /\ ~\E c \in Clients : WriteMessage(c)
    <2>1. UNCHANGED <<requestVars, contextChan, pending, batches, job, clientVars>>
      BY <1>7, OtherSteps
    <2> QED
      BY <2>1, BroadcastStutters DEF requestVars, clientVars
  <1> QED
    BY <1>1, <1>2, <1>3, <1>4, <1>5, <1>6, <1>7

\* What was delivered was pushed, in every reachable state.
LEMMA DeliveredHolds == Spec => [](FanOutInv /\ ServerTypes /\ MergeInv /\ DeliveredPushed)
  <1>1. Init => DeliveredPushed
    BY DEF Init, DeliveredPushed
  <1>2. FanOutInv /\ ServerTypes /\ MergeInv /\ DeliveredPushed /\ [Next]_vars => DeliveredPushed'
    BY DeliveredInductive
  <1> QED
    BY <1>1, <1>2, MergeInvHolds, PTL DEF Spec

\* Whatever the number of workers, what the server accepted for a topic is cut into
\* batches in the order of acceptance, without gap or overlap, and a client gets a
\* batch of a topic it follows whole and at most once.
THEOREM ImplementsBroadcast == Spec => BroadcastImplemented
  <1>1. FanOutInv /\ ServerTypes /\ MergeInv /\ DeliveredPushed /\ [Next]_vars
          => [B!BroadcastNext]_(B!broadcastVars)
    BY BroadcastSteps
  <1> QED
    BY <1>1, BroadcastStarts, DeliveredHolds, PTL DEF Spec, BroadcastImplemented, B!BroadcastSpec
-----------------------------------------------------------------------------
(* The order of the jobs, with one worker for each task: for every bucket a  *)
(* job goes from one place to the next in the order of acceptance.           *)

OneForEach ==
  /\ \A d, e \in DispatchWorkers : d = e
  /\ \A w, v \in JobWorkers : WorkerBucket[w] = WorkerBucket[v] => w = v

\* In a queue the jobs are in their order.
LinesGrow ==
  /\ Growing(dispatchChan)
  /\ \A b \in Buckets : Growing(jobChan[b]) /\ Growing(executed[b])

\* A job that has come further was accepted before.
LinesFollow ==
  \A j, k \in Jobs, b \in Buckets :
    /\ Fanned(j, b) /\ Waiting(k) => j < k
    /\ Queued(j, b) /\ (Fanned(k, b) \/ Waiting(k)) => j < k
    /\ InHand(j, b) /\ (Queued(k, b) \/ Fanned(k, b) \/ Waiting(k)) => j < k
    /\ Pushed(j, b) /\ (InHand(k, b) \/ Queued(k, b) \/ Fanned(k, b) \/ Waiting(k)) => j < k

InLine == LinesGrow /\ LinesFollow

\* At the start there is nothing in line.
LEMMA InLineInit == DispatchInit => InLine
  <1> SUFFICES ASSUME DispatchInit PROVE InLine
    OBVIOUS
  <1>1. dispatchChan = <<>> /\ \A b \in Buckets : jobChan[b] = <<>> /\ executed[b] = <<>>
    BY DEF DispatchInit
  <1>2. 0 \notin Jobs
    BY DEF Jobs
  <1>3. \A j \in Jobs : \A b : ~Fanned(j, b) /\ ~InHand(j, b)
    BY <1>2 DEF DispatchInit, NoJob, Fanned, InHand
  <1>4. \A j, b : b \in Buckets => ~Waiting(j) /\ ~Queued(j, b) /\ ~Pushed(j, b)
    BY <1>1 DEF Waiting, Queued, Pushed, Range
  <1> QED
    BY <1>1, <1>3, <1>4 DEF InLine, LinesGrow, LinesFollow, Growing

\* A newcomer is behind all others.
LEMMA PushInLine == ASSUME FanOutInv, InLine, Push PROVE InLine'
  <1> DEFINE n == accepted + 1
  <1>1. /\ UNCHANGED <<dispatchJob, bucketIdx, jobChan, pushJob, executed>>
        /\ accepted < MaxJobs
        /\ dispatchChan' = Append(dispatchChan, n) \/ UNCHANGED dispatchChan
    BY DEF Push, dispatchVars, jobVars, queueVars
  <1>2. /\ DispatchTypeOK /\ dispatchChan \in Seq(Jobs) /\ accepted \in Nat /\ MaxJobs \in Nat
        /\ Jobs = 1..MaxJobs
    BY FanOutTypes DEF FanOutInv
  <1>3. n \in Jobs /\ \A j \in Jobs : j <= accepted => j < n
    BY <1>1, <1>2
  <1>4. CASE UNCHANGED dispatchChan
    BY <1>1, <1>4, PlacesKept DEF InLine, LinesGrow, LinesFollow
  <1>5. CASE dispatchChan' = Append(dispatchChan, n)
    <2>1. \A j \in Jobs, b \in Buckets :
            Waiting(j) \/ Fanned(j, b) \/ Queued(j, b) \/ InHand(j, b) \/ Pushed(j, b) => j < n
      BY <1>3 DEF FanOutInv, JobsKnown
    <2> HIDE DEF n
    <2>2. Range(dispatchChan') = Range(dispatchChan) \cup {n}
      BY <1>2, <1>3, <1>5, AppendPlaces
    <2>3. \A j, b : /\ Waiting(j)' <=> Waiting(j) \/ j = n
                    /\ Fanned(j, b)' <=> Fanned(j, b)
                    /\ Queued(j, b)' <=> Queued(j, b)
                    /\ InHand(j, b)' <=> InHand(j, b)
                    /\ Pushed(j, b)' <=> Pushed(j, b)
      BY <1>1, <2>2 DEF Waiting, Fanned, Queued, InHand, Pushed
    <2>4. LinesFollow'
      BY <2>1, <2>3 DEF InLine, LinesFollow
    <2>5. Growing(dispatchChan')
      <3>1. \A j \in Range(dispatchChan) : j \in Jobs
        BY <1>2 DEF Range
      <3>2. 0 \in Buckets
        BY <1>2, FanOutTypes
      <3>3. \A j \in Range(dispatchChan) : j < n
        BY <2>1, <3>1, <3>2 DEF Waiting
      <3> QED
        BY <1>2, <1>3, <1>5, <3>3, AppendGrowing DEF InLine, LinesGrow
    <2> QED
      BY <1>1, <2>4, <2>5 DEF InLine, LinesGrow
  <1> QED
    BY <1>1, <1>4, <1>5

\* The only dispatch worker takes the first of those that wait.
LEMMA TakeJobInLine ==
  ASSUME OneForEach, FanOutInv, InLine, NEW d \in DispatchWorkers, TakeJob(d)
  PROVE  InLine'
  <1> DEFINE h == Head(dispatchChan)
  <1>1. /\ UNCHANGED <<jobChan, pushJob, executed>>
        /\ dpc[d] = "select" /\ dispatchChan # <<>> /\ dispatchChan' = Tail(dispatchChan)
        /\ \/ UNCHANGED <<dispatchJob, bucketIdx>>
           \/ dispatchJob' = [dispatchJob EXCEPT ![d] = h]
    BY DEF TakeJob, jobVars, dispatchVars
  <1>2. /\ DispatchTypeOK /\ dispatchChan \in Seq(Jobs) /\ Jobs \in SUBSET Nat
        /\ dispatchJob \in [DispatchWorkers -> Jobs \cup {NoJob}]
        /\ NoJob \notin Jobs
    BY FanOutTypes DEF FanOutInv
  <1>3. Growing(dispatchChan) /\ OnceEach(dispatchChan)
    BY DEF InLine, LinesGrow, FanOutInv, JobsOnce
  <1>4. /\ h \in Jobs /\ Range(dispatchChan') = Range(dispatchChan) \ {h}
        /\ h \in Range(dispatchChan)
    BY <1>1, <1>2, <1>3, TailPlaces, TailOnce
  <1>5. Growing(dispatchChan') /\ \A k \in Range(dispatchChan') : h < k
    BY <1>1, <1>2, <1>3, TailGrowing
  <1> HIDE DEF h
  <1>6. \A e \in DispatchWorkers : e = d /\ dispatchJob[e] = NoJob
    BY <1>1 DEF OneForEach, FanOutInv, HandsFull
  <1>7. \A j \in Jobs : \A b : ~Fanned(j, b)
    BY <1>2, <1>6 DEF Fanned
  <1>8. \A j \in Jobs : \A b : Fanned(j, b)' => j = h
    <2>1. CASE UNCHANGED <<dispatchJob, bucketIdx>>
      BY <1>7, <2>1 DEF Fanned
    <2>2. CASE dispatchJob' = [dispatchJob EXCEPT ![d] = h]
      BY <1>2, <1>6, <2>2 DEF Fanned
    <2> QED
      BY <1>1, <2>1, <2>2
  <1>9. \A j, b : /\ Waiting(j)' <=> Waiting(j) /\ j # h
                  /\ Queued(j, b)' <=> Queued(j, b)
                  /\ InHand(j, b)' <=> InHand(j, b)
                  /\ Pushed(j, b)' <=> Pushed(j, b)
    BY <1>1, <1>4 DEF Waiting, Queued, InHand, Pushed
  <1>10. Waiting(h) /\ \A k : Waiting(k)' => h < k
    BY <1>4, <1>5 DEF Waiting
  <1>11. LinesFollow'
    BY <1>4, <1>8, <1>9, <1>10 DEF InLine, LinesFollow
  <1>12. LinesGrow'
    BY <1>1, <1>5 DEF InLine, LinesGrow
  <1> QED
    BY <1>11, <1>12 DEF InLine

\* It sends its job to a bucket before it takes the next.
LEMMA SendInLine ==
  ASSUME OneForEach, FanOutInv, InLine, NEW d \in DispatchWorkers, SendToBucket(d)
  PROVE  InLine'
  <1> DEFINE n == dispatchJob[d]
             q == bucketIdx[d]
  <1>1. /\ UNCHANGED <<dispatchChan, pushJob, executed>>
        /\ dpc[d] = "fanOut"
        /\ jobChan' = [jobChan EXCEPT ![q] = Append(@, n)]
        /\ \/ dispatchJob' = [dispatchJob EXCEPT ![d] = NoJob]
           \/ /\ bucketIdx' = [bucketIdx EXCEPT ![d] = q + 1]
              /\ UNCHANGED dispatchJob
    BY DEF SendToBucket, queueVars, jobVars
  <1>2. /\ DispatchTypeOK /\ Jobs \in SUBSET Nat /\ NoJob \notin Jobs
        /\ dispatchJob \in [DispatchWorkers -> Jobs \cup {NoJob}]
        /\ bucketIdx \in [DispatchWorkers -> Buckets]
        /\ jobChan \in [Buckets -> Seq(Jobs)]
        /\ Buckets \in SUBSET Nat
    BY FanOutTypes DEF FanOutInv
  <1>3. n \in Jobs /\ q \in Buckets /\ q \in Nat /\ jobChan[q] \in Seq(Jobs)
    BY <1>1, <1>2 DEF FanOutInv, HandsFull
  <1>4. Fanned(n, q)
    BY <1>3 DEF Fanned
  <1>5. \A j \in Jobs, b \in Buckets : Fanned(j, b)' => Fanned(j, b) /\ b # q /\ j = n
    <2> SUFFICES ASSUME NEW j \in Jobs, NEW b \in Buckets, Fanned(j, b)'
                 PROVE  Fanned(j, b) /\ b # q /\ j = n
      OBVIOUS
    <2>1. dispatchJob'[d] = j /\ bucketIdx'[d] <= b
      BY DEF OneForEach, Fanned
    <2>2. /\ bucketIdx' = [bucketIdx EXCEPT ![d] = q + 1]
          /\ UNCHANGED dispatchJob
      BY <1>1, <1>2, <2>1
    <2>3. j = n /\ q + 1 <= b
      BY <1>2, <2>1, <2>2
    <2>4. q <= b /\ b # q
      BY <1>2, <1>3, <2>3
    <2> QED
      BY <2>3, <2>4 DEF Fanned
  <1> HIDE DEF n, q
  <1>6. Range(Append(jobChan[q], n)) = Range(jobChan[q]) \cup {n}
    BY <1>3, AppendPlaces
  <1>7. \A b \in Buckets : jobChan'[b] = IF b = q THEN Append(jobChan[q], n) ELSE jobChan[b]
    BY <1>1, <1>2, <1>3
  <1>8. \A j : \A b \in Buckets : Queued(j, b)' <=> Queued(j, b) \/ (b = q /\ j = n)
    BY <1>6, <1>7 DEF Queued
  <1>9. \A j, b : /\ Waiting(j)' <=> Waiting(j)
                  /\ InHand(j, b)' <=> InHand(j, b)
                  /\ Pushed(j, b)' <=> Pushed(j, b)
    BY <1>1 DEF Waiting, InHand, Pushed
  <1>10. LinesFollow'
    BY <1>3, <1>4, <1>5, <1>8, <1>9 DEF InLine, LinesFollow
  <1>11. \A b \in Buckets : Growing(jobChan'[b])
    <2>1. \A j \in Range(jobChan[q]) : j \in Jobs
      BY <1>3 DEF Range
    <2>2. \A j \in Range(jobChan[q]) : j < n
      BY <1>3, <1>4, <2>1 DEF InLine, LinesFollow, Queued
    <2>3. Growing(Append(jobChan[q], n))
      BY <1>3, <2>2, AppendGrowing DEF InLine, LinesGrow
    <2> QED
      BY <1>7, <2>3 DEF InLine, LinesGrow
  <1>12. LinesGrow'
    BY <1>1, <1>11 DEF InLine, LinesGrow
  <1> QED
    BY <1>10, <1>12 DEF InLine

\* The only worker of a bucket takes the first of its queue.
LEMMA ReceiveInLine ==
  ASSUME OneForEach, FanOutInv, InLine, NEW w \in JobWorkers, ReceiveJob(w)
  PROVE  InLine'
  <1> DEFINE q == WorkerBucket[w]
             h == Head(jobChan[q])
  <1>1. /\ UNCHANGED <<dispatchChan, dispatchJob, bucketIdx, executed>>
        /\ jpc[w] = "select" /\ jobChan[q] # <<>>
        /\ jobChan' = [jobChan EXCEPT ![q] = Tail(@)]
        /\ pushJob' = [pushJob EXCEPT ![w] = h]
    BY DEF ReceiveJob, queueVars, dispatchVars
  <1>2. /\ DispatchTypeOK /\ Jobs \in SUBSET Nat /\ NoJob \notin Jobs
        /\ pushJob \in [JobWorkers -> Jobs \cup {NoJob}]
        /\ jobChan \in [Buckets -> Seq(Jobs)]
        /\ WorkerBucket \in [JobWorkers -> Buckets]
    BY FanOutTypes DEF FanOutInv
  <1>3. q \in Buckets /\ jobChan[q] \in Seq(Jobs)
    BY <1>2
  <1>4. Growing(jobChan[q]) /\ OnceEach(jobChan[q])
    BY <1>3 DEF InLine, LinesGrow, FanOutInv, JobsOnce
  <1>5. /\ h \in Jobs /\ h \in Range(jobChan[q])
        /\ Range(Tail(jobChan[q])) = Range(jobChan[q]) \ {h}
    BY <1>1, <1>3, <1>4, TailPlaces, TailOnce
  <1>6. Growing(Tail(jobChan[q])) /\ \A k \in Range(Tail(jobChan[q])) : h < k
    BY <1>1, <1>2, <1>3, <1>4, TailGrowing
  <1>7. \A b \in Buckets : jobChan'[b] = IF b = q THEN Tail(jobChan[q]) ELSE jobChan[b]
    BY <1>1, <1>2, <1>3
  <1>8. pushJob[w] = NoJob
    BY <1>1 DEF FanOutInv, HandsFull
  <1>9. \A j \in Jobs, b \in Buckets :
          InHand(j, b)' => (b = q /\ j = h) \/ (b # q /\ InHand(j, b))
    <2> SUFFICES ASSUME NEW j \in Jobs, NEW b \in Buckets, NEW v \in JobWorkers,
                        pushJob'[v] = j, WorkerBucket[v] = b
                 PROVE  (b = q /\ j = h) \/ (b # q /\ InHand(j, b))
      BY DEF InHand
    <2>1. CASE v = w
      BY <1>1, <1>2, <2>1
    <2>2. CASE v # w
      BY <1>1, <1>2, <2>2 DEF OneForEach, InHand
    <2> QED
      BY <2>1, <2>2
  <1> HIDE DEF q, h
  <1>10. \A j : \A b \in Buckets : Queued(j, b)' <=> Queued(j, b) /\ ~(b = q /\ j = h)
    BY <1>5, <1>7 DEF Queued
  <1>11. Queued(h, q) /\ \A k : Queued(k, q)' => h < k
    BY <1>3, <1>5, <1>6, <1>7 DEF Queued
  <1>12. \A j, b : /\ Waiting(j)' <=> Waiting(j)
                   /\ Fanned(j, b)' <=> Fanned(j, b)
                   /\ Pushed(j, b)' <=> Pushed(j, b)
    BY <1>1 DEF Waiting, Fanned, Pushed
  <1>13. LinesFollow'
    BY <1>3, <1>5, <1>9, <1>10, <1>11, <1>12 DEF InLine, LinesFollow
  <1>14. LinesGrow'
    BY <1>1, <1>6, <1>7 DEF InLine, LinesGrow
  <1> QED
    BY <1>13, <1>14 DEF InLine

\* It pushes its job before it takes the next.
LEMMA ExecuteInLine ==
  ASSUME OneForEach, FanOutInv, InLine, NEW w \in JobWorkers, ExecuteJob(w)
  PROVE  InLine'
  <1> DEFINE q == WorkerBucket[w]
             n == pushJob[w]
  <1>1. /\ UNCHANGED <<dispatchChan, dispatchJob, bucketIdx, jobChan>>
        /\ jpc[w] = "push"
        /\ executed' = [executed EXCEPT ![q] = Append(@, n)]
        /\ pushJob' = [pushJob EXCEPT ![w] = NoJob]
    BY DEF ExecuteJob, queueVars, dispatchVars
  <1>2. /\ DispatchTypeOK /\ Jobs \in SUBSET Nat /\ NoJob \notin Jobs
        /\ pushJob \in [JobWorkers -> Jobs \cup {NoJob}]
        /\ executed \in [Buckets -> Seq(Jobs)]
        /\ WorkerBucket \in [JobWorkers -> Buckets]
    BY FanOutTypes DEF FanOutInv
  <1>3. n \in Jobs /\ q \in Buckets /\ executed[q] \in Seq(Jobs)
    BY <1>1, <1>2 DEF FanOutInv, HandsFull
  <1>4. InHand(n, q)
    BY DEF InHand
  <1>5. \A j \in Jobs, b \in Buckets : InHand(j, b)' => InHand(j, b) /\ b # q
    <2> SUFFICES ASSUME NEW j \in Jobs, NEW b \in Buckets, NEW v \in JobWorkers,
                        pushJob'[v] = j, WorkerBucket[v] = b
                 PROVE  InHand(j, b) /\ b # q
      BY DEF InHand
    <2>1. v # w
      BY <1>1, <1>2
    <2> QED
      BY <1>1, <1>2, <2>1 DEF OneForEach, InHand
  <1> HIDE DEF n, q
  <1>6. Range(Append(executed[q], n)) = Range(executed[q]) \cup {n}
    BY <1>3, AppendPlaces
  <1>7. \A b \in Buckets : executed'[b] = IF b = q THEN Append(executed[q], n) ELSE executed[b]
    BY <1>1, <1>2, <1>3
  <1>8. \A j : \A b \in Buckets : Pushed(j, b)' <=> Pushed(j, b) \/ (b = q /\ j = n)
    BY <1>6, <1>7 DEF Pushed
  <1>9. \A j, b : /\ Waiting(j)' <=> Waiting(j)
                  /\ Fanned(j, b)' <=> Fanned(j, b)
                  /\ Queued(j, b)' <=> Queued(j, b)
    BY <1>1 DEF Waiting, Fanned, Queued
  <1>10. LinesFollow'
    BY <1>3, <1>4, <1>5, <1>8, <1>9 DEF InLine, LinesFollow
  <1>11. \A b \in Buckets : Growing(executed'[b])
    <2>1. \A j \in Range(executed[q]) : j \in Jobs
      BY <1>3 DEF Range
    <2>2. \A j \in Range(executed[q]) : j < n
      BY <1>3, <1>4, <2>1 DEF InLine, LinesFollow, Pushed
    <2>3. Growing(Append(executed[q], n))
      BY <1>3, <2>2, AppendGrowing DEF InLine, LinesGrow
    <2> QED
      BY <1>7, <2>3 DEF InLine, LinesGrow
  <1>12. LinesGrow'
    BY <1>1, <1>11 DEF InLine, LinesGrow
  <1> QED
    BY <1>10, <1>12 DEF InLine

\* With one worker for each task every step of the fan-out keeps the line.
LEMMA InLineInductive == ASSUME OneForEach, FanOutInv, InLine, [DispatchNext]_managerVars PROVE InLine'
  <1>1. CASE Push
    BY <1>1, PushInLine
  <1>2. ASSUME UNCHANGED <<dispatchChan, dispatchJob, bucketIdx, jobChan, pushJob, executed>>
        PROVE  InLine'
    BY <1>2, PlacesKept DEF InLine, LinesGrow, LinesFollow
  <1>3. ASSUME NEW d \in DispatchWorkers, DispatchStep(d) PROVE InLine'
    <2>1. CASE TakeNilJob(d) \/ DispatchStop(d)
      BY <1>2, <2>1 DEF TakeNilJob, DispatchStop, queueVars, dispatchVars, jobVars
    <2> QED
      BY <1>3, <2>1, TakeJobInLine, SendInLine DEF DispatchStep
  <1>4. ASSUME NEW w \in JobWorkers, JobStep(w) PROVE InLine'
    <2>1. CASE JobStop(w)
      BY <1>2, <2>1 DEF JobStop, queueVars, dispatchVars
    <2> QED
      BY <1>4, <2>1, ReceiveInLine, ExecuteInLine DEF JobStep
  <1>5. CASE ConnectManagerClose \/ UNCHANGED managerVars
    BY <1>2, <1>5 DEF ConnectManagerClose, managerVars, queueVars, dispatchVars, jobVars
  <1> QED
    BY <1>1, <1>3, <1>4, <1>5 DEF DispatchNext

\* A client gets the batches in the order in which they were committed.
Ordered == OneForEach => InLine /\ \A c \in Clients : Growing(received[c])

\* Only a job worker reaches the clients.
LEMMA ReceivedKept ==
  ASSUME [Next]_vars, ~\E w \in JobWorkers : DeliverJob(w) PROVE UNCHANGED received
  <1>1. CASE UNCHANGED vars
    BY <1>1 DEF vars, clientVars
  <1>2. ASSUME NEW q \in Requests, StartRequest(q) \/ ServeItem(q) PROVE UNCHANGED received
    BY <1>2 DEF StartRequest, ServeItem, clientVars
  <1>3. ASSUME NEW w \in MergeWorkers, MergeStep(w) PROVE UNCHANGED received
    BY <1>3 DEF MergeStep, TakeContext, MergeStop, TakeTimeout, clientVars
  <1>4. ASSUME NEW d \in DispatchWorkers, FanOutStep(d) PROVE UNCHANGED received
    BY <1>4 DEF FanOutStep, clientVars
  <1>5. ASSUME NEW w \in JobWorkers, JobWorkerStep(w) PROVE UNCHANGED received
    BY <1>5 DEF JobWorkerStep, clientVars
  <1>6. ASSUME NEW c \in Clients, WriteMessage(c) PROVE UNCHANGED received
    BY <1>6 DEF WriteMessage
  <1>7. CASE HttpServerClose \/ MergeClose \/ CloseConnectManager
    BY <1>7 DEF HttpServerClose, MergeClose, CloseConnectManager, clientVars
  <1> QED
    BY <1>1, <1>2, <1>3, <1>4, <1>5, <1>6, <1>7 DEF Next

\* So a job that is pushed is newer than all that a client of its bucket got.
LEMMA OrderedInductive ==
  ASSUME ServerTypes, FanOutInv, DeliveredPushed, Ordered, [Next]_vars, [DispatchNext]_managerVars
  PROVE  Ordered'
  <1> SUFFICES ASSUME OneForEach PROVE InLine' /\ \A c \in Clients : Growing(received'[c])
    BY DEF Ordered, OneForEach
  <1>1. InLine /\ \A c \in Clients : Growing(received[c])
    BY DEF Ordered
  <1>2. InLine'
    BY <1>1, InLineInductive
  <1>3. CASE ~\E w \in JobWorkers : DeliverJob(w)
    BY <1>1, <1>2, <1>3, ReceivedKept
  <1>4. ASSUME NEW w \in JobWorkers, DeliverJob(w), NEW c \in Clients
        PROVE  Growing(received'[c])
    <2>1. PICK j \in 1..Len(job), k \in 1..Len(batches), b \in Buckets :
            /\ k = job[j] /\ k \in Nat
            /\ InHand(j, b) /\ j \in Jobs
            /\ \/ received'[c] = received[c]
               \/ BucketOf[c] = b /\ received'[c] = Append(received[c], k)
      BY <1>4, JobPushed
    <2>2. CASE received'[c] = received[c]
      BY <1>1, <2>2
    <2>3. CASE BucketOf[c] = b /\ received'[c] = Append(received[c], k)
      <3>1. received[c] \in Seq(Nat)
        BY DEF ServerTypes, ClientTypes
      <3>2. /\ accepted \in 0..MaxJobs /\ MaxJobs \in Nat /\ Jobs = 1..MaxJobs
            /\ Len(job) = accepted /\ Growing(job) /\ DOMAIN job = 1..Len(job)
        BY FanOutTypes DEF ServerTypes, BatchTypes
      <3>3. ASSUME NEW y \in Range(received[c]) PROVE y < k
        <4>1. PICK i \in 1..Len(received[c]) : y = received[c][i]
          BY <3>1 DEF Range
        <4>2. PICK n \in 1..Len(job) : job[n] = y /\ Pushed(n, b)
          BY <2>3, <4>1 DEF DeliveredPushed
        <4>3. n \in Jobs
          BY <3>2
        <4>4. n < j
          BY <1>1, <2>1, <4>2, <4>3 DEF InLine, LinesFollow
        <4> QED
          BY <2>1, <3>2, <4>2, <4>4 DEF Growing
      <3> QED
        BY <1>1, <2>1, <2>3, <3>1, <3>3, AppendGrowing
    <2> QED
      BY <2>1, <2>2, <2>3
  <1> QED
    BY <1>2, <1>3, <1>4

\* The order holds in every reachable state.
LEMMA OrderedHolds == Spec => [](ServerTypes /\ MergeInv /\ DeliveredPushed /\ Ordered)
  <1>1. Init => Ordered
    <2> SUFFICES ASSUME Init PROVE Ordered
      OBVIOUS
    <2>1. InLine
      BY InLineInit DEF Init
    <2> QED
      BY <2>1 DEF Init, Ordered, Growing
  <1>2. FanOutInv /\ ServerTypes /\ DeliveredPushed /\ Ordered /\ [Next]_vars /\ [DispatchNext]_managerVars
          => Ordered'
    BY OrderedInductive
  <1> QED
    BY <1>1, <1>2, DeliveredHolds, ServerDispatches, PTL DEF Spec, DispatchSpec

\* One of them is all of them.
LEMMA OneWorker ==
  Cardinality(DispatchWorkers) = 1 => \A d, e \in DispatchWorkers : d = e
  <1> SUFFICES ASSUME Cardinality(DispatchWorkers) = 1,
                      NEW d \in DispatchWorkers, NEW e \in DispatchWorkers
               PROVE  d = e
    OBVIOUS
  <1>1. IsFiniteSet(DispatchWorkers)
    BY DispatchAssumption DEF DispatchAssumption
  <1> QED
    BY <1>1, FS_Singleton

\* With one dispatch worker, and one job worker for each bucket, the clients get
\* the items of a topic in the order in which they were accepted.
THEOREM ItemsArriveInOrder == Spec => []ItemsInOrder
  <1>1. ServerTypes /\ MergeInv /\ DeliveredPushed /\ Ordered => ItemsInOrder
    <2> SUFFICES ASSUME ServerTypes, MergeInv, DeliveredPushed, Ordered,
                        Cardinality(DispatchWorkers) = 1,
                        \A w, v \in JobWorkers : WorkerBucket[w] = WorkerBucket[v] => w = v,
                        NEW c \in Clients, NEW i \in DOMAIN received[c],
                        NEW k \in DOMAIN received[c], i < k,
                        batches[received[c][i]].topic = batches[received[c][k]].topic,
                        NEW m \in DOMAIN batches[received[c][i]].items,
                        NEW n \in DOMAIN batches[received[c][k]].items
                 PROVE  batches[received[c][i]].items[m] < batches[received[c][k]].items[n]
      BY DEF ItemsInOrder
    <2>1. OneForEach
      BY OneWorker DEF OneForEach
    <2>2. received[c][i] < received[c][k]
      BY <2>1 DEF Ordered, Growing
    <2>3. ASSUME NEW l \in DOMAIN received[c] PROVE received[c][l] \in 1..Len(batches)
      <3>1. received[c] \in Seq(Nat)
        BY DEF ServerTypes, ClientTypes
      <3>2. l \in 1..Len(received[c])
        BY <3>1, LenProperties
      <3>3. PICK j \in 1..Len(job) : job[j] = received[c][l]
        BY <3>2 DEF DeliveredPushed
      <3> QED
        BY <3>3 DEF ServerTypes, BatchTypes
    <2>4. ASSUME NEW l \in 1..Len(batches)
          PROVE  DOMAIN batches[l].items = 1..Len(batches[l].items)
      <3>1. batches \in Seq(Batches)
        BY DEF ServerTypes, BatchTypes
      <3>2. batches[l] \in Batches
        BY <3>1, ElementOfSeq
      <3>3. batches[l].items \in Seq(Nat)
        BY <3>2 DEF Batches
      <3> QED
        BY <3>3, LenProperties
    <2> DEFINE x == received[c][i]
               y == received[c][k]
    <2>5. /\ x \in 1..Len(batches) /\ y \in 1..Len(batches) /\ x < y
          /\ batches[x].topic = batches[y].topic
          /\ m \in 1..Len(batches[x].items) /\ n \in 1..Len(batches[y].items)
      BY <2>2, <2>3, <2>4
    <2> HIDE DEF x, y
    <2>6. batches[x].items[m] < batches[y].items[n]
      BY <2>5 DEF MergeInv, BatchesJoin
    <2> QED
      BY <2>6 DEF x, y
  <1> QED
    BY <1>1, OrderedHolds, PTL
=============================================================================
