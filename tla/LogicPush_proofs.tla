-------------------------- MODULE LogicPush_proofs --------------------------
(***************************************************************************)
(* The inductive invariant of LogicPush, and what follows from it for any  *)
(* number of workers, servers, jobs, slots and tries: the slots taken of a *)
(* server are the pushes to it that are going on, a server gets a job      *)
(* again only after a post has failed, and a job is dropped only for a     *)
(* server that is busy with as many others as it may be.                   *)
(***************************************************************************)
EXTENDS LogicPush, FiniteSetTheorems, TLAPS

\* Sets of jobs are finite.
LEMMA JobsFinite == \A s \in Servers : IsFiniteSet(BusyPushes(s))
  <1>1. IsFiniteSet(Jobs)
    BY LogicPushAssumption, FS_Interval DEF LogicPushAssumption, Jobs
  <1> QED
    BY <1>1, FS_Subset DEF BusyPushes

\* What a step of one push does to the sets of pushes that are going on.
LEMMA BusyStep ==
  ASSUME TypeOK, NEW j \in Jobs, NEW t \in Servers, NEW label \in Phases,
         phase' = [phase EXCEPT ![<<j, t>>] = label]
  PROVE  /\ \A s \in Servers : s # t => BusyPushes(s)' = BusyPushes(s)
         /\ BusyPushes(t)' = IF label \in Busy THEN BusyPushes(t) \cup {j}
                                               ELSE BusyPushes(t) \ {j}
         /\ j \in BusyPushes(t) <=> phase[<<j, t>>] \in Busy
         /\ phase' \in [Pushes -> Phases]
  <1>1. phase \in [Pushes -> Phases] /\ Pushes = Jobs \X Servers /\ <<j, t>> \in Pushes
    BY DEF TypeOK, Pushes
  <1>2. \A i \in Jobs : \A s \in Servers :
          phase'[<<i, s>>] = IF i = j /\ s = t THEN label ELSE phase[<<i, s>>]
    BY <1>1
  <1>3. \A s \in Servers : BusyPushes(s)' = {i \in Jobs : phase'[<<i, s>>] \in Busy}
    BY DEF BusyPushes
  <1>4. phase' \in [Pushes -> Phases]
    BY <1>1
  <1>5. \A s \in Servers : s # t => BusyPushes(s)' = BusyPushes(s)
    BY <1>2, <1>3 DEF BusyPushes
  <1>6. BusyPushes(t)' = IF label \in Busy THEN BusyPushes(t) \cup {j}
                                           ELSE BusyPushes(t) \ {j}
    BY <1>2, <1>3 DEF BusyPushes
  <1> QED
    BY <1>4, <1>5, <1>6 DEF BusyPushes

\* At the start nothing is pushed and every slot is free.
LEMMA InitIInv == Init => IInv
  <1> SUFFICES ASSUME Init PROVE IInv
    OBVIOUS
  <1> USE LogicPushAssumption DEF Init, LogicPushAssumption
  <1>1. TypeOK
    <2>1. serverIdx \in [DispatchWorkers -> 0..ServerCount]
      OBVIOUS
    <2>2. pendingChan \in [Servers -> 0..MessageServerMaxPendingCount]
      OBVIOUS
    <2>3. /\ retry \in [Pushes -> 0..MessageServerPushRetry]
          /\ arrived \in [Pushes -> 0..MessageServerPushRetry]
          /\ failures \in [Pushes -> 0..MessageServerPushRetry]
      OBVIOUS
    <2>4. dispatchChan \in Seq(Jobs) /\ Len(dispatchChan) <= MessageServerDispatchChannelSize
      OBVIOUS
    <2>5. accepted \in 0..MaxJobs
      OBVIOUS
    <2>6. phase \in [Pushes -> Phases]
      BY DEF Phases
    <2> QED
      BY <2>1, <2>2, <2>3, <2>4, <2>5, <2>6 DEF TypeOK
  <1>2. SlotsAreBusy
    <2> SUFFICES ASSUME NEW s \in Servers PROVE pendingChan[s] = Cardinality(BusyPushes(s))
      BY DEF SlotsAreBusy
    <2>1. BusyPushes(s) = {}
      BY DEF BusyPushes, Busy, Pushes
    <2> QED
      BY <2>1, FS_EmptySet
  <1>3. RepeatedOnlyAfterFailure /\ TriesCounted
    BY DEF RepeatedOnlyAfterFailure, TriesCounted
  <1>4. JobsApart /\ OfferedOnce
    BY DEF JobsApart, OfferedOnce, NoJob, Pushes
  <1> QED
    BY <1>1, <1>2, <1>3, <1>4 DEF IInv

\* Steps that neither offer a job nor belong to a push.
LEMMA QueueIInv ==
  ASSUME IInv,
         \/ Push \/ MessageConnectClose
         \/ \E d \in DispatchWorkers : TakeJob(d) \/ FanOutEnds(d) \/ DispatchStop(d)
  PROVE  IInv'
  <1> USE DEF queueVars, dispatchVars, slotVars, postVars, processVars
  <1>1. /\ TypeOK /\ JobsApart /\ OfferedOnce
        /\ accepted \in Nat /\ NoJob \notin Jobs /\ \A j \in Jobs : j \in Nat
    BY LogicPushAssumption DEF IInv, TypeOK, NoJob, Jobs, LogicPushAssumption
  <1>2. UNCHANGED <<slotVars, postVars>>
    BY DEF Push, Enqueue, MessageConnectClose, TakeJob, FanOutEnds, DispatchStop
  <1>3. SlotsAreBusy' /\ RepeatedOnlyAfterFailure' /\ TriesCounted'
    BY <1>2 DEF IInv, SlotsAreBusy, BusyPushes, RepeatedOnlyAfterFailure, TriesCounted
  <1>4. SUFFICES /\ TypeOK' /\ JobsApart'
                 /\ \A j \in Jobs : \A s \in Servers : ToBeOffered(j, s)' => ToBeOffered(j, s)
    BY <1>1, <1>2, <1>3 DEF IInv, OfferedOnce
  <1>5. CASE Push
    <2>1. CASE UNCHANGED <<accepted, dispatchChan>>
      BY <1>1, <1>5, <2>1 DEF Push, Enqueue, TypeOK, JobsApart, ToBeOffered
    <2>2. CASE /\ Len(dispatchChan) < MessageServerDispatchChannelSize
               /\ accepted' = accepted + 1
               /\ dispatchChan' = Append(dispatchChan, accepted + 1)
      <3>1. accepted + 1 \in Jobs /\ accepted' \in 0..MaxJobs
        BY <1>1, <1>5, LogicPushAssumption DEF Push, Enqueue, Jobs, LogicPushAssumption
      <3>2. /\ dispatchChan' \in Seq(Jobs) /\ Len(dispatchChan') = Len(dispatchChan) + 1
            /\ DOMAIN dispatchChan = 1..Len(dispatchChan)
            /\ DOMAIN dispatchChan' = 1..(Len(dispatchChan) + 1)
            /\ \A i \in DOMAIN dispatchChan :
                 dispatchChan'[i] = dispatchChan[i] /\ dispatchChan[i] \in Jobs
            /\ dispatchChan'[Len(dispatchChan) + 1] = accepted + 1
            /\ Len(dispatchChan) \in Nat
        BY <1>1, <2>2, <3>1 DEF TypeOK
      <3>3. UNCHANGED <<dispatchVars, slotVars, postVars, main, panicked>>
        BY <1>5 DEF Push, Enqueue
      <3>4. TypeOK'
        BY <1>1, <2>2, <3>1, <3>2, <3>3, LogicPushAssumption DEF TypeOK, LogicPushAssumption
      <3>5. \A d \in DispatchWorkers : pushJob[d] \in Nat /\ pushJob[d] <= accepted
        BY <1>1 DEF TypeOK, JobsApart, NoJob
      <3>6. JobsApart'
        <4>1. \A i \in DOMAIN dispatchChan' :
                /\ dispatchChan'[i] <= accepted'
                /\ \A k \in DOMAIN dispatchChan' : k # i => dispatchChan'[k] # dispatchChan'[i]
                /\ \A d \in DispatchWorkers : pushJob'[d] # dispatchChan'[i]
          BY <1>1, <2>2, <3>2, <3>3, <3>5 DEF JobsApart
        <4>2. \A d \in DispatchWorkers :
                /\ pushJob'[d] <= accepted'
                /\ \A e \in DispatchWorkers :
                     e # d /\ pushJob'[d] # NoJob => pushJob'[e] # pushJob'[d]
          BY <1>1, <2>2, <3>3, <3>5 DEF JobsApart
        <4> QED
          BY <4>1, <4>2 DEF JobsApart
      <3>7. \A j \in Jobs : \A s \in Servers : ToBeOffered(j, s)' => ToBeOffered(j, s)
        BY <1>1, <2>2, <3>2, <3>3 DEF ToBeOffered
      <3> QED
        BY <3>4, <3>6, <3>7
    <2> QED
      BY <1>5, <2>1, <2>2 DEF Push, Enqueue
  <1>6. CASE MessageConnectClose
    BY <1>1, <1>6 DEF MessageConnectClose, CloseOrder, Alive, TypeOK, JobsApart, ToBeOffered
  <1>7. ASSUME NEW d \in DispatchWorkers, TakeJob(d)
        PROVE  /\ TypeOK' /\ JobsApart'
               /\ \A j \in Jobs : \A s \in Servers : ToBeOffered(j, s)' => ToBeOffered(j, s)
    <2>1. /\ dispatchChan \in Seq(Jobs) /\ dispatchChan # <<>>
          /\ dispatchChan' = Tail(dispatchChan)
          /\ pushJob' = [pushJob EXCEPT ![d] = Head(dispatchChan)]
          /\ serverIdx' = [serverIdx EXCEPT ![d] = 0]
          /\ UNCHANGED <<accepted, stopped, slotVars, postVars, processVars>>
      BY <1>1, <1>7 DEF TakeJob, TypeOK
    <2>2. /\ Len(dispatchChan) \in Nat /\ Len(dispatchChan) > 0
          /\ DOMAIN dispatchChan = 1..Len(dispatchChan)
          /\ dispatchChan' \in Seq(Jobs) /\ Len(dispatchChan') = Len(dispatchChan) - 1
          /\ DOMAIN dispatchChan' = 1..(Len(dispatchChan) - 1)
          /\ \A i \in DOMAIN dispatchChan' :
               dispatchChan'[i] = dispatchChan[i + 1] /\ i + 1 \in DOMAIN dispatchChan
          /\ Head(dispatchChan) = dispatchChan[1] /\ 1 \in DOMAIN dispatchChan
          /\ Head(dispatchChan) \in Jobs
      BY <2>1
    <2>3. \A e \in DispatchWorkers :
            /\ pushJob'[e] = IF e = d THEN Head(dispatchChan) ELSE pushJob[e]
            /\ serverIdx'[e] = IF e = d THEN 0 ELSE serverIdx[e]
      BY <1>1, <2>1 DEF TypeOK
    <2>4. TypeOK'
      <3>1. pushJob' \in [DispatchWorkers -> Jobs \cup {NoJob}]
        BY <1>1, <2>1, <2>2 DEF TypeOK
      <3>2. serverIdx' \in [DispatchWorkers -> 0..ServerCount]
        BY <1>1, <2>1, LogicPushAssumption DEF TypeOK, LogicPushAssumption
      <3>3. Len(dispatchChan') <= MessageServerDispatchChannelSize
        BY <1>1, <2>2, LogicPushAssumption DEF TypeOK, LogicPushAssumption
      <3> QED
        BY <1>1, <2>1, <2>2, <3>1, <3>2, <3>3 DEF TypeOK
    <2>5. JobsApart'
      <3>1. \A i \in DOMAIN dispatchChan' :
              /\ dispatchChan'[i] <= accepted
              /\ \A k \in DOMAIN dispatchChan' : k # i => dispatchChan'[k] # dispatchChan'[i]
        BY <1>1, <2>2 DEF JobsApart
      <3>2. \A i \in DOMAIN dispatchChan' : dispatchChan'[i] # Head(dispatchChan)
        BY <1>1, <2>2 DEF JobsApart
      <3>3. \A i \in DOMAIN dispatchChan' :
              \A e \in DispatchWorkers : pushJob'[e] # dispatchChan'[i]
        BY <1>1, <2>2, <2>3, <3>2 DEF JobsApart
      <3>4. \A e \in DispatchWorkers : pushJob'[e] <= accepted
        BY <1>1, <2>2, <2>3 DEF JobsApart
      <3>5. \A e, f \in DispatchWorkers :
              f # e /\ pushJob'[e] # NoJob => pushJob'[f] # pushJob'[e]
        BY <1>1, <2>2, <2>3 DEF JobsApart
      <3> QED
        BY <2>1, <3>1, <3>3, <3>4, <3>5 DEF JobsApart
    <2>6. \A j \in Jobs : \A s \in Servers : ToBeOffered(j, s)' => ToBeOffered(j, s)
      BY <2>1, <2>2, <2>3 DEF ToBeOffered
    <2> QED
      BY <2>4, <2>5, <2>6
  <1>8. ASSUME NEW d \in DispatchWorkers, FanOutEnds(d)
        PROVE  /\ TypeOK' /\ JobsApart'
               /\ \A j \in Jobs : \A s \in Servers : ToBeOffered(j, s)' => ToBeOffered(j, s)
    <2>1. /\ pushJob' = [pushJob EXCEPT ![d] = NoJob]
          /\ UNCHANGED <<accepted, dispatchChan, serverIdx, stopped, slotVars, postVars, processVars>>
      BY <1>8 DEF FanOutEnds
    <2>2. \A e \in DispatchWorkers : pushJob'[e] = IF e = d THEN NoJob ELSE pushJob[e]
      BY <1>1, <2>1 DEF TypeOK
    <2>3. TypeOK'
      BY <1>1, <2>1 DEF TypeOK
    <2>4. \A i \in DOMAIN dispatchChan : dispatchChan[i] # NoJob
      BY <1>1 DEF TypeOK
    <2>5. JobsApart'
      BY <1>1, <2>1, <2>2, <2>4 DEF JobsApart, NoJob
    <2>6. \A j \in Jobs : \A s \in Servers : ToBeOffered(j, s)' => ToBeOffered(j, s)
      BY <1>1, <2>1, <2>2 DEF ToBeOffered
    <2> QED
      BY <2>3, <2>5, <2>6
  <1>9. ASSUME NEW d \in DispatchWorkers, DispatchStop(d)
        PROVE  /\ TypeOK' /\ JobsApart'
               /\ \A j \in Jobs : \A s \in Servers : ToBeOffered(j, s)' => ToBeOffered(j, s)
    BY <1>1, <1>9 DEF DispatchStop, TypeOK, JobsApart, ToBeOffered
  <1> QED
    BY <1>5, <1>6, <1>7, <1>8, <1>9

\* A job that is offered to a server has not been offered to it before, so the
\* slot it takes, if there is one, is its own.
LEMMA OfferIInv == \A d \in DispatchWorkers : IInv /\ Offer(d) => IInv'
  <1> SUFFICES ASSUME NEW d \in DispatchWorkers, IInv, Offer(d) PROVE IInv'
    OBVIOUS
  <1> USE DEF queueVars, dispatchVars, slotVars, postVars, processVars
  <1>0. PICK j \in Jobs, t \in Servers, label \in Phases :
          /\ j = pushJob[d] /\ t = serverIdx[d]
          /\ label = IF NoSlot(t) THEN "dropped" ELSE "start"
    <2>1. pushJob[d] \in Jobs /\ serverIdx[d] \in 0..ServerCount /\ serverIdx[d] < ServerCount
      BY LogicPushAssumption DEF IInv, TypeOK, Offer, LogicPushAssumption
    <2>2. serverIdx[d] \in Servers
      BY <2>1, LogicPushAssumption DEF Servers, LogicPushAssumption
    <2> QED
      BY <2>1, <2>2 DEF Phases, Busy
  <1>1. /\ TypeOK /\ JobsApart /\ OfferedOnce /\ SlotsAreBusy /\ TriesCounted
        /\ RepeatedOnlyAfterFailure
    BY DEF IInv
  <1>2. /\ t \in Nat
        /\ phase' = [phase EXCEPT ![<<j, t>>] = label]
        /\ pendingChan' = IF NoSlot(t) THEN pendingChan ELSE [pendingChan EXCEPT ![t] = @ + 1]
        /\ serverIdx' = [serverIdx EXCEPT ![d] = t + 1]
        /\ UNCHANGED <<queueVars, pushJob, stopped, postVars, processVars>>
    BY <1>0 DEF Offer, NextServer, Servers
  <1>3. phase[<<j, t>>] = "none"
    <2>1. ToBeOffered(j, t)
      BY <1>0, <1>2 DEF ToBeOffered
    <2> QED
      BY <1>1, <2>1 DEF OfferedOnce
  <1>4. /\ \A s \in Servers : s # t => BusyPushes(s)' = BusyPushes(s)
        /\ BusyPushes(t)' = IF NoSlot(t) THEN BusyPushes(t) ELSE BusyPushes(t) \cup {j}
        /\ j \notin BusyPushes(t)
        /\ phase' \in [Pushes -> Phases]
    <2>1. j \notin BusyPushes(t) /\ (label \in Busy <=> ~NoSlot(t))
      BY <1>0, <1>3 DEF BusyPushes, Busy
    <2>2. /\ \A s \in Servers : s # t => BusyPushes(s)' = BusyPushes(s)
          /\ BusyPushes(t)' = IF label \in Busy THEN BusyPushes(t) \cup {j}
                                                ELSE BusyPushes(t) \ {j}
          /\ phase' \in [Pushes -> Phases]
      BY <1>1, <1>2, BusyStep
    <2> QED
      BY <2>1, <2>2
  <1>5. \A i \in Jobs : \A s \in Servers :
          phase'[<<i, s>>] = IF i = j /\ s = t THEN label ELSE phase[<<i, s>>]
    BY <1>1, <1>2 DEF TypeOK, Pushes
  <1>6. pendingChan' \in [Servers -> 0..MessageServerMaxPendingCount]
    <2>1. pendingChan[t] \in 0..MessageServerMaxPendingCount
      BY <1>1, <1>2 DEF TypeOK
    <2>2. ~NoSlot(t) => pendingChan[t] + 1 \in 0..MessageServerMaxPendingCount
      BY <2>1, LogicPushAssumption DEF NoSlot, LogicPushAssumption
    <2> QED
      BY <1>1, <1>2, <2>2 DEF TypeOK
  <1>7. serverIdx' \in [DispatchWorkers -> 0..ServerCount]
    <2>1. t + 1 \in 0..ServerCount
      BY <1>2, LogicPushAssumption DEF Servers, LogicPushAssumption
    <2> QED
      BY <1>1, <1>2, <2>1 DEF TypeOK
  <1>8. TypeOK'
    BY <1>1, <1>2, <1>4, <1>6, <1>7 DEF TypeOK
  <1>9. SlotsAreBusy'
    <2> SUFFICES ASSUME NEW s \in Servers
                 PROVE  pendingChan'[s] = Cardinality(BusyPushes(s)')
      BY DEF SlotsAreBusy
    <2>1. pendingChan[s] = Cardinality(BusyPushes(s))
      BY <1>1 DEF SlotsAreBusy
    <2>2. CASE s # t \/ NoSlot(t)
      BY <1>1, <1>2, <1>4, <2>1, <2>2 DEF TypeOK
    <2>3. CASE s = t /\ ~NoSlot(t)
      <3>1. Cardinality(BusyPushes(s) \cup {j}) = Cardinality(BusyPushes(s)) + 1
        BY <1>4, <2>3, JobsFinite, FS_AddElement
      <3> QED
        BY <1>1, <1>2, <1>4, <2>1, <2>3, <3>1 DEF TypeOK
    <2> QED
      BY <2>2, <2>3
  <1>10. RepeatedOnlyAfterFailure' /\ TriesCounted'
    <2> SUFFICES ASSUME NEW i \in Jobs, NEW s \in Servers
                 PROVE  LET p == <<i, s>> IN
                        /\ arrived[p] + (IF phase'[p] = "wait" THEN 1 ELSE 0) <= failures[p] + 1
                        /\ failures[p] = retry[p]
                        /\ phase'[p] \in {"wait", "handled"} => retry[p] < MessageServerPushRetry
                        /\ phase'[p] \in {"none", "dropped", "start"} =>
                             arrived[p] = 0 /\ failures[p] = 0
      BY <1>2 DEF RepeatedOnlyAfterFailure, TriesCounted, Pushes
    <2>1. <<i, s>> \in Pushes
      BY DEF Pushes
    <2>2. CASE i = j /\ s = t
      BY <1>0, <1>1, <1>3, <1>5, <2>1, <2>2 DEF TriesCounted
    <2>3. CASE ~(i = j /\ s = t)
      BY <1>1, <1>5, <2>1, <2>3 DEF RepeatedOnlyAfterFailure, TriesCounted
    <2> QED
      BY <2>2, <2>3
  <1>11. JobsApart'
    BY <1>1, <1>2 DEF JobsApart
  <1>12. OfferedOnce'
    <2> SUFFICES ASSUME NEW i \in Jobs, NEW s \in Servers, ToBeOffered(i, s)'
                 PROVE  phase'[<<i, s>>] = "none"
      BY DEF OfferedOnce
    <2>1. \A e \in DispatchWorkers : serverIdx'[e] = IF e = d THEN t + 1 ELSE serverIdx[e]
      BY <1>1, <1>2 DEF TypeOK
    <2>2. /\ ~(i > accepted) => \/ \E n \in DOMAIN dispatchChan : dispatchChan[n] = i
                                \/ \E e \in DispatchWorkers : pushJob[e] = i /\ serverIdx'[e] <= s
      BY <1>2 DEF ToBeOffered
    <2>3. \A n \in Servers : n \in Int
      BY DEF Servers
    <2>4. ToBeOffered(i, s)
      BY <1>0, <1>2, <2>1, <2>2, <2>3 DEF ToBeOffered
    <2>5. ~(i = j /\ s = t)
      <3> SUFFICES ASSUME i = j, s = t PROVE FALSE
        OBVIOUS
      <3>1. i <= accepted /\ ~(\E n \in DOMAIN dispatchChan : dispatchChan[n] = i)
        BY <1>0, <1>1 DEF JobsApart
      <3>2. accepted \in Nat /\ i \in Nat
        BY <1>1 DEF TypeOK, Jobs
      <3>3. PICK e \in DispatchWorkers : pushJob[e] = i /\ serverIdx'[e] <= s
        BY <2>2, <3>1, <3>2
      <3>4. e = d
        BY <1>0, <1>1, <3>3, LogicPushAssumption DEF JobsApart, Jobs, NoJob, LogicPushAssumption
      <3> QED
        BY <1>2, <2>1, <3>3, <3>4
    <2> QED
      BY <1>1, <1>5, <2>4, <2>5 DEF OfferedOnce
  <1> QED
    BY <1>1, <1>8, <1>9, <1>10, <1>11, <1>12 DEF IInv

\* A step of a push that is going on, whatever it does to its counts: the jobs
\* stay apart, and only the slots of its server change, with the push.
LEMMA PushStep ==
  ASSUME IInv, NEW p \in Pushes, NEW label \in Busy \cup {"done"},
         phase[p] \in Busy, phase' = [phase EXCEPT ![p] = label],
         UNCHANGED <<queueVars, dispatchVars>>,
         pendingChan' = IF label = "done" THEN [pendingChan EXCEPT ![p[2]] = @ - 1]
                        ELSE pendingChan
  PROVE  /\ JobsApart' /\ OfferedOnce' /\ SlotsAreBusy'
         /\ phase' \in [Pushes -> Phases]
         /\ \A q \in Pushes : phase'[q] = IF q = p THEN label ELSE phase[q]
         /\ pendingChan' \in [Servers -> 0..MessageServerMaxPendingCount]
  <1>1. PICK j \in Jobs, t \in Servers : p = <<j, t>>
    BY DEF Pushes
  <1>2. /\ TypeOK /\ JobsApart /\ OfferedOnce /\ SlotsAreBusy /\ label \in Phases
        /\ phase \in [Pushes -> Phases] /\ "done" \notin Busy
    BY DEF IInv, TypeOK, Phases, Busy
  <1>3. JobsApart'
    BY <1>2 DEF JobsApart, queueVars, dispatchVars
  <1>4. \A q \in Pushes : phase'[q] = IF q = p THEN label ELSE phase[q]
    BY <1>2
  <1>5. OfferedOnce'
    <2> SUFFICES ASSUME NEW i \in Jobs, NEW s \in Servers, ToBeOffered(i, s)
                 PROVE  phase'[<<i, s>>] = "none"
      BY DEF OfferedOnce, ToBeOffered, queueVars, dispatchVars
    <2>1. phase[<<i, s>>] = "none" /\ <<i, s>> \in Pushes
      BY <1>2 DEF OfferedOnce, Pushes
    <2> QED
      BY <1>4, <2>1 DEF Busy
  <1>6. /\ \A s \in Servers : s # t => BusyPushes(s)' = BusyPushes(s)
        /\ BusyPushes(t)' = IF label \in Busy THEN BusyPushes(t) \cup {j}
                                              ELSE BusyPushes(t) \ {j}
        /\ j \in BusyPushes(t)
        /\ phase' \in [Pushes -> Phases]
    <2>1. phase' = [phase EXCEPT ![<<j, t>>] = label] /\ phase[<<j, t>>] \in Busy
      BY <1>1
    <2> QED
      BY <1>2, <2>1, BusyStep
  <1>7. /\ \A s \in Servers : pendingChan[s] \in 0..MessageServerMaxPendingCount
        /\ \A s \in Servers : pendingChan[s] = Cardinality(BusyPushes(s))
        /\ p[2] = t
    BY <1>1, <1>2 DEF TypeOK, SlotsAreBusy
  <1>8. CASE label # "done"
    <2>1. \A s \in Servers : BusyPushes(s)' = BusyPushes(s)
      BY <1>6, <1>8
    <2>2. SlotsAreBusy'
      BY <1>7, <1>8, <2>1 DEF SlotsAreBusy
    <2> QED
      BY <1>2, <1>3, <1>4, <1>5, <1>6, <1>8, <2>2 DEF TypeOK
  <1>9. CASE label = "done"
    <2> DEFINE n == Cardinality(BusyPushes(t))
    <2>1. /\ n \in Nat /\ n > 0 /\ Cardinality(BusyPushes(t) \ {j}) = n - 1
      <3>1. IsFiniteSet(BusyPushes(t)) /\ IsFiniteSet(BusyPushes(t) \ {j})
        BY JobsFinite, FS_RemoveElement
      <3>2. Cardinality(BusyPushes(t) \ {j}) = Cardinality(BusyPushes(t)) - 1
        BY <1>6, <3>1, FS_RemoveElement
      <3>3. Cardinality(BusyPushes(t)) \in Nat /\ Cardinality(BusyPushes(t) \ {j}) \in Nat
        BY <3>1, FS_CardinalityType
      <3> QED
        BY <3>2, <3>3
    <2>2. pendingChan[t] = n
      BY <1>7
    <2> HIDE DEF n
    <2>3. pendingChan[t] - 1 \in 0..MessageServerMaxPendingCount
      BY <1>7, <2>1, <2>2, LogicPushAssumption DEF LogicPushAssumption
    <2>4. \A s \in Servers : pendingChan'[s] = IF s = t THEN n - 1 ELSE pendingChan[s]
      BY <1>2, <1>7, <1>9, <2>2 DEF TypeOK
    <2>5. pendingChan' \in [Servers -> 0..MessageServerMaxPendingCount]
      BY <1>2, <1>7, <1>9, <2>3 DEF TypeOK
    <2>6. SlotsAreBusy'
      <3> SUFFICES ASSUME NEW s \in Servers PROVE pendingChan'[s] = Cardinality(BusyPushes(s)')
        BY DEF SlotsAreBusy
      <3>1. CASE s # t
        BY <1>6, <1>7, <2>4, <3>1
      <3>2. CASE s = t
        BY <1>2, <1>6, <1>9, <2>1, <2>4, <3>2
      <3> QED
        BY <3>1, <3>2
    <2> QED
      BY <1>3, <1>4, <1>5, <1>6, <2>5, <2>6
  <1> QED
    BY <1>8, <1>9

\* The counts of a push that goes on.
LEMMA CountsStep ==
  ASSUME IInv, NEW p \in Pushes, NEW label \in Busy \cup {"done"},
         \A q \in Pushes : phase'[q] = IF q = p THEN label ELSE phase[q],
         retry' \in [Pushes -> Nat], arrived' \in [Pushes -> Nat],
         \A q \in Pushes : q # p => /\ retry'[q] = retry[q] /\ arrived'[q] = arrived[q]
                                    /\ failures'[q] = failures[q],
         failures' \in [Pushes -> Nat], failures'[p] = retry'[p],
         retry'[p] <= MessageServerPushRetry, arrived'[p] <= MessageServerPushRetry,
         label \in {"wait", "handled"} => retry'[p] < MessageServerPushRetry,
         label # "start",
         arrived'[p] + (IF label = "wait" THEN 1 ELSE 0) <= failures'[p] + 1
  PROVE  /\ RepeatedOnlyAfterFailure' /\ TriesCounted'
         /\ retry' \in [Pushes -> 0..MessageServerPushRetry]
         /\ arrived' \in [Pushes -> 0..MessageServerPushRetry]
         /\ failures' \in [Pushes -> 0..MessageServerPushRetry]
  <1>1. /\ TriesCounted /\ RepeatedOnlyAfterFailure
        /\ label \notin {"none", "dropped", "start"}
    BY DEF IInv, Busy
  <1>2. \A q \in Pushes : /\ retry[q] <= MessageServerPushRetry
                          /\ arrived[q] <= MessageServerPushRetry
                          /\ failures[q] <= MessageServerPushRetry
    BY DEF IInv, TypeOK
  <1>3. MessageServerPushRetry \in Nat
    BY LogicPushAssumption DEF LogicPushAssumption
  <1>4. RepeatedOnlyAfterFailure'
    BY <1>1 DEF RepeatedOnlyAfterFailure
  <1>5. TriesCounted'
    BY <1>1 DEF TriesCounted
  <1>6. \A q \in Pushes : /\ retry'[q] \in 0..MessageServerPushRetry
                          /\ arrived'[q] \in 0..MessageServerPushRetry
                          /\ failures'[q] \in 0..MessageServerPushRetry
    <2> SUFFICES ASSUME NEW q \in Pushes
                 PROVE  /\ retry'[q] \in 0..MessageServerPushRetry
                        /\ arrived'[q] \in 0..MessageServerPushRetry
                        /\ failures'[q] \in 0..MessageServerPushRetry
      OBVIOUS
    <2>1. retry'[q] \in Nat /\ arrived'[q] \in Nat /\ failures'[q] \in Nat
      OBVIOUS
    <2>2. /\ retry'[q] <= MessageServerPushRetry /\ arrived'[q] <= MessageServerPushRetry
          /\ failures'[q] <= MessageServerPushRetry
      <3>1. CASE q = p
        BY <3>1
      <3>2. CASE q # p
        BY <1>2, <3>2
      <3> QED
        BY <3>1, <3>2
    <2> QED
      BY <1>3, <2>1, <2>2
  <1> QED
    BY <1>4, <1>5, <1>6

\* A push goes on: it moves to label, with r failed tries and a arrivals so far.
LEMMA PushGoesOn ==
  ASSUME IInv, NEW p \in Pushes, NEW label \in Busy \cup {"done"}, NEW r \in Nat, NEW a \in Nat,
         phase[p] \in Busy, label # "start",
         phase' = [phase EXCEPT ![p] = label],
         pendingChan' = IF label = "done" THEN [pendingChan EXCEPT ![p[2]] = @ - 1]
                        ELSE pendingChan,
         retry' = [retry EXCEPT ![p] = r],
         arrived' = [arrived EXCEPT ![p] = a],
         failures' = [failures EXCEPT ![p] = r],
         r <= MessageServerPushRetry, a <= MessageServerPushRetry,
         label \in {"wait", "handled"} => r < MessageServerPushRetry,
         a + (IF label = "wait" THEN 1 ELSE 0) <= r + 1,
         UNCHANGED <<queueVars, dispatchVars, processVars>>
  PROVE  IInv'
  <1>1. TypeOK
    BY DEF IInv
  <1>2. /\ retry \in [Pushes -> Nat] /\ arrived \in [Pushes -> Nat]
        /\ failures \in [Pushes -> Nat] /\ phase \in [Pushes -> Phases]
    BY <1>1, LogicPushAssumption DEF TypeOK, LogicPushAssumption
  <1>3. UNCHANGED <<accepted, dispatchChan, pushJob, serverIdx, stopped, main, panicked>>
    BY DEF queueVars, dispatchVars, processVars
  <1>4. /\ JobsApart' /\ OfferedOnce' /\ SlotsAreBusy'
        /\ phase' \in [Pushes -> Phases]
        /\ pendingChan' \in [Servers -> 0..MessageServerMaxPendingCount]
    BY PushStep
  <1>5. \A q \in Pushes : phase'[q] = IF q = p THEN label ELSE phase[q]
    BY <1>2
  <1>6. /\ retry' \in [Pushes -> Nat] /\ arrived' \in [Pushes -> Nat]
        /\ failures' \in [Pushes -> Nat]
        /\ retry'[p] = r /\ arrived'[p] = a /\ failures'[p] = r
        /\ \A q \in Pushes : q # p => /\ retry'[q] = retry[q] /\ arrived'[q] = arrived[q]
                                      /\ failures'[q] = failures[q]
    BY <1>2
  <1>7. /\ RepeatedOnlyAfterFailure' /\ TriesCounted'
        /\ retry' \in [Pushes -> 0..MessageServerPushRetry]
        /\ arrived' \in [Pushes -> 0..MessageServerPushRetry]
        /\ failures' \in [Pushes -> 0..MessageServerPushRetry]
    BY <1>5, <1>6, CountsStep
  <1> QED
    BY <1>1, <1>3, <1>4, <1>7 DEF IInv, TypeOK

\* The steps of a push.
LEMMA PushIInv == \A p \in Pushes : IInv /\ (DoPush(p) \/ ServerHandles(p)) => IInv'
  <1> SUFFICES ASSUME NEW p \in Pushes, IInv, DoPush(p) \/ ServerHandles(p) PROVE IInv'
    OBVIOUS
  <1>1. /\ TypeOK /\ TriesCounted /\ RepeatedOnlyAfterFailure
        /\ MessageServerPushRetry \in Nat
        /\ retry \in [Pushes -> Nat] /\ arrived \in [Pushes -> Nat]
        /\ failures \in [Pushes -> Nat]
        /\ retry[p] <= MessageServerPushRetry /\ arrived[p] <= MessageServerPushRetry
        /\ retry[p] \in Nat /\ arrived[p] \in Nat /\ failures[p] = retry[p]
    BY LogicPushAssumption DEF IInv, TypeOK, TriesCounted, LogicPushAssumption
  <1>2. /\ phase[p] \in {"wait", "handled"} => retry[p] < MessageServerPushRetry
        /\ phase[p] = "start" => arrived[p] = 0 /\ retry[p] = 0
        /\ arrived[p] + (IF phase[p] = "wait" THEN 1 ELSE 0) <= retry[p] + 1
    BY <1>1 DEF TriesCounted, RepeatedOnlyAfterFailure
  <1>3. /\ [retry EXCEPT ![p] = retry[p]] = retry
        /\ [arrived EXCEPT ![p] = arrived[p]] = arrived
        /\ [failures EXCEPT ![p] = retry[p]] = failures
    BY <1>1
  <1>4. CASE StartPush(p)
    <2>1. CASE ConnsGone
      <3>1. UNCHANGED <<queueVars, dispatchVars, slotVars, postVars, main>> /\ panicked' = TRUE
        BY <1>4, <2>1 DEF StartPush, slotVars
      <3> QED
        BY <3>1 DEF IInv, TypeOK, JobsApart, OfferedOnce, ToBeOffered, SlotsAreBusy,
           BusyPushes, RepeatedOnlyAfterFailure, TriesCounted, queueVars, dispatchVars,
           slotVars, postVars
    <2>2. CASE ~ConnsGone
      <3>1. PICK label \in {"wait", "release"} :
              /\ label = IF 0 < MessageServerPushRetry THEN "wait" ELSE "release"
              /\ phase' = [phase EXCEPT ![p] = label]
        BY <1>4, <2>2 DEF StartPush, PostOrGiveUp, Goto
      <3>2. /\ phase[p] = "start" /\ UNCHANGED <<pendingChan, retry, arrived, failures>>
            /\ UNCHANGED <<queueVars, dispatchVars, processVars>>
        BY <1>4, <2>2 DEF StartPush, postVars, processVars
      <3>3. /\ label \in Busy \cup {"done"} /\ label \notin {"start", "done"} /\ phase[p] \in Busy
            /\ label \in {"wait", "handled"} => retry[p] < MessageServerPushRetry
            /\ arrived[p] + (IF label = "wait" THEN 1 ELSE 0) <= retry[p] + 1
        BY <1>1, <1>2, <3>1, <3>2 DEF Busy
      <3> QED
        BY <1>1, <1>3, <3>1, <3>2, <3>3, PushGoesOn
    <2> QED
      BY <2>1, <2>2
  <1>5. CASE ServerHandles(p)
    <2>1. /\ phase[p] = "wait" /\ phase' = [phase EXCEPT ![p] = "handled"]
          /\ arrived' = [arrived EXCEPT ![p] = arrived[p] + 1]
          /\ UNCHANGED <<pendingChan, retry, failures>>
          /\ UNCHANGED <<queueVars, dispatchVars, processVars>>
      BY <1>5 DEF ServerHandles, Goto
    <2>2. /\ "handled" \in Busy \cup {"done"} /\ phase[p] \in Busy
          /\ retry[p] < MessageServerPushRetry
          /\ arrived[p] + 1 \in Nat /\ arrived[p] + 1 <= MessageServerPushRetry
          /\ arrived[p] + 1 + 0 <= retry[p] + 1
      BY <1>1, <1>2, <2>1 DEF Busy
    <2> QED
      BY <1>1, <1>3, <2>1, <2>2, PushGoesOn
  <1>6. CASE PostAnswered(p)
    <2>1. /\ phase[p] = "handled" /\ phase' = [phase EXCEPT ![p] = "release"]
          /\ UNCHANGED <<pendingChan, retry, arrived, failures>>
          /\ UNCHANGED <<queueVars, dispatchVars, processVars>>
      BY <1>6 DEF PostAnswered, Goto, postVars
    <2>2. /\ "release" \in Busy \cup {"done"} /\ phase[p] \in Busy
          /\ arrived[p] + 0 <= retry[p] + 1
      BY <1>1, <1>2, <2>1 DEF Busy
    <2> QED
      BY <1>1, <1>3, <2>1, <2>2, PushGoesOn
  <1>7. CASE PostFails(p)
    <2>1. PICK label \in {"wait", "release"} :
            /\ label = IF retry[p] + 1 < MessageServerPushRetry THEN "wait" ELSE "release"
            /\ phase' = [phase EXCEPT ![p] = label]
      BY <1>7 DEF PostFails, PostOrGiveUp, Goto
    <2>2. /\ phase[p] \in {"wait", "handled"} /\ UNCHANGED pendingChan
          /\ retry' = [retry EXCEPT ![p] = retry[p] + 1]
          /\ failures' = [failures EXCEPT ![p] = retry[p] + 1]
          /\ UNCHANGED <<queueVars, dispatchVars, processVars>>
      BY <1>1, <1>7 DEF PostFails
    <2>3. PICK a \in Nat : /\ arrived' = [arrived EXCEPT ![p] = a]
                           /\ a = arrived[p] \/ (phase[p] = "wait" /\ a = arrived[p] + 1)
      <3>1. CASE UNCHANGED arrived
        BY <1>1, <1>3, <3>1
      <3>2. CASE phase[p] = "wait" /\ arrived' = [arrived EXCEPT ![p] = @ + 1]
        <4>1. arrived[p] + 1 \in Nat /\ arrived' = [arrived EXCEPT ![p] = arrived[p] + 1]
          BY <1>1, <3>2
        <4> QED
          BY <3>2, <4>1
      <3> QED
        BY <1>7, <3>1, <3>2 DEF PostFails
    <2>4. /\ label \in Busy \cup {"done"} /\ label \notin {"start", "done"} /\ phase[p] \in Busy
          /\ retry[p] + 1 \in Nat /\ retry[p] + 1 <= MessageServerPushRetry
          /\ a <= MessageServerPushRetry
          /\ label \in {"wait", "handled"} => retry[p] + 1 < MessageServerPushRetry
          /\ a + (IF label = "wait" THEN 1 ELSE 0) <= retry[p] + 1 + 1
      BY <1>1, <1>2, <2>1, <2>2, <2>3 DEF Busy
    <2> QED
      BY <2>1, <2>2, <2>3, <2>4, PushGoesOn
  <1>8. CASE ReleaseSlot(p)
    <2>1. /\ phase[p] = "release" /\ phase' = [phase EXCEPT ![p] = "done"]
          /\ pendingChan' = [pendingChan EXCEPT ![p[2]] = @ - 1]
          /\ UNCHANGED <<retry, arrived, failures>>
          /\ UNCHANGED <<queueVars, dispatchVars, processVars>>
      BY <1>8 DEF ReleaseSlot, Goto, postVars
    <2>2. /\ "done" \in Busy \cup {"done"} /\ phase[p] \in Busy
          /\ arrived[p] + 0 <= retry[p] + 1
      BY <1>1, <1>2, <2>1 DEF Busy
    <2> QED
      BY <1>1, <1>3, <2>1, <2>2, PushGoesOn
  <1> QED
    BY <1>4, <1>5, <1>6, <1>7, <1>8 DEF DoPush

\* Each action preserves the invariant.
LEMMA Inductive == IInv /\ [Next]_vars => IInv'
  <1> SUFFICES ASSUME IInv, [Next]_vars PROVE IInv'
    OBVIOUS
  <1>1. CASE UNCHANGED vars
    BY <1>1 DEF vars, queueVars, dispatchVars, slotVars, postVars, processVars,
       IInv, TypeOK, SlotsAreBusy, BusyPushes, RepeatedOnlyAfterFailure, JobsApart,
       OfferedOnce, ToBeOffered, TriesCounted
  <1>2. CASE Next
    BY <1>2, QueueIInv, OfferIInv, PushIInv DEF Next, DispatchStep
  <1> QED
    BY <1>1, <1>2

\* The invariant that the theorems below rest on holds in every reachable state.
THEOREM InvariantHolds == Spec => []IInv
  BY InitIInv, Inductive, PTL DEF Spec

\* Type correctness: the bounds of dispatchChan, of every pendingChan and of the
\* tries (push/connect.go:65-72, 91-98) hold for any configuration.
THEOREM TypeCorrect == Spec => []TypeOK
  <1>1. IInv => TypeOK
    BY DEF IInv
  <1> QED
    BY <1>1, InvariantHolds, PTL

\* The slots taken in pendingChan (push/connect_manager.go:133, 109) are the
\* pushes to the server that are going on, for any number of workers, servers and
\* slots: none leaks, none is given back twice.
THEOREM SlotsCounted == Spec => []SlotsAreBusy
  <1>1. IInv => SlotsAreBusy
    BY DEF IInv
  <1> QED
    BY <1>1, InvariantHolds, PTL

\* A message server gets a job again only after a post of it has failed
\* (push/connect.go:65-72), however many tries are configured.
THEOREM RepeatedAfterFailure == Spec => []RepeatedOnlyAfterFailure
  <1>1. IInv => RepeatedOnlyAfterFailure
    BY DEF IInv
  <1> QED
    BY <1>1, InvariantHolds, PTL

\* Only an offer drops a job, and only one to the server it is made to.
LEMMA DroppedByOffer ==
  ASSUME IInv, [Next]_vars, NEW p \in Pushes, phase'[p] = "dropped", phase[p] # "dropped"
  PROVE  \E d \in DispatchWorkers : Offer(d) /\ NoSlot(serverIdx[d]) /\ p[2] = serverIdx[d]
  <1>1. phase \in [Pushes -> Phases]
    BY DEF IInv, TypeOK
  <1>2. ASSUME NEW q \in Pushes, DoPush(q) \/ ServerHandles(q) PROVE FALSE
    <2>1. \/ UNCHANGED phase
          \/ \E label \in Phases \ {"dropped"} : phase' = [phase EXCEPT ![q] = label]
      BY <1>2 DEF DoPush, ServerHandles, StartPush, PostAnswered, PostFails, ReleaseSlot,
                  PostOrGiveUp, Goto, Phases, Busy
    <2> QED
      BY <1>1, <2>1
  <1>3. ASSUME NEW d \in DispatchWorkers, Offer(d)
        PROVE  NoSlot(serverIdx[d]) /\ p[2] = serverIdx[d]
    <2>1. phase' = [phase EXCEPT ![<<pushJob[d], serverIdx[d]>>] =
                      IF NoSlot(serverIdx[d]) THEN "dropped" ELSE "start"]
      BY <1>3 DEF Offer
    <2>2. p = <<pushJob[d], serverIdx[d]>> /\ NoSlot(serverIdx[d])
      BY <1>1, <2>1
    <2> QED
      BY <2>2
  <1>4. ASSUME NEW d \in DispatchWorkers, TakeJob(d) \/ FanOutEnds(d) \/ DispatchStop(d)
        PROVE  FALSE
    BY <1>4 DEF TakeJob, FanOutEnds, DispatchStop, slotVars
  <1>5. CASE Push \/ MessageConnectClose \/ UNCHANGED vars
    BY <1>5 DEF Push, MessageConnectClose, slotVars, vars
  <1> QED
    BY <1>2, <1>3, <1>4, <1>5 DEF Next, DispatchStep

\* A job is dropped for a server (push/connect_manager.go:134-139) only while as
\* many requests to it are going on as are configured, however many slots that is.
THEOREM DropsAreJustified == Spec => DroppedOnlyWhenBusy
  <1>1. ASSUME IInv, [Next]_vars
        PROVE  [\A p \in Pushes : phase'[p] = "dropped" /\ phase[p] # "dropped" =>
                  Cardinality(BusyPushes(p[2])) = MessageServerMaxPendingCount]_vars
    <2> SUFFICES ASSUME NEW p \in Pushes, phase'[p] = "dropped", phase[p] # "dropped"
                 PROVE  Cardinality(BusyPushes(p[2])) = MessageServerMaxPendingCount
      OBVIOUS
    <2>1. PICK d \in DispatchWorkers :
            Offer(d) /\ NoSlot(serverIdx[d]) /\ p[2] = serverIdx[d]
      BY <1>1, DroppedByOffer
    <2>2. p[2] \in Servers
      BY DEF Pushes
    <2> QED
      BY <1>1, <2>1, <2>2 DEF IInv, SlotsAreBusy, NoSlot
  <1> QED
    BY <1>1, InvariantHolds, PTL DEF Spec, DroppedOnlyWhenBusy
=============================================================================
