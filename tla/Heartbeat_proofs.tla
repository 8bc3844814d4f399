-------------------------- MODULE Heartbeat_proofs ---------------------------
(***************************************************************************)
(* The two promises of the heartbeat hold for every interval, every bound  *)
(* on the delay of the two goroutines and however long the clock runs.     *)
(*                                                                         *)
(* Neither is inductive.  The invariant below adds what one check leaves   *)
(* for the next: the timer is never set more than two intervals and a      *)
(* delay after the stored heartbeat; while a PING has been received and    *)
(* not stored, the stored one is the PING before it; and a checker on its  *)
(* way to Close has a client that has been silent for too long.            *)
(***************************************************************************)
EXTENDS Heartbeat, TLAPS

\* Every instant is a natural number.
Instants ==
  /\ now \in Nat /\ lastHeartbeatTime \in Nat /\ timer \in Nat
  /\ checkNow \in Nat /\ pingNow \in Nat /\ pinged \in Nat
  /\ widest \in Nat

\* What is stored is the last PING, or the one before it while the last one is
\* in the handler's hands, which is not for longer than a delay.
LastPingStored ==
  /\ lastHeartbeatTime <= pinged /\ pinged <= now
  /\ \/ handler = "select" /\ lastHeartbeatTime = pinged
     \/ /\ handler = "keepAlive" /\ pingNow = pinged /\ now <= pingNow + MaxDelay
        /\ pinged - lastHeartbeatTime <= widest

\* What OnlySilentClosed asks for at the close.
HasBeenSilent ==
  \/ widest + MaxDelay > WsHeartbeatInterval
  \/ now - pinged > WsHeartbeatInterval

\* The timer is not more than a delay in the past, nor the clock of the turn the
\* checker is in, ...
CheckerTurns ==
  \/ checker = "select" /\ now <= timer + MaxDelay /\ ~isClosed
  \/ checker = "isAlive" /\ checkNow <= timer + MaxDelay /\ ~isClosed
  \/ checker = "reset" /\ checkNow <= lastHeartbeatTime + WsHeartbeatInterval /\ ~isClosed
  \/ checker = "close" /\ checkNow <= timer + MaxDelay /\ HasBeenSilent /\ ~isClosed
  \/ checker = "done" /\ isClosed

\* ... and what the timer was set to is bound to the stored heartbeat.
TimerGuards ==
  /\ CheckerTurns
  /\ checker \in {"isAlive", "reset", "close"} => checkNow <= now /\ now <= checkNow + MaxDelay
  /\ checker \in {"select", "isAlive", "close"} =>
       timer <= lastHeartbeatTime + 2 * WsHeartbeatInterval + MaxDelay

IInv == Instants /\ LastPingStored /\ TimerGuards

\* At the start the clock, the heartbeat and the last PING are all zero.
LEMMA InitIInv == Init => IInv
  BY HeartbeatAssumption
     DEF HeartbeatAssumption, Init, IInv, Instants, LastPingStored, TimerGuards, CheckerTurns

\* A silence that was too long is on record when the next PING ends it.
LEMMA SilenceOnRecord == ASSUME IInv, HasBeenSilent, ReceivePing PROVE HasBeenSilent'
  <1>1. /\ MaxDelay \in Nat /\ WsHeartbeatInterval \in Nat /\ widest \in Nat
        /\ now - pinged \in Nat
    BY HeartbeatAssumption DEF HeartbeatAssumption, IInv, Instants, LastPingStored
  <1>2. widest' = IF now - pinged > widest THEN now - pinged ELSE widest
    BY DEF ReceivePing
  <1>3. \/ widest + MaxDelay > WsHeartbeatInterval
        \/ now - pinged > WsHeartbeatInterval
    BY DEF HasBeenSilent
  <1>4. widest' + MaxDelay > WsHeartbeatInterval
    <2>1. CASE now - pinged > widest
      BY <1>1, <1>2, <1>3, <2>1
    <2>2. CASE ~(now - pinged > widest)
      BY <1>1, <1>2, <1>3, <2>2
    <2> QED
      BY <2>1, <2>2
  <1> QED
    BY <1>4 DEF HasBeenSilent

\* A PING takes the place of the last one, which is what is stored.
LEMMA ReceivePingIInv == ASSUME IInv, ReceivePing PROVE IInv'
  <1>1. /\ handler = "select" /\ handler' = "keepAlive"
        /\ pingNow' = now /\ pinged' = now
        /\ widest' = IF now - pinged > widest THEN now - pinged ELSE widest
        /\ UNCHANGED <<now, lastHeartbeatTime, isClosed, timer, checker, checkNow>>
    BY DEF ReceivePing
  <1>2. widest' \in Nat /\ widest' >= now - pinged
    BY <1>1 DEF IInv, Instants, LastPingStored
  <1>3. Instants'
    BY <1>1, <1>2 DEF IInv, Instants
  <1>4. LastPingStored'
    <2>1. lastHeartbeatTime = pinged /\ pinged <= now
      BY <1>1 DEF IInv, LastPingStored
    <2>2. lastHeartbeatTime' <= pinged' /\ pinged' - lastHeartbeatTime' <= widest'
      BY <1>1, <1>2, <2>1 DEF IInv, Instants
    <2>3. pinged' <= now' /\ now' <= pingNow' + MaxDelay
      BY <1>1, HeartbeatAssumption DEF HeartbeatAssumption, IInv, Instants
    <2> QED
      BY <1>1, <2>2, <2>3 DEF LastPingStored
  <1>5. HasBeenSilent => HasBeenSilent'
    BY SilenceOnRecord
  <1>6. CheckerTurns'
    BY <1>1, <1>5 DEF IInv, TimerGuards, CheckerTurns
  <1>7. TimerGuards'
    BY <1>1, <1>6 DEF IInv, TimerGuards
  <1> QED
    BY <1>3, <1>4, <1>7 DEF IInv

\* What KeepAlive stores is newer than what it overwrites, so the timer and the
\* clock of a check stay as near to it.
LEMMA KeepAliveIInv == ASSUME IInv, KeepAlive PROVE IInv'
  <1>1. /\ handler = "keepAlive" /\ handler' = "select" /\ lastHeartbeatTime' = pingNow
        /\ UNCHANGED <<now, isClosed, timer, checker, checkNow, pingNow, pinged, widest>>
    BY DEF KeepAlive
  <1>2. pingNow = pinged /\ lastHeartbeatTime <= pinged /\ pinged <= now
    BY <1>1 DEF IInv, LastPingStored
  <1>3. Instants' /\ LastPingStored'
    BY <1>1, <1>2 DEF IInv, Instants, LastPingStored
  <1>4. CheckerTurns'
    <2>1. /\ checkNow <= lastHeartbeatTime + WsHeartbeatInterval
             => checkNow' <= lastHeartbeatTime' + WsHeartbeatInterval
      BY <1>1, <1>2, HeartbeatAssumption DEF HeartbeatAssumption, IInv, Instants
    <2>2. HasBeenSilent' = HasBeenSilent
      BY <1>1 DEF HasBeenSilent
    <2> QED
      BY <1>1, <2>1, <2>2 DEF IInv, TimerGuards, CheckerTurns
  <1>5. timer <= lastHeartbeatTime + 2 * WsHeartbeatInterval + MaxDelay
          => timer' <= lastHeartbeatTime' + 2 * WsHeartbeatInterval + MaxDelay
    BY <1>1, <1>2, HeartbeatAssumption DEF HeartbeatAssumption, IInv, Instants
  <1>6. TimerGuards'
    BY <1>1, <1>4, <1>5 DEF IInv, TimerGuards
  <1> QED
    BY <1>3, <1>6 DEF IInv

\* The timer fires at most a delay late.
LEMMA TimerFiresIInv == ASSUME IInv, TimerFires PROVE IInv'
  <1>1. /\ checker = "select" /\ checker' = "isAlive" /\ checkNow' = now
        /\ UNCHANGED <<now, lastHeartbeatTime, isClosed, timer, handler, pingNow, pinged, widest>>
    BY DEF TimerFires
  <1>2. Instants' /\ LastPingStored'
    BY <1>1 DEF IInv, Instants, LastPingStored
  <1>3. now <= timer + MaxDelay /\ ~isClosed
    BY <1>1 DEF IInv, TimerGuards, CheckerTurns
  <1>4. checkNow' <= now' /\ now' <= checkNow' + MaxDelay
    BY <1>1, HeartbeatAssumption DEF HeartbeatAssumption, IInv, Instants
  <1>5. TimerGuards'
    BY <1>1, <1>3, <1>4 DEF IInv, TimerGuards, CheckerTurns
  <1> QED
    BY <1>2, <1>5 DEF IInv

\* A check that finds the heartbeat too old has a client that has been silent: its
\* last PING is the stored one, or it is in the handler's hands, a delay at most
\* after an interval that was nearly too long.
LEMMA TooOldMeansSilent ==
  ASSUME IInv, checker = "isAlive", TooOld(Age(checkNow))
  PROVE  HasBeenSilent
  <1>1. checkNow <= now
    BY DEF IInv, TimerGuards
  <1>2. checkNow - lastHeartbeatTime > WsHeartbeatInterval
    BY HeartbeatAssumption DEF HeartbeatAssumption, IInv, Instants, TooOld, Age
  <1>3. CASE handler = "select"
    <2>1. lastHeartbeatTime = pinged
      BY <1>3 DEF IInv, LastPingStored
    <2>2. now - pinged > WsHeartbeatInterval
      BY <1>1, <1>2, <2>1, HeartbeatAssumption DEF HeartbeatAssumption, IInv, Instants
    <2> QED
      BY <2>2 DEF HasBeenSilent
  <1>4. CASE handler = "keepAlive"
    <2>1. now <= pinged + MaxDelay /\ pinged - lastHeartbeatTime <= widest
      BY <1>4 DEF IInv, LastPingStored
    <2>2. widest + MaxDelay > WsHeartbeatInterval
      BY <1>1, <1>2, <2>1, HeartbeatAssumption DEF HeartbeatAssumption, IInv, Instants
    <2> QED
      BY <2>2 DEF HasBeenSilent
  <1> QED
    BY <1>3, <1>4 DEF IInv, LastPingStored

\* What a check leaves for Close and for ResetTimer.
LEMMA IsAliveIInv == ASSUME IInv, IsAlive PROVE IInv'
  <1>1. /\ checker = "isAlive"
        /\ checker' = IF TooOld(Age(checkNow)) THEN "close" ELSE "reset"
        /\ UNCHANGED <<now, lastHeartbeatTime, isClosed, timer, checkNow, handler,
                       pingNow, pinged, widest>>
    BY DEF IsAlive
  <1>2. Instants' /\ LastPingStored'
    BY <1>1 DEF IInv, Instants, LastPingStored
  <1>3. checkNow <= timer + MaxDelay /\ ~isClosed
    BY <1>1 DEF IInv, TimerGuards, CheckerTurns
  <1>4. CheckerTurns'
    <2>1. CASE TooOld(Age(checkNow))
      <3>1. HasBeenSilent'
        BY <1>1, <2>1, TooOldMeansSilent DEF HasBeenSilent
      <3> QED
        BY <1>1, <1>3, <2>1, <3>1 DEF CheckerTurns
    <2>2. CASE ~TooOld(Age(checkNow))
      <3>1. checkNow <= lastHeartbeatTime + WsHeartbeatInterval
        BY <2>2, HeartbeatAssumption DEF HeartbeatAssumption, IInv, Instants, TooOld, Age
      <3> QED
        BY <1>1, <1>3, <2>2, <3>1 DEF CheckerTurns
    <2> QED
      BY <2>1, <2>2
  <1>5. TimerGuards'
    BY <1>1, <1>4 DEF IInv, TimerGuards
  <1> QED
    BY <1>2, <1>5 DEF IInv

\* The checker's last step.
LEMMA CloseIInv == ASSUME IInv, Close PROVE IInv'
  <1>1. /\ checker' = "done" /\ isClosed' = TRUE
        /\ UNCHANGED <<now, lastHeartbeatTime, timer, checkNow, handler, pingNow, pinged, widest>>
    BY DEF Close
  <1>2. Instants' /\ LastPingStored'
    BY <1>1 DEF IInv, Instants, LastPingStored
  <1>3. TimerGuards'
    BY <1>1 DEF TimerGuards, CheckerTurns
  <1> QED
    BY <1>2, <1>3 DEF IInv

\* The timer is set at most a delay after a clock that was at most an interval
\* after the heartbeat.
LEMMA ResetTimerIInv == ASSUME IInv, ResetTimer PROVE IInv'
  <1>1. /\ checker = "reset" /\ checker' = "select" /\ timer' = now + WsHeartbeatInterval
        /\ UNCHANGED <<now, lastHeartbeatTime, isClosed, checkNow, handler, pingNow, pinged, widest>>
    BY DEF ResetTimer
  <1>2. Instants' /\ LastPingStored'
    BY <1>1, HeartbeatAssumption DEF HeartbeatAssumption, IInv, Instants, LastPingStored
  <1>3. /\ checkNow <= lastHeartbeatTime + WsHeartbeatInterval /\ ~isClosed
        /\ now <= checkNow + MaxDelay
    BY <1>1 DEF IInv, TimerGuards, CheckerTurns
  <1>4. timer' <= lastHeartbeatTime' + 2 * WsHeartbeatInterval + MaxDelay
    BY <1>1, <1>3, HeartbeatAssumption DEF HeartbeatAssumption, IInv, Instants
  <1>5. now' <= timer' + MaxDelay
    BY <1>1, HeartbeatAssumption DEF HeartbeatAssumption, IInv, Instants
  <1>6. TimerGuards'
    BY <1>1, <1>3, <1>4, <1>5 DEF TimerGuards, CheckerTurns
  <1> QED
    BY <1>2, <1>6 DEF IInv

\* Time passes only as far as each goroutine may be held up.
LEMMA TickIInv == ASSUME IInv, Tick PROVE IInv'
  <1>1. /\ handler = "keepAlive" => now < pingNow + MaxDelay
        /\ checker = "select" => now < timer + MaxDelay
        /\ checker \in {"isAlive", "close", "reset"} => now < checkNow + MaxDelay
        /\ now' = now + 1
        /\ UNCHANGED <<lastHeartbeatTime, isClosed, timer, checker, checkNow, handler,
                       pingNow, pinged, widest>>
    BY DEF Tick
  <1>2. Instants'
    BY <1>1 DEF IInv, Instants
  <1>3. LastPingStored'
    <2>1. pinged' <= now'
      BY <1>1 DEF IInv, Instants, LastPingStored
    <2>2. handler = "keepAlive" => now' <= pingNow' + MaxDelay
      BY <1>1, HeartbeatAssumption DEF HeartbeatAssumption, IInv, Instants
    <2> QED
      BY <1>1, <2>1, <2>2 DEF IInv, LastPingStored
  <1>4. CheckerTurns'
    <2>1. checker = "select" => now' <= timer' + MaxDelay
      BY <1>1, HeartbeatAssumption DEF HeartbeatAssumption, IInv, Instants
    <2>2. HasBeenSilent => HasBeenSilent'
      BY <1>1, HeartbeatAssumption DEF HeartbeatAssumption, IInv, Instants, HasBeenSilent
    <2> QED
      BY <1>1, <2>1, <2>2 DEF IInv, TimerGuards, CheckerTurns
  <1>5. checker \in {"isAlive", "reset", "close"} =>
          checkNow' <= now' /\ now' <= checkNow' + MaxDelay
    BY <1>1, HeartbeatAssumption DEF HeartbeatAssumption, IInv, Instants, TimerGuards
  <1>6. TimerGuards'
    BY <1>1, <1>4, <1>5 DEF IInv, TimerGuards
  <1> QED
    BY <1>2, <1>3, <1>6 DEF IInv

\* Each action preserves each part.
LEMMA Inductive == IInv /\ [Next]_vars => IInv'
  <1> SUFFICES ASSUME IInv, [Next]_vars PROVE IInv'
    OBVIOUS
  <1>1. CASE ReceivePing
    BY <1>1, ReceivePingIInv
  <1>2. CASE KeepAlive
    BY <1>2, KeepAliveIInv
  <1>3. CASE TimerFires
    BY <1>3, TimerFiresIInv
  <1>4. CASE IsAlive
    BY <1>4, IsAliveIInv
  <1>5. CASE Close
    BY <1>5, CloseIInv
  <1>6. CASE ResetTimer
    BY <1>6, ResetTimerIInv
  <1>7. CASE Tick
    BY <1>7, TickIInv
  <1>8. CASE UNCHANGED vars
    BY <1>8 DEF vars, IInv, Instants, LastPingStored, TimerGuards, CheckerTurns, HasBeenSilent
  <1> QED
    BY <1>1, <1>2, <1>3, <1>4, <1>5, <1>6, <1>7, <1>8 DEF Next

\* The invariant holds in every reachable state.
THEOREM InvariantHolds == Spec => []IInv
  BY InitIInv, Inductive, PTL DEF Spec

\* A client that falls silent is closed within two intervals and three delays: the
\* timer is at most two intervals and a delay after the stored heartbeat, the
\* checker wakes a delay after it and ends its turn a delay later.
THEOREM SilenceBounded == Spec => []SilenceIsBounded
  <1>1. IInv => SilenceIsBounded
    <2> SUFFICES ASSUME IInv, ~isClosed
                 PROVE  now - pinged <= 2 * WsHeartbeatInterval + 3 * MaxDelay
      BY DEF SilenceIsBounded
    <2>1. lastHeartbeatTime <= pinged
      BY DEF IInv, LastPingStored
    <2>2. now <= lastHeartbeatTime + 2 * WsHeartbeatInterval + 3 * MaxDelay
      <3>1. CASE checker = "select"
        <4>1. now <= timer + MaxDelay
              /\ timer <= lastHeartbeatTime + 2 * WsHeartbeatInterval + MaxDelay
          BY <3>1 DEF IInv, TimerGuards, CheckerTurns
        <4> QED
          BY <4>1, HeartbeatAssumption DEF HeartbeatAssumption, IInv, Instants
      <3>2. CASE checker \in {"isAlive", "close"}
        <4>1. /\ now <= checkNow + MaxDelay /\ checkNow <= timer + MaxDelay
              /\ timer <= lastHeartbeatTime + 2 * WsHeartbeatInterval + MaxDelay
          BY <3>2 DEF IInv, TimerGuards, CheckerTurns
        <4> QED
          BY <4>1, HeartbeatAssumption DEF HeartbeatAssumption, IInv, Instants
      <3>3. CASE checker = "reset"
        <4>1. now <= checkNow + MaxDelay
              /\ checkNow <= lastHeartbeatTime + WsHeartbeatInterval
          BY <3>3 DEF IInv, TimerGuards, CheckerTurns
        <4> QED
          BY <4>1, HeartbeatAssumption DEF HeartbeatAssumption, IInv, Instants
      <3> QED
        BY <3>1, <3>2, <3>3 DEF IInv, TimerGuards, CheckerTurns
    <2> QED
      BY <2>1, <2>2, HeartbeatAssumption DEF HeartbeatAssumption, IInv, Instants
  <1> QED
    BY <1>1, InvariantHolds, PTL

\* Only a client that sends no PING for an interval, or whose PINGs have been
\* further apart than the interval less a delay, is closed by the checker,
\* however the two clocks and the mutex interleave.
THEOREM ClosedOnlyWhenSilent == Spec => OnlySilentClosed
  <1>1. ASSUME IInv, [Next]_vars
        PROVE  [isClosed' # isClosed =>
                  \/ widest + MaxDelay > WsHeartbeatInterval
                  \/ now - pinged > WsHeartbeatInterval]_vars
    <2> SUFFICES ASSUME isClosed' # isClosed PROVE HasBeenSilent
      BY DEF HasBeenSilent
    <2>1. checker = "close"
      BY <1>1 DEF Next, vars, ReceivePing, KeepAlive, TimerFires, IsAlive, Close, ResetTimer, Tick
    <2> QED
      BY <1>1, <2>1 DEF IInv, TimerGuards, CheckerTurns
  <1> QED
    BY <1>1, InvariantHolds, PTL DEF Spec, OnlySilentClosed
=============================================================================
