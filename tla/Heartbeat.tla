------------------------------ MODULE Heartbeat ------------------------------
(***************************************************************************)
(* The heartbeat of one WebSocket connection in time: heartbeatChecker     *)
(* with its timer, and the KeepAlive of the PINGs the handler receives.    *)
(* Both read the clock before they take the connection's mutex, so a PING  *)
(* and a check may overtake each other, and time passes between any two    *)
(* of their steps: a goroutine is held up for MaxDelay at the most.  How   *)
(* the other goroutines close the connection is the subject of Connection. *)
(***************************************************************************)
EXTENDS Naturals

CONSTANTS
  WsHeartbeatInterval,  \* config
  MaxDelay,             \* how long a goroutine may be held up in one turn
  MaxTime               \* bound on the clock

ASSUME HeartbeatAssumption ==
  /\ WsHeartbeatInterval \in Nat \ {0}
  /\ MaxDelay \in Nat
  /\ MaxTime \in Nat

VARIABLES
  now,                \* the clock
  lastHeartbeatTime,  \* WSConnection.lastHeartbeatTime
  isClosed,           \* the checker has called Close
  timer,              \* when the checker's timer fires
  checker,            \* where heartbeatChecker is
  checkNow,           \* the local variable now of IsAlive
  handler,            \* where the handler is
  pingNow,            \* the local variable now of KeepAlive
  pinged,             \* history: when the last PING was received
  widest              \* history: the longest time between two PINGs

vars == <<now, lastHeartbeatTime, isClosed, timer, checker, checkNow, handler,
          pingNow, pinged, widest>>

\* The checker is about to make its timer.
Init ==
  /\ now = 0
  /\ lastHeartbeatTime = 0
  /\ isClosed = FALSE
  /\ timer = 0
  /\ checker = "reset"
  /\ checkNow = 0
  /\ handler = "select"
  /\ pingNow = 0
  /\ pinged = 0
  /\ widest = 0
-----------------------------------------------------------------------------
(* The handler.                                                            *)

\* A PING is received, be it after the close (the select of ReadMessage takes
\* either); KeepAlive reads the clock ...
ReceivePing ==
  /\ handler = "select"
  /\ pingNow' = now
  /\ pinged' = now
  /\ widest' = IF now - pinged > widest THEN now - pinged ELSE widest
  /\ handler' = "keepAlive"
  /\ UNCHANGED <<now, lastHeartbeatTime, isClosed, timer, checker, checkNow>>

\* ... and with the mutex stores what it read.
KeepAlive ==
  /\ handler = "keepAlive"
  /\ lastHeartbeatTime' = pingNow
  /\ handler' = "select"
  /\ UNCHANGED <<now, isClosed, timer, checker, checkNow, pingNow, pinged, widest>>
-----------------------------------------------------------------------------
(* heartbeatChecker.                                                       *)

\* Mutants: an answer in the last moment is too late; twice the interval.
TooOldAtOnce(age) == age >= WsHeartbeatInterval
TooOldTwice(age) == age > 2 * WsHeartbeatInterval

TooOld(age) == age > WsHeartbeatInterval

\* The age of the heartbeat, zero if it is newer than the clock read for it.
Age(time) == IF time >= lastHeartbeatTime THEN time - lastHeartbeatTime ELSE 0

\* The timer fires, and IsAlive reads the clock ...
TimerFires ==
  /\ checker = "select"
  /\ now >= timer
  /\ checkNow' = now
  /\ checker' = "isAlive"
  /\ UNCHANGED <<now, lastHeartbeatTime, isClosed, timer, handler, pingNow, pinged, widest>>

\* ... and with the mutex compares.
IsAlive ==
  /\ checker = "isAlive"
  /\ checker' = IF TooOld(Age(checkNow)) THEN "close" ELSE "reset"
  /\ UNCHANGED <<now, lastHeartbeatTime, isClosed, timer, checkNow, handler,
                 pingNow, pinged, widest>>

\* It is not alive.
Close ==
  /\ checker = "close"
  /\ isClosed' = TRUE
  /\ checker' = "done"
  /\ UNCHANGED <<now, lastHeartbeatTime, timer, checkNow, handler, pingNow, pinged, widest>>

\* NewTimer, and Reset after a check that found it alive.
ResetTimer ==
  /\ checker = "reset"
  /\ timer' = now + WsHeartbeatInterval
  /\ checker' = "select"
  /\ UNCHANGED <<now, lastHeartbeatTime, isClosed, checkNow, handler, pingNow, pinged, widest>>
-----------------------------------------------------------------------------
\* Time passes, wherever the two goroutines are: the handler stores a PING within
\* MaxDelay of its clock, the checker wakes within MaxDelay of its timer and ends
\* its turn within MaxDelay of its clock.
Tick ==
  /\ now < MaxTime
  /\ handler = "keepAlive" => now < pingNow + MaxDelay
  /\ checker = "select" => now < timer + MaxDelay
  /\ checker \in {"isAlive", "close", "reset"} => now < checkNow + MaxDelay
  /\ now' = now + 1
  /\ UNCHANGED <<lastHeartbeatTime, isClosed, timer, checker, checkNow, handler,
                 pingNow, pinged, widest>>

Next == ReceivePing \/ KeepAlive \/ TimerFires \/ IsAlive \/ Close \/ ResetTimer \/ Tick

Spec == Init /\ [][Next]_vars
-----------------------------------------------------------------------------
(* Properties.                                                             *)

\* "维持连接，每次60s内发送PING" (README.md:22): the checker closes only a client
\* that has sent no PING for an interval, or whose PINGs, as the handler came to
\* them, have been further apart than the interval less MaxDelay.  The margin is
\* the price of two clocks read outside the mutex: a PING that has read its clock
\* within the interval may have to wait for a check that read its own after it
\* (connect.go:124, 139-146).
OnlySilentClosed ==
  [][isClosed' # isClosed =>
       \/ widest + MaxDelay > WsHeartbeatInterval
       \/ now - pinged > WsHeartbeatInterval]_vars

\* A client that has fallen silent is closed within two intervals, but for the
\* turn of the checker that just missed it, its next waking and its next turn.
SilenceIsBounded == ~isClosed => now - pinged <= 2 * WsHeartbeatInterval + 3 * MaxDelay
=============================================================================
