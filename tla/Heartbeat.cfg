\* An interval of three units of time, a delay of one, and a clock of more than
\* the longest silence, 2 * 3 + 3 * 1: PINGs fall before, in and after a check.
CONSTANTS
  WsHeartbeatInterval = 3
  MaxDelay = 1
  MaxTime = 13
SPECIFICATION Spec
INVARIANTS SilenceIsBounded
PROPERTIES OnlySilentClosed
