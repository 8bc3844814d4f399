----------------------------- MODULE MCHeartbeat -----------------------------
(* TLC instances of Heartbeat: its constants are numbers, given in the .cfg.  *)
EXTENDS Heartbeat
=============================================================================
