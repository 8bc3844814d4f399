---------------------------- MODULE MCConnection ----------------------------
(* TLC instances of Connection: its constants are numbers, given in the .cfg. *)
EXTENDS Connection
=============================================================================
