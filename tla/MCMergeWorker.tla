---------------------------- MODULE MCMergeWorker ----------------------------
(* TLC instances of MergeWorker: its rooms are model values, given with the  *)
(* numbers in the .cfg.                                                      *)
EXTENDS MergeWorker
=============================================================================
