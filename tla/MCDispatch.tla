----------------------------- MODULE MCDispatch -----------------------------
(* TLC instances of Dispatch: two dispatch workers, two job workers for the  *)
(* first bucket and one for the second.                                      *)
EXTENDS Dispatch

CONSTANTS d1, d2, j1, j2, j3

TwoDispatchWorkers == {d1, d2}
TwoForTheFirst == {j1, j2, j3}
MCWorkerBucket == [w \in JobWorkers |-> IF w = j3 THEN 1 ELSE 0]
=============================================================================
