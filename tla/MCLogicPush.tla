---------------------------- MODULE MCLogicPush -----------------------------
(* TLC instances of LogicPush: one dispatch worker or two.                   *)
EXTENDS LogicPush

CONSTANTS d1, d2

OneDispatchWorker == {d1}
TwoDispatchWorkers == {d1, d2}
=============================================================================
