--------------------------- MODULE MCRoomRegistry ---------------------------
(* TLC instances of RoomRegistry: two connections in the bucket the job      *)
(* worker serves; the other bucket stays empty.                              *)
EXTENDS RoomRegistry

CONSTANTS c1, c2, b1, b2

MCConns == {c1, c2}
MCBuckets == {b1, b2}
MCBucketOf == [c \in Conns |-> b1]
MCWorkerBucket == [w \in JobWorkers |-> b1]
=============================================================================
