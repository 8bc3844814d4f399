-------------------------- MODULE MCMessageServer ---------------------------
(* TLC instances of MessageServer: one room and the broadcasts, two clients  *)
(* in one bucket.                                                            *)
EXTENDS MessageServer

CONSTANTS ra, q1, q2, q3, c1, c2, d1, j1

\* "ab": 97 * 33 + 98 * 33, modulo the number of workers.
MCRoomBytes == [r \in Rooms |-> <<97, 98>>]
\* Two requests for the room at the same time, and a broadcast.
MCRequestTopic == [q \in Requests |-> IF q = q3 THEN All ELSE ra]
MCItemCount == [q \in Requests |-> IF q = q1 THEN 2 ELSE 1]
MCFollows == [c \in Clients |-> IF c = c1 THEN {ra, All} ELSE {All}]
MCBucketOf == [c \in Clients |-> 0]
MCWorkerBucket == [w \in JobWorkers |-> 0]
=============================================================================
