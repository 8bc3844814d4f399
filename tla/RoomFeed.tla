------------------------------ MODULE RoomFeed ------------------------------
(***************************************************************************)
(* What a merge worker promises for the messages it receives: every room   *)
(* is a queue that is emptied from the front, at most one batch at a time. *)
(* A batch is handed to the connection manager whole, or is lost whole     *)
(* when the connection manager's queue is full.  Messages of one room      *)
(* never overtake each other, none is handed over twice and none           *)
(* disappears in between.                                                  *)
(*                                                                         *)
(* A message is named by its place in the order in which the worker        *)
(* receives it.  The broadcast worker is the case of a single room.        *)
(***************************************************************************)
EXTENDS Naturals, Sequences, Functions

CONSTANTS Rooms, MaxMsgs, MaxMergerBatchSize

VARIABLES
  received,  \* number of messages received so far
  pending,   \* for each room, the messages received and not handed over yet
  handed,    \* for each room, the messages handed to the connection manager
  lost       \* messages of batches the connection manager had no place for

feedVars == <<received, pending, handed, lost>>

FeedInit ==
  /\ received = 0
  /\ pending = [r \in Rooms |-> <<>>]
  /\ handed = [r \in Rooms |-> <<>>]
  /\ lost = {}

Receive(r) ==
  /\ received < MaxMsgs
  /\ received' = received + 1
  /\ pending' = [pending EXCEPT ![r] = Append(@, received + 1)]
  /\ UNCHANGED <<handed, lost>>

\* The n oldest messages of room r leave together.
Flush(r, n) ==
  LET batch == SubSeq(pending[r], 1, n)
  IN  /\ n <= Len(pending[r])
      /\ pending' = [pending EXCEPT ![r] = SubSeq(@, n + 1, Len(@))]
      /\ \/ /\ handed' = [handed EXCEPT ![r] = @ \o batch]
            /\ UNCHANGED lost
         \/ /\ lost' = lost \cup Range(batch)
            /\ UNCHANGED handed
      /\ UNCHANGED received

FeedNext ==
  \E r \in Rooms :
    \/ Receive(r)
    \/ \E n \in 1..MaxMergerBatchSize : Flush(r, n)

FeedSpec == FeedInit /\ [][FeedNext]_feedVars
-----------------------------------------------------------------------------
\* All of room r that is not lost, oldest first.
Log(r) == handed[r] \o pending[r]

\* Messages of a room leave in the order in which they came.
InOrder == \A r \in Rooms : \A i, j \in DOMAIN Log(r) : i < j => Log(r)[i] < Log(r)[j]

\* A message is lost, or belongs to one room.
OnePlace ==
  \A n \in 1..received :
    LET homes == {r \in Rooms : n \in Range(Log(r))}
    IN  IF n \in lost THEN homes = {} ELSE \E r \in Rooms : homes = {r}

\* Every message received is in exactly one place, once, and a room's messages
\* never overtake each other.
ExactlyOnce == InOrder /\ OnePlace

FeedTypeOK ==
  /\ received \in Nat
  /\ pending \in [Rooms -> Seq(1..received)]
  /\ handed \in [Rooms -> Seq(1..received)]
  /\ lost \subseteq 1..received
=============================================================================
