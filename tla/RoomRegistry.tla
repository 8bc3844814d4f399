---------------------------- MODULE RoomRegistry ----------------------------
(***************************************************************************)
(* Who is in which room: the buckets and rooms of the message server, the  *)
(* room set each connection keeps for itself, the connection handlers that *)
(* change both, and the job workers that look a room up under the bucket   *)
(* lock, let go of the lock, and push to the room they found.              *)
(*                                                                         *)
(* JoinRoom and LeaveRoom hold the bucket lock from end to end, so each is *)
(* one step.  A *Room is named by its address: the address of a room that  *)
(* is neither registered nor held by a job worker may be given to a new    *)
(* room (the garbage collector has freed it).                              *)
(***************************************************************************)
EXTENDS Naturals, FiniteSets

CONSTANTS
  Conns,        \* connections; connId is unique, so it is the connection
  RoomIds,      \* room names
  Buckets,
  BucketOf,     \* connId % len(buckets)
  RoomPtrs,     \* addresses of Room objects
  Nil,          \* the nil *Room
  JobWorkers,   \* goroutines jobWorkerMain
  WorkerBucket, \* the bucket a job worker serves
  MaxJoinRoom   \* config: how many rooms a connection may join

ASSUME RegistryAssumption ==
  /\ BucketOf \in [Conns -> Buckets]
  /\ WorkerBucket \in [JobWorkers -> Buckets]
  /\ Nil \notin RoomPtrs
  /\ MaxJoinRoom \in Nat

VARIABLES
  handler,    \* where WSHandle of a connection is
  isClosed,   \* the connection is closed: ReadMessage may fail
  connRooms,  \* WSConnection.rooms
  id2Conn,    \* Bucket.id2Conn
  rooms,      \* Bucket.rooms
  members,    \* Room.id2Conn
  held,       \* the local variable room of Bucket.PushRoom, Nil before it
  target,     \* the roomId of that call
  stable      \* history: members of the room ever since it was looked up

vars == <<handler, isClosed, connRooms, id2Conn, rooms, members, held, target,
          stable>>

Init ==
  /\ handler = [c \in Conns |-> "new"]
  /\ isClosed = [c \in Conns |-> FALSE]
  /\ connRooms = [c \in Conns |-> {}]
  /\ id2Conn = [b \in Buckets |-> {}]
  /\ rooms = [b \in Buckets |-> [r \in RoomIds |-> Nil]]
  /\ members = [p \in RoomPtrs |-> {}]
  /\ held = [w \in JobWorkers |-> Nil]
  /\ target \in [JobWorkers -> RoomIds]
  /\ stable = [w \in JobWorkers |-> {}]
-----------------------------------------------------------------------------
(* Bucket and Room.                                                        *)

RoomOf(c, r) == rooms[BucketOf[c]][r]

Collected(p) ==
  /\ \A b \in Buckets, r \in RoomIds : rooms[b][r] # p
  /\ \A w \in JobWorkers : held[w] # p

\* Mutant: every join starts with an empty room.
MembersFoundReset(c, r, p) == {}

\* What Bucket.JoinRoom finds or makes: the registered room with its members,
\* or a new and empty one.
Found(c, r, p) == IF RoomOf(c, r) = Nil THEN Collected(p) ELSE p = RoomOf(c, r)
MembersFound(c, r, p) == IF RoomOf(c, r) = Nil THEN {} ELSE members[p]

\* Bucket.JoinRoom; joining twice is an error (JoinRoomTwice) that leaves the
\* members as they are.
JoinRoom(c, r, p) ==
  /\ Found(c, r, p)
  /\ rooms' = [rooms EXCEPT ![BucketOf[c]][r] = p]
  /\ members' = [members EXCEPT ![p] = MembersFound(c, r, p) \cup {c}]

\* Mutants: the room is dropped with its last but one member; it is never
\* dropped; the member is never removed.
LeaveRoomTooEarly(c, r) ==
  LET p == RoomOf(c, r)
  IN  IF p = Nil
      THEN UNCHANGED <<rooms, members>>
      ELSE /\ members' = [members EXCEPT ![p] = @ \ {c}]
           /\ rooms' = IF Cardinality(members[p] \ {c}) <= 1
                       THEN [rooms EXCEPT ![BucketOf[c]][r] = Nil]
                       ELSE rooms
LeaveRoomKeepsRoom(c, r) ==
  /\ members' = [members EXCEPT ![RoomOf(c, r)] = @ \ {c}]
  /\ UNCHANGED rooms
LeaveRoomKeepsMember(c, r) == UNCHANGED <<rooms, members>>

\* Bucket.LeaveRoom: without the room nothing happens (NotInRoom); the room
\* is dropped as soon as it is empty.
LeaveRoom(c, r) ==
  LET p == RoomOf(c, r)
  IN  IF p = Nil
      THEN UNCHANGED <<rooms, members>>
      ELSE /\ members' = [members EXCEPT ![p] = @ \ {c}]
           /\ rooms' = IF members[p] \ {c} = {}
                       THEN [rooms EXCEPT ![BucketOf[c]][r] = Nil]
                       ELSE rooms

InRoom(c, r) == RoomOf(c, r) # Nil /\ c \in members[RoomOf(c, r)]

\* Whoever leaves is no longer a member "ever since".
StableAfterLeave(c, r) ==
  [w \in JobWorkers |->
     IF WorkerBucket[w] = BucketOf[c] /\ target[w] = r
     THEN stable[w] \ {c} ELSE stable[w]]
-----------------------------------------------------------------------------
(* The connection handler.                                                 *)

\* handleConnect, up to the loop of WSHandle: AddConn.
Connect(c) ==
  /\ handler[c] = "new"
  /\ handler' = [handler EXCEPT ![c] = "serving"]
  /\ id2Conn' = [id2Conn EXCEPT ![BucketOf[c]] = @ \cup {c}]
  /\ UNCHANGED <<isClosed, connRooms, rooms, members, held, target, stable>>

\* Close by the read loop, the write loop or the heartbeat checker.
CloseConn(c) ==
  /\ handler[c] # "new"
  /\ ~isClosed[c]
  /\ isClosed' = [isClosed EXCEPT ![c] = TRUE]
  /\ UNCHANGED <<handler, connRooms, id2Conn, rooms, members, held, target,
                 stable>>

\* Mutant: the limit is off by one.
JoinIgnoredOffByOne(c, r) ==
  \/ Cardinality(connRooms[c]) > MaxJoinRoom
  \/ r \in connRooms[c]

\* handleJoin: a request beyond the limit, or for a room joined before, is
\* ignored.  A closed connection may still work off requests it has read:
\* the select of ReadMessage picks either channel.
JoinIgnored(c, r) ==
  \/ Cardinality(connRooms[c]) >= MaxJoinRoom
  \/ r \in connRooms[c]

HandleJoin(c, r) ==
  /\ handler[c] = "serving"
  /\ ~JoinIgnored(c, r)
  /\ \E p \in RoomPtrs :
       /\ JoinRoom(c, r, p)
       /\ IF c \in MembersFound(c, r, p)
          THEN /\ handler' = [handler EXCEPT ![c] = "leaving"]
               /\ isClosed' = [isClosed EXCEPT ![c] = TRUE]
               /\ UNCHANGED connRooms
          ELSE /\ connRooms' = [connRooms EXCEPT ![c] = @ \cup {r}]
               /\ UNCHANGED <<handler, isClosed>>
  /\ UNCHANGED <<id2Conn, held, target, stable>>

\* handleLeave: a room never joined is ignored; an error of LeaveRoom ends
\* the handler.
HandleLeave(c, r) ==
  /\ handler[c] = "serving"
  /\ r \in connRooms[c]
  /\ LeaveRoom(c, r)
  /\ stable' = StableAfterLeave(c, r)
  /\ IF InRoom(c, r)
     THEN /\ connRooms' = [connRooms EXCEPT ![c] = @ \ {r}]
          /\ UNCHANGED <<handler, isClosed>>
     ELSE /\ handler' = [handler EXCEPT ![c] = "leaving"]
          /\ isClosed' = [isClosed EXCEPT ![c] = TRUE]
          /\ UNCHANGED connRooms
  /\ UNCHANGED <<id2Conn, held, target>>

\* The loop returns, because ReadMessage fails on the closed connection or
\* because a request cannot be decoded or names no room; the deferred function
\* closes the connection first.
Return(c) ==
  /\ handler[c] = "serving"
  /\ handler' = [handler EXCEPT ![c] = "leaving"]
  /\ isClosed' = [isClosed EXCEPT ![c] = TRUE]
  /\ UNCHANGED <<connRooms, id2Conn, rooms, members, held, target, stable>>

ReadFails(c) == isClosed[c] /\ Return(c)
BadRequest(c) == ~isClosed[c] /\ Return(c)

\* Mutant: the connection forgets its rooms, the rooms keep the connection.
LeaveNextForgets(c, r) ==
  /\ handler[c] = "leaving"
  /\ connRooms' = [connRooms EXCEPT ![c] = @ \ {r}]
  /\ UNCHANGED <<handler, isClosed, id2Conn, rooms, members, held, target, stable>>

\* leaveAll: one room after the other, errors of LeaveRoom are ignored.
LeaveNext(c, r) ==
  /\ handler[c] = "leaving"
  /\ r \in connRooms[c]
  /\ LeaveRoom(c, r)
  /\ stable' = StableAfterLeave(c, r)
  /\ connRooms' = [connRooms EXCEPT ![c] = @ \ {r}]
  /\ UNCHANGED <<handler, isClosed, id2Conn, held, target>>

\* Mutant: the bucket keeps the connection.
DisconnectKeepsConn(c) ==
  /\ handler[c] = "leaving"
  /\ connRooms[c] = {}
  /\ handler' = [handler EXCEPT ![c] = "done"]
  /\ UNCHANGED <<isClosed, connRooms, id2Conn, rooms, members, held, target, stable>>

\* DelConn, the last thing the handler does.
Disconnect(c) ==
  /\ handler[c] = "leaving"
  /\ connRooms[c] = {}
  /\ id2Conn' = [id2Conn EXCEPT ![BucketOf[c]] = @ \ {c}]
  /\ handler' = [handler EXCEPT ![c] = "done"]
  /\ UNCHANGED <<isClosed, connRooms, rooms, members, held, target, stable>>
-----------------------------------------------------------------------------
(* Bucket.PushRoom, called by a job worker.                                *)

\* Look the room up under the bucket's read lock, and release the lock; a
\* room that does not exist ends the call.
PushRoomLookup(w, r) ==
  LET p == rooms[WorkerBucket[w]][r]
  IN  /\ held[w] = Nil
      /\ p # Nil
      /\ held' = [held EXCEPT ![w] = p]
      /\ target' = [target EXCEPT ![w] = r]
      /\ stable' = [stable EXCEPT ![w] = members[p]]
      /\ UNCHANGED <<handler, isClosed, connRooms, id2Conn, rooms, members>>

\* room.Push: under the room's read lock every member of the room found is
\* sent the message.
PushRoomSend(w) ==
  /\ held[w] # Nil
  /\ held' = [held EXCEPT ![w] = Nil]
  /\ stable' = [stable EXCEPT ![w] = {}]
  /\ UNCHANGED <<handler, isClosed, connRooms, id2Conn, rooms, members, target>>
-----------------------------------------------------------------------------
HandlerStep(c) ==
  \/ ReadFails(c)
  \/ \E r \in RoomIds : LeaveNext(c, r)
  \/ Disconnect(c)

Next ==
  \/ \E c \in Conns :
       \/ Connect(c)
       \/ CloseConn(c)
       \/ BadRequest(c)
       \/ HandlerStep(c)
       \/ \E r \in RoomIds : HandleJoin(c, r) \/ HandleLeave(c, r)
  \/ \E w \in JobWorkers :
       \/ PushRoomSend(w)
       \/ \E r \in RoomIds : PushRoomLookup(w, r)

\* Go's select picks uniformly among the ready channels, so a handler whose
\* connection is closed cannot go on reading requests for ever; and a handler
\* that can run does.
Fairness == \A c \in Conns : WF_vars(HandlerStep(c))

Spec == Init /\ [][Next]_vars
FairSpec == Spec /\ Fairness
-----------------------------------------------------------------------------
(* Properties.                                                             *)

TypeOK ==
  /\ handler \in [Conns -> {"new", "serving", "leaving", "done"}]
  /\ isClosed \in [Conns -> BOOLEAN]
  /\ connRooms \in [Conns -> SUBSET RoomIds]
  /\ \A c \in Conns : IsFiniteSet(connRooms[c]) /\ Cardinality(connRooms[c]) <= MaxJoinRoom
  /\ id2Conn \in [Buckets -> SUBSET Conns]
  /\ rooms \in [Buckets -> [RoomIds -> RoomPtrs \cup {Nil}]]
  /\ members \in [RoomPtrs -> SUBSET Conns]
  /\ held \in [JobWorkers -> RoomPtrs \cup {Nil}]
  /\ target \in [JobWorkers -> RoomIds]
  /\ stable \in [JobWorkers -> SUBSET Conns]

\* The room set of a connection and the member sets of the rooms, kept in two
\* places without a common lock, agree: so JoinRoom never returns
\* JoinRoomTwice and LeaveRoom never returns NotInRoom to a handler.
RegistryAgrees ==
  \A c \in Conns, r \in RoomIds : r \in connRooms[c] <=> InRoom(c, r)

\* No connection is left behind: a member of any Room object, registered or
\* not, is a connection whose handler still has to leave that room, and a
\* connection that is out of its bucket is a member nowhere.
NoGhostMember ==
  \A c \in Conns, p \in RoomPtrs : c \in members[p] =>
    /\ handler[c] \in {"serving", "leaving"}
    /\ c \in id2Conn[BucketOf[c]]
    /\ \E r \in connRooms[c] : RoomOf(c, r) = p

\* A room without members is not kept.
EmptyRoomsFreed ==
  \A b \in Buckets, r \in RoomIds : rooms[b][r] # Nil => members[rooms[b][r]] # {}

\* However it joins and leaves, a connection never receives the traffic of more
\* than MaxJoinRoom rooms.
JoinLimit ==
  \A c \in Conns : Cardinality({r \in RoomIds : InRoom(c, r)}) <= MaxJoinRoom

\* The room a job worker found is not out of date in a way that matters:
\* whoever has been in the room from the lookup on is still in the Room object
\* the worker is about to push to, even if others came and went.
StableMembersReached ==
  \A w \in JobWorkers : held[w] # Nil => stable[w] \subseteq members[held[w]]

\* A closed connection is out of its bucket and of every room in the end.
ClosedIsForgotten ==
  \A c \in Conns :
    isClosed[c] ~> /\ c \notin id2Conn[BucketOf[c]]
                   /\ \A p \in RoomPtrs : c \notin members[p]
-----------------------------------------------------------------------------
(* The inductive invariant behind the safety properties (proved in           *)
(* RoomRegistry_proofs).                                                     *)

\* No Room object is registered twice, whether in two buckets or under two names.
RoomsDistinct ==
  \A b1, b2 \in Buckets : \A r1, r2 \in RoomIds :
    rooms[b1][r1] # Nil /\ rooms[b1][r1] = rooms[b2][r2] => b1 = b2 /\ r1 = r2

\* A Room object has members only while it is registered, and then only
\* connections of its bucket.
MembersRegistered ==
  \A p \in RoomPtrs : \A c \in members[p] : \E r \in RoomIds : RoomOf(c, r) = p

\* A connection is in its bucket while its handler serves or leaves, and in no
\* room otherwise.
HandlersOwn ==
  \A c \in Conns :
    IF handler[c] \in {"serving", "leaving"}
    THEN c \in id2Conn[BucketOf[c]]
    ELSE connRooms[c] = {}

\* While a member has stayed since the lookup, the room found is still the room
\* registered under the name that was looked up.
FoundRoomKept ==
  \A w \in JobWorkers :
    /\ held[w] = Nil => stable[w] = {}
    /\ stable[w] # {} => /\ held[w] = rooms[WorkerBucket[w]][target[w]]
                        /\ stable[w] \subseteq members[held[w]]

IInv ==
  /\ TypeOK
  /\ RegistryAgrees
  /\ EmptyRoomsFreed
  /\ RoomsDistinct
  /\ MembersRegistered
  /\ HandlersOwn
  /\ FoundRoomKept
=============================================================================
