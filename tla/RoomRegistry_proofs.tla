------------------------- MODULE RoomRegistry_proofs -------------------------
(***************************************************************************)
(* The inductive invariant of RoomRegistry, and the safety properties that *)
(* follow from it, for any connections, rooms, buckets, addresses, job     *)
(* workers and join limit.  Only a join and a leave disturb more than one  *)
(* part of the invariant; each is first described pointwise, and then      *)
(* shown to preserve the parts one by one.                                 *)
(***************************************************************************)
EXTENDS RoomRegistry, FiniteSetTheorems, TLAPS

\* The parts of the invariant that speak of rooms, members and the connections'
\* own room sets.
Rooms4 == RegistryAgrees /\ EmptyRoomsFreed /\ RoomsDistinct /\ MembersRegistered

\* The initial state satisfies the invariant.
LEMMA InitIInv == Init => IInv
  <1> SUFFICES ASSUME Init PROVE IInv
    OBVIOUS
  <1>1. TypeOK
    <2>1. IsFiniteSet({}) /\ Cardinality({}) = 0
      BY FS_EmptySet
    <2>2. connRooms \in [Conns -> SUBSET RoomIds]
      BY DEF Init
    <2>3. \A c \in Conns : IsFiniteSet(connRooms[c]) /\ Cardinality(connRooms[c]) <= MaxJoinRoom
      BY <2>1, RegistryAssumption DEF Init, RegistryAssumption
    <2> QED
      BY <2>2, <2>3 DEF Init, TypeOK
  <1>2. RegistryAgrees
    BY RegistryAssumption DEF Init, RegistryAgrees, InRoom, RoomOf, RegistryAssumption
  <1>3. EmptyRoomsFreed
    BY DEF Init, EmptyRoomsFreed
  <1>4. RoomsDistinct
    BY DEF Init, RoomsDistinct
  <1>5. MembersRegistered
    BY DEF Init, MembersRegistered
  <1>6. HandlersOwn
    BY DEF Init, HandlersOwn
  <1>7. FoundRoomKept
    BY DEF Init, FoundRoomKept
  <1> QED
    BY <1>1, <1>2, <1>3, <1>4, <1>5, <1>6, <1>7 DEF IInv

\* Steps that leave rooms, members and the connections' room sets alone.
LEMMA RoomsKept ==
  ASSUME IInv, UNCHANGED <<connRooms, rooms, members>>
  PROVE  Rooms4'
  BY DEF IInv, Rooms4, RegistryAgrees, EmptyRoomsFreed, RoomsDistinct,
         MembersRegistered, InRoom, RoomOf

\* A handler's leave: the connection is a member, and the room goes with its
\* last member.
LEMMA LeaveIInv ==
  ASSUME IInv, NEW c \in Conns, NEW r \in connRooms[c],
         handler[c] \in {"serving", "leaving"},
         LeaveRoom(c, r),
         connRooms' = [connRooms EXCEPT ![c] = @ \ {r}],
         stable' = StableAfterLeave(c, r),
         UNCHANGED <<handler, isClosed, id2Conn, held, target>>
  PROVE  IInv'
  <1> DEFINE b == BucketOf[c]
             p == rooms[b][r]
  <1>1. /\ TypeOK
        /\ r \in RoomIds /\ b \in Buckets
        /\ p \in RoomPtrs /\ p # Nil /\ c \in members[p]
    <2>1. TypeOK /\ RegistryAgrees
      BY DEF IInv
    <2>2. r \in RoomIds /\ b \in Buckets
      BY <2>1, RegistryAssumption DEF TypeOK, RegistryAssumption
    <2>3. p # Nil /\ c \in members[p]
      BY <2>1, <2>2 DEF RegistryAgrees, InRoom, RoomOf
    <2>4. p \in RoomPtrs \cup {Nil}
      BY <2>1, <2>2 DEF TypeOK
    <2> QED
      BY <2>1, <2>2, <2>3, <2>4
  <1>2. /\ members' = [members EXCEPT ![p] = @ \ {c}]
        /\ rooms' = IF members[p] \ {c} = {} THEN [rooms EXCEPT ![b][r] = Nil] ELSE rooms
    BY <1>1 DEF LeaveRoom, RoomOf
  <1>3. TypeOK'
    <2>1. members' \in [RoomPtrs -> SUBSET Conns]
      BY <1>1, <1>2 DEF TypeOK
    <2>2. rooms' \in [Buckets -> [RoomIds -> RoomPtrs \cup {Nil}]]
      BY <1>1, <1>2 DEF TypeOK
    <2>3. connRooms' \in [Conns -> SUBSET RoomIds]
      BY <1>1 DEF TypeOK
    <2>4. \A d \in Conns : IsFiniteSet(connRooms'[d]) /\ Cardinality(connRooms'[d]) <= MaxJoinRoom
      <3> SUFFICES ASSUME NEW d \in Conns
                   PROVE  IsFiniteSet(connRooms'[d]) /\ Cardinality(connRooms'[d]) <= MaxJoinRoom
        OBVIOUS
      <3>1. IsFiniteSet(connRooms[d]) /\ Cardinality(connRooms[d]) <= MaxJoinRoom
        BY <1>1 DEF TypeOK
      <3>2. connRooms'[d] \subseteq connRooms[d]
        BY <1>1 DEF TypeOK
      <3>3. /\ IsFiniteSet(connRooms'[d])
            /\ Cardinality(connRooms'[d]) <= Cardinality(connRooms[d])
        BY <3>1, <3>2, FS_Subset
      <3>4. Cardinality(connRooms'[d]) \in Nat /\ Cardinality(connRooms[d]) \in Nat
        BY <3>1, <3>3, FS_CardinalityType
      <3> QED
        BY <3>1, <3>3, <3>4, RegistryAssumption DEF RegistryAssumption
    <2>5. stable' \in [JobWorkers -> SUBSET Conns]
      BY <1>1 DEF TypeOK, StableAfterLeave
    <2> QED
      BY <1>1, <2>1, <2>2, <2>3, <2>4, <2>5 DEF TypeOK
  <1>4. /\ \A b2 \in Buckets : \A r2 \in RoomIds :
             b2 # b \/ r2 # r => rooms'[b2][r2] = rooms[b2][r2]
        /\ members[p] \ {c} = {} => rooms'[b][r] = Nil
        /\ members[p] \ {c} # {} => rooms'[b][r] = p
    BY <1>1, <1>2 DEF TypeOK
  <1>5. /\ \A q \in RoomPtrs : q # p => members'[q] = members[q]
        /\ members'[p] = members[p] \ {c}
    BY <1>1, <1>2 DEF TypeOK
  <1>6. /\ \A d \in Conns : d # c => connRooms'[d] = connRooms[d]
        /\ connRooms'[c] = connRooms[c] \ {r}
    BY <1>1 DEF TypeOK
  <1>7. \A b2 \in Buckets : \A r2 \in RoomIds :
          /\ rooms[b2][r2] \in RoomPtrs \cup {Nil}
          /\ b2 # b \/ r2 # r => rooms[b2][r2] # p
    BY <1>1 DEF IInv, TypeOK, RoomsDistinct
  <1>8. \A d \in Conns : BucketOf[d] \in Buckets
    BY RegistryAssumption DEF RegistryAssumption
  <1>9. p = rooms[b][r] /\ b = BucketOf[c]
    OBVIOUS
  <1>10. RegistryAgrees'
    <2> SUFFICES ASSUME NEW d \in Conns, NEW r2 \in RoomIds
                 PROVE  r2 \in connRooms'[d] <=>
                          /\ rooms'[BucketOf[d]][r2] # Nil
                          /\ d \in members'[rooms'[BucketOf[d]][r2]]
      BY DEF RegistryAgrees, InRoom, RoomOf
    <2>1. r2 \in connRooms[d] <=>
            rooms[BucketOf[d]][r2] # Nil /\ d \in members[rooms[BucketOf[d]][r2]]
      BY DEF IInv, RegistryAgrees, InRoom, RoomOf
    <2> HIDE DEF b, p
    <2>2. CASE BucketOf[d] = b /\ r2 = r
      <3>1. r2 \in connRooms'[d] <=> d # c /\ d \in members[p]
        BY <1>1, <1>6, <1>9, <2>1, <2>2
      <3> QED
        BY <1>1, <1>4, <1>5, <2>2, <3>1
    <2>3. CASE BucketOf[d] # b \/ r2 # r
      <3>1. r2 \in connRooms'[d] <=> r2 \in connRooms[d]
        BY <1>6, <1>9, <2>3
      <3>2. rooms'[BucketOf[d]][r2] = rooms[BucketOf[d]][r2]
        BY <1>4, <1>8, <2>3
      <3>3. rooms[BucketOf[d]][r2] # Nil =>
              members'[rooms[BucketOf[d]][r2]] = members[rooms[BucketOf[d]][r2]]
        BY <1>5, <1>7, <1>8, <2>3
      <3> QED
        BY <2>1, <3>1, <3>2, <3>3
    <2> QED
      BY <2>2, <2>3
  <1>11. EmptyRoomsFreed'
    <2> SUFFICES ASSUME NEW b2 \in Buckets, NEW r2 \in RoomIds, rooms'[b2][r2] # Nil
                 PROVE  members'[rooms'[b2][r2]] # {}
      BY DEF EmptyRoomsFreed
    <2>1. rooms[b2][r2] # Nil => members[rooms[b2][r2]] # {}
      BY DEF IInv, EmptyRoomsFreed
    <2> HIDE DEF b, p
    <2>2. CASE b2 = b /\ r2 = r
      BY <1>4, <1>5, <2>2
    <2>3. CASE b2 # b \/ r2 # r
      <3>1. rooms'[b2][r2] = rooms[b2][r2]
        BY <1>4, <2>3
      <3>2. members'[rooms[b2][r2]] = members[rooms[b2][r2]]
        BY <1>5, <1>7, <2>3, <3>1
      <3> QED
        BY <2>1, <3>1, <3>2
    <2> QED
      BY <2>2, <2>3
  <1>12. RoomsDistinct'
    <2>1. RoomsDistinct
      BY DEF IInv
    <2> HIDE DEF b, p
    <2>2. \A b2 \in Buckets : \A r2 \in RoomIds :
            rooms'[b2][r2] # Nil => rooms'[b2][r2] = rooms[b2][r2]
      BY <1>4, <1>9
    <2> QED
      BY <2>1, <2>2 DEF RoomsDistinct
  <1>13. MembersRegistered'
    <2> SUFFICES ASSUME NEW q \in RoomPtrs, NEW d \in members'[q]
                 PROVE  \E r2 \in RoomIds : rooms'[BucketOf[d]][r2] = q
      BY DEF MembersRegistered, RoomOf
    <2>1. d \in members[q] /\ d \in Conns
      BY <1>1, <1>5 DEF TypeOK
    <2>2. PICK r2 \in RoomIds : rooms[BucketOf[d]][r2] = q
      BY <2>1 DEF IInv, MembersRegistered, RoomOf
    <2> HIDE DEF b, p
    <2> QED
      BY <1>1, <1>4, <1>5, <1>8, <1>9, <2>1, <2>2
  <1>14. HandlersOwn'
    BY <1>1, <1>6 DEF IInv, HandlersOwn
  <1>15. FoundRoomKept'
    <2> SUFFICES ASSUME NEW w \in JobWorkers
                 PROVE  /\ held[w] = Nil => stable'[w] = {}
                        /\ stable'[w] # {} =>
                             /\ held[w] = rooms'[WorkerBucket[w]][target[w]]
                             /\ stable'[w] \subseteq members'[held[w]]
      BY DEF FoundRoomKept
    <2>1. stable'[w] = IF WorkerBucket[w] = b /\ target[w] = r
                       THEN stable[w] \ {c} ELSE stable[w]
      BY DEF StableAfterLeave
    <2>2. /\ held[w] = Nil => stable[w] = {}
          /\ stable[w] # {} => /\ held[w] = rooms[WorkerBucket[w]][target[w]]
                               /\ stable[w] \subseteq members[held[w]]
      BY DEF IInv, FoundRoomKept
    <2>3. WorkerBucket[w] \in Buckets /\ target[w] \in RoomIds /\ held[w] \in RoomPtrs \cup {Nil}
      BY <1>1, RegistryAssumption DEF TypeOK, RegistryAssumption
    <2> HIDE DEF b, p
    <2>4. CASE stable'[w] = {}
      BY <2>4
    <2>5. CASE stable'[w] # {} /\ WorkerBucket[w] = b /\ target[w] = r
      <3>1. held[w] = p /\ stable[w] \subseteq members[p]
        BY <1>9, <2>1, <2>2, <2>5
      <3>2. stable'[w] \subseteq members'[p] /\ members[p] \ {c} # {}
        BY <1>5, <2>1, <2>5, <3>1
      <3> QED
        BY <1>1, <1>4, <2>5, <3>1, <3>2
    <2>6. CASE stable'[w] # {} /\ (WorkerBucket[w] # b \/ target[w] # r)
      <3>1. /\ stable'[w] = stable[w] /\ held[w] # Nil
            /\ held[w] = rooms[WorkerBucket[w]][target[w]]
            /\ stable[w] \subseteq members[held[w]]
        BY <2>1, <2>2, <2>6
      <3>2. /\ rooms'[WorkerBucket[w]][target[w]] = held[w]
            /\ members'[held[w]] = members[held[w]]
        BY <1>4, <1>5, <1>7, <2>3, <2>6, <3>1
      <3> QED
        BY <3>1, <3>2
    <2> QED
      BY <2>4, <2>5, <2>6
  <1> QED
    BY <1>3, <1>10, <1>11, <1>12, <1>13, <1>14, <1>15 DEF IInv

\* A handler's join: the connection is new to the room, and the room is the one
\* registered, or one that nothing refers to and that has no members.
LEMMA JoinIInv ==
  ASSUME IInv, NEW c \in Conns, NEW r \in RoomIds, NEW p \in RoomPtrs,
         handler[c] = "serving",
         r \notin connRooms[c],
         Cardinality(connRooms[c]) < MaxJoinRoom,
         JoinRoom(c, r, p),
         connRooms' = [connRooms EXCEPT ![c] = @ \cup {r}],
         UNCHANGED <<handler, isClosed, id2Conn, held, target, stable>>
  PROVE  IInv'
  <1> DEFINE b == BucketOf[c]
  <1>1. TypeOK /\ b \in Buckets
    BY RegistryAssumption DEF IInv, RegistryAssumption
  <1>2. \/ rooms[b][r] = p
        \/ /\ rooms[b][r] = Nil
           /\ \A b2 \in Buckets : \A r2 \in RoomIds : rooms[b2][r2] # p
           /\ \A w \in JobWorkers : held[w] # p
           /\ members[p] = {}
    <2>1. CASE RoomOf(c, r) # Nil
      BY <2>1 DEF JoinRoom, Found, RoomOf
    <2>2. CASE RoomOf(c, r) = Nil
      <3>1. Collected(p)
        BY <2>2 DEF JoinRoom, Found
      <3>2. members[p] = {}
        <4>1. SUFFICES ASSUME NEW d \in members[p] PROVE FALSE
          OBVIOUS
        <4>2. \E r2 \in RoomIds : rooms[BucketOf[d]][r2] = p
          BY DEF IInv, MembersRegistered, RoomOf
        <4>3. d \in Conns
          BY <1>1 DEF TypeOK
        <4>4. BucketOf[d] \in Buckets
          BY <4>3, RegistryAssumption DEF RegistryAssumption
        <4> QED
          BY <3>1, <4>2, <4>4 DEF Collected
      <3> QED
        BY <2>2, <3>1, <3>2 DEF Collected, RoomOf
    <2> QED
      BY <2>1, <2>2
  <1>3. /\ rooms' = [rooms EXCEPT ![b][r] = p]
        /\ members' = [members EXCEPT ![p] = members[p] \cup {c}]
    <2>1. MembersFound(c, r, p) = members[p]
      <3>1. CASE rooms[b][r] = p
        <4>1. p # Nil
          BY RegistryAssumption DEF RegistryAssumption
        <4> QED
          BY <3>1, <4>1 DEF MembersFound, RoomOf
      <3>2. CASE rooms[b][r] = Nil /\ members[p] = {}
        BY <3>2 DEF MembersFound, RoomOf
      <3> QED
        BY <1>2, <3>1, <3>2
    <2> QED
      BY <2>1 DEF JoinRoom
  <1>4. /\ \A b2 \in Buckets : \A r2 \in RoomIds :
             b2 # b \/ r2 # r => rooms'[b2][r2] = rooms[b2][r2]
        /\ rooms'[b][r] = p
    BY <1>1, <1>3 DEF TypeOK
  <1>5. /\ \A q \in RoomPtrs : q # p => members'[q] = members[q]
        /\ members'[p] = members[p] \cup {c}
    BY <1>1, <1>3 DEF TypeOK
  <1>6. /\ \A d \in Conns : d # c => connRooms'[d] = connRooms[d]
        /\ connRooms'[c] = connRooms[c] \cup {r}
    BY <1>1 DEF TypeOK
  <1>7. \A b2 \in Buckets : \A r2 \in RoomIds :
          /\ rooms[b2][r2] \in RoomPtrs \cup {Nil}
          /\ b2 # b \/ r2 # r => rooms[b2][r2] # p
    <2>1. RoomsDistinct /\ p # Nil
      BY RegistryAssumption DEF IInv, RegistryAssumption
    <2> HIDE DEF b
    <2> QED
      BY <1>1, <1>2, <2>1 DEF TypeOK, RoomsDistinct
  <1>8. p # Nil /\ b = BucketOf[c] /\ \A d \in Conns : BucketOf[d] \in Buckets
    BY RegistryAssumption DEF RegistryAssumption
  <1>10. TypeOK'
    <2>1. members' \in [RoomPtrs -> SUBSET Conns]
      BY <1>1, <1>3 DEF TypeOK
    <2>2. rooms' \in [Buckets -> [RoomIds -> RoomPtrs \cup {Nil}]]
      BY <1>1, <1>3 DEF TypeOK
    <2>3. connRooms' \in [Conns -> SUBSET RoomIds]
      BY <1>1 DEF TypeOK
    <2>4. \A d \in Conns : IsFiniteSet(connRooms'[d]) /\ Cardinality(connRooms'[d]) <= MaxJoinRoom
      <3>1. \A d \in Conns : IsFiniteSet(connRooms[d]) /\ Cardinality(connRooms[d]) <= MaxJoinRoom
        BY <1>1 DEF TypeOK
      <3>2. /\ IsFiniteSet(connRooms[c] \cup {r})
            /\ Cardinality(connRooms[c] \cup {r}) = Cardinality(connRooms[c]) + 1
        BY <3>1, FS_AddElement
      <3>3. Cardinality(connRooms[c]) \in Nat
        BY <3>1, FS_CardinalityType
      <3>4. Cardinality(connRooms'[c]) <= MaxJoinRoom
        <4> DEFINE n == Cardinality(connRooms[c])
        <4>1. Cardinality(connRooms'[c]) = n + 1
          BY <1>6, <3>2
        <4>2. n \in Nat /\ MaxJoinRoom \in Nat /\ n < MaxJoinRoom
          BY <3>3, RegistryAssumption DEF RegistryAssumption
        <4> HIDE DEF n
        <4>3. n + 1 <= MaxJoinRoom
          BY <4>2
        <4> QED
          BY <4>1, <4>3
      <3> QED
        BY <1>6, <3>1, <3>2, <3>4
    <2> QED
      BY <1>1, <2>1, <2>2, <2>3, <2>4 DEF TypeOK
  <1>11. RegistryAgrees'
    <2> SUFFICES ASSUME NEW d \in Conns, NEW r2 \in RoomIds
                 PROVE  r2 \in connRooms'[d] <=>
                          /\ rooms'[BucketOf[d]][r2] # Nil
                          /\ d \in members'[rooms'[BucketOf[d]][r2]]
      BY DEF RegistryAgrees, InRoom, RoomOf
    <2>1. r2 \in connRooms[d] <=>
            rooms[BucketOf[d]][r2] # Nil /\ d \in members[rooms[BucketOf[d]][r2]]
      BY DEF IInv, RegistryAgrees, InRoom, RoomOf
    <2> HIDE DEF b
    <2>2. CASE BucketOf[d] = b /\ r2 = r
      <3>1. r2 \in connRooms[d] <=> d \in members[p]
        <4>1. r2 \in connRooms[d] <=> rooms[b][r] # Nil /\ d \in members[rooms[b][r]]
          BY <2>1, <2>2
        <4>2. CASE rooms[b][r] = p
          BY <1>8, <4>1, <4>2
        <4>3. CASE rooms[b][r] = Nil /\ members[p] = {}
          BY <4>1, <4>3
        <4> QED
          BY <1>2, <4>2, <4>3
      <3>2. r2 \in connRooms'[d] <=> d = c \/ d \in members[p]
        BY <1>6, <2>2, <3>1
      <3> QED
        BY <1>4, <1>5, <1>8, <2>2, <3>2
    <2>3. CASE BucketOf[d] # b \/ r2 # r
      <3>1. r2 \in connRooms'[d] <=> r2 \in connRooms[d]
        BY <1>6, <1>8, <2>3
      <3>2. rooms'[BucketOf[d]][r2] = rooms[BucketOf[d]][r2]
        BY <1>4, <1>8, <2>3
      <3>3. rooms[BucketOf[d]][r2] # Nil =>
              members'[rooms[BucketOf[d]][r2]] = members[rooms[BucketOf[d]][r2]]
        BY <1>5, <1>7, <1>8, <2>3
      <3> QED
        BY <2>1, <3>1, <3>2, <3>3
    <2> QED
      BY <2>2, <2>3
  <1>12. EmptyRoomsFreed'
    <2> SUFFICES ASSUME NEW b2 \in Buckets, NEW r2 \in RoomIds, rooms'[b2][r2] # Nil
                 PROVE  members'[rooms'[b2][r2]] # {}
      BY DEF EmptyRoomsFreed
    <2>1. rooms[b2][r2] # Nil => members[rooms[b2][r2]] # {}
      BY DEF IInv, EmptyRoomsFreed
    <2> HIDE DEF b
    <2>2. CASE b2 = b /\ r2 = r
      BY <1>4, <1>5, <2>2
    <2>3. CASE b2 # b \/ r2 # r
      <3>1. rooms'[b2][r2] = rooms[b2][r2]
        BY <1>4, <2>3
      <3>2. members'[rooms[b2][r2]] = members[rooms[b2][r2]]
        BY <1>5, <1>7, <2>3, <3>1
      <3> QED
        BY <2>1, <3>1, <3>2
    <2> QED
      BY <2>2, <2>3
  <1>13. RoomsDistinct'
    <2>1. RoomsDistinct
      BY DEF IInv
    <2> HIDE DEF b
    <2> QED
      BY <1>4, <1>7, <2>1 DEF RoomsDistinct
  <1>14. MembersRegistered'
    <2> SUFFICES ASSUME NEW q \in RoomPtrs, NEW d \in members'[q]
                 PROVE  \E r2 \in RoomIds : rooms'[BucketOf[d]][r2] = q
      BY DEF MembersRegistered, RoomOf
    <2>1. CASE q = p /\ d = c
      BY <1>4, <1>8, <2>1
    <2>2. CASE ~(q = p /\ d = c)
      <3>1. d \in members[q] /\ d \in Conns
        BY <1>1, <1>5, <2>2 DEF TypeOK
      <3>2. PICK r2 \in RoomIds : rooms[BucketOf[d]][r2] = q
        BY <3>1 DEF IInv, MembersRegistered, RoomOf
      <3>3. rooms'[BucketOf[d]][r2] = q
        <4> HIDE DEF b
        <4>1. CASE BucketOf[d] = b /\ r2 = r
          <5>1. rooms[b][r] = q /\ q # Nil
            BY <3>2, <4>1, RegistryAssumption DEF RegistryAssumption
          <5> QED
            BY <1>2, <1>4, <4>1, <5>1
        <4>2. CASE BucketOf[d] # b \/ r2 # r
          BY <1>4, <1>8, <3>1, <3>2, <4>2
        <4> QED
          BY <4>1, <4>2
      <3> QED
        BY <3>3
    <2> QED
      BY <2>1, <2>2
  <1>15. HandlersOwn'
    BY <1>6 DEF IInv, HandlersOwn
  <1>16. FoundRoomKept'
    <2> SUFFICES ASSUME NEW w \in JobWorkers
                 PROVE  /\ held[w] = Nil => stable[w] = {}
                        /\ stable[w] # {} =>
                             /\ held[w] = rooms'[WorkerBucket[w]][target[w]]
                             /\ stable[w] \subseteq members'[held[w]]
      BY DEF FoundRoomKept
    <2>1. /\ held[w] = Nil => stable[w] = {}
          /\ stable[w] # {} => /\ held[w] = rooms[WorkerBucket[w]][target[w]]
                               /\ stable[w] \subseteq members[held[w]]
      BY DEF IInv, FoundRoomKept
    <2>2. WorkerBucket[w] \in Buckets /\ target[w] \in RoomIds /\ held[w] \in RoomPtrs \cup {Nil}
      BY <1>1, RegistryAssumption DEF TypeOK, RegistryAssumption
    <2> HIDE DEF b
    <2>3. CASE stable[w] = {}
      BY <2>3
    <2>4. CASE stable[w] # {}
      <3>1. held[w] \in RoomPtrs /\ held[w] = rooms[WorkerBucket[w]][target[w]]
        BY <2>1, <2>2, <2>4
      <3>2. members[held[w]] \subseteq members'[held[w]]
        BY <1>5, <3>1
      <3>3. rooms'[WorkerBucket[w]][target[w]] = held[w]
        <4>1. CASE WorkerBucket[w] = b /\ target[w] = r
          <5>1. held[w] = rooms[b][r] /\ held[w] # Nil
            BY <2>1, <2>4, <3>1, <4>1
          <5>2. held[w] = p
            BY <1>2, <5>1
          <5> QED
            BY <1>4, <4>1, <5>2
        <4>2. CASE WorkerBucket[w] # b \/ target[w] # r
          BY <1>4, <2>2, <3>1, <4>2
        <4> QED
          BY <4>1, <4>2
      <3> QED
        BY <2>1, <2>4, <3>1, <3>2, <3>3
    <2> QED
      BY <2>3, <2>4
  <1> QED
    BY <1>10, <1>11, <1>12, <1>13, <1>14, <1>15, <1>16 DEF IInv

\* handleJoin: a request that is not ignored is one of a connection that is not
\* in the room, so the error JoinRoomTwice never arises.
LEMMA HandleJoinIInv ==
  ASSUME IInv, NEW c \in Conns, NEW r \in RoomIds, HandleJoin(c, r) PROVE IInv'
  <1>1. PICK p \in RoomPtrs :
          /\ JoinRoom(c, r, p)
          /\ IF c \in MembersFound(c, r, p)
             THEN /\ handler' = [handler EXCEPT ![c] = "leaving"]
                  /\ isClosed' = [isClosed EXCEPT ![c] = TRUE]
                  /\ UNCHANGED connRooms
             ELSE /\ connRooms' = [connRooms EXCEPT ![c] = @ \cup {r}]
                  /\ UNCHANGED <<handler, isClosed>>
    BY DEF HandleJoin
  <1>2. /\ handler[c] = "serving"
        /\ r \notin connRooms[c]
        /\ ~(Cardinality(connRooms[c]) >= MaxJoinRoom)
        /\ UNCHANGED <<id2Conn, held, target, stable>>
    BY DEF HandleJoin, JoinIgnored
  <1>3. Cardinality(connRooms[c]) < MaxJoinRoom
    <2>1. IsFiniteSet(connRooms[c])
      BY DEF IInv, TypeOK
    <2>2. Cardinality(connRooms[c]) \in Nat
      BY <2>1, FS_CardinalityType
    <2> DEFINE n == Cardinality(connRooms[c])
    <2>3. n \in Nat /\ ~(n >= MaxJoinRoom)
      BY <1>2, <2>2
    <2> HIDE DEF n
    <2>4. n < MaxJoinRoom
      BY <2>3, RegistryAssumption DEF RegistryAssumption
    <2> QED
      BY <2>4 DEF n
  <1>4. c \notin MembersFound(c, r, p)
    <2>1. ~InRoom(c, r)
      BY <1>2 DEF IInv, RegistryAgrees
    <2>2. CASE RoomOf(c, r) = Nil
      BY <2>2 DEF MembersFound
    <2>3. CASE RoomOf(c, r) # Nil
      BY <1>1, <2>1, <2>3 DEF MembersFound, InRoom, JoinRoom, Found
    <2> QED
      BY <2>2, <2>3
  <1>5. connRooms' = [connRooms EXCEPT ![c] = @ \cup {r}] /\ UNCHANGED <<handler, isClosed>>
    BY <1>1, <1>4
  <1> QED
    BY <1>1, <1>2, <1>3, <1>5, JoinIInv

\* handleLeave: a request that is not ignored is one of a member, so the error
\* NotInRoom never arises.
LEMMA HandleLeaveIInv ==
  ASSUME IInv, NEW c \in Conns, NEW r \in RoomIds, HandleLeave(c, r) PROVE IInv'
  <1>1. /\ handler[c] \in {"serving", "leaving"}
        /\ r \in connRooms[c]
        /\ LeaveRoom(c, r)
        /\ stable' = StableAfterLeave(c, r)
        /\ UNCHANGED <<id2Conn, held, target>>
    BY DEF HandleLeave
  <1>2. InRoom(c, r)
    BY <1>1 DEF IInv, RegistryAgrees
  <1>3. connRooms' = [connRooms EXCEPT ![c] = @ \ {r}] /\ UNCHANGED <<handler, isClosed>>
    BY <1>2 DEF HandleLeave
  <1> QED
    BY <1>1, <1>3, LeaveIInv

\* One step of leaveAll.
LEMMA LeaveNextIInv ==
  ASSUME IInv, NEW c \in Conns, NEW r \in RoomIds, LeaveNext(c, r) PROVE IInv'
  <1>1. /\ handler[c] \in {"serving", "leaving"}
        /\ r \in connRooms[c]
        /\ LeaveRoom(c, r)
        /\ stable' = StableAfterLeave(c, r)
        /\ connRooms' = [connRooms EXCEPT ![c] = @ \ {r}]
        /\ UNCHANGED <<handler, isClosed, id2Conn, held, target>>
    BY DEF LeaveNext
  <1> QED
    BY <1>1, LeaveIInv

\* The steps of a handler that change no room: it starts, its connection is
\* closed, it leaves its loop, or it ends.
LEMMA HandlerIInv ==
  ASSUME IInv, NEW c \in Conns,
         Connect(c) \/ CloseConn(c) \/ Return(c) \/ Disconnect(c)
  PROVE  IInv'
  <1>1. TypeOK /\ HandlersOwn /\ FoundRoomKept /\ BucketOf[c] \in Buckets
    BY RegistryAssumption DEF IInv, RegistryAssumption
  <1>2. UNCHANGED <<connRooms, rooms, members, held, target, stable>>
    BY DEF Connect, CloseConn, Return, Disconnect
  <1>3. Rooms4'
    BY <1>2, RoomsKept
  <1>4. TypeOK'
    <2>1. handler' \in [Conns -> {"new", "serving", "leaving", "done"}]
      BY <1>1 DEF TypeOK, Connect, CloseConn, Return, Disconnect
    <2>2. isClosed' \in [Conns -> BOOLEAN]
      <3>1. isClosed' = isClosed \/ isClosed' = [isClosed EXCEPT ![c] = TRUE]
        BY DEF Connect, CloseConn, Return, Disconnect
      <3> QED
        BY <1>1, <3>1, Zenon DEF TypeOK
    <2>3. id2Conn' \in [Buckets -> SUBSET Conns]
      BY <1>1 DEF TypeOK, Connect, CloseConn, Return, Disconnect
    <2> QED
      BY <1>1, <1>2, <2>1, <2>2, <2>3 DEF TypeOK
  <1>5. HandlersOwn'
    <2> SUFFICES ASSUME NEW d \in Conns
                 PROVE  IF handler'[d] \in {"serving", "leaving"}
                        THEN d \in id2Conn'[BucketOf[d]]
                        ELSE connRooms'[d] = {}
      BY DEF HandlersOwn
    <2>1. BucketOf[d] \in Buckets
      BY RegistryAssumption DEF RegistryAssumption
    <2>2. /\ id2Conn \in [Buckets -> SUBSET Conns]
          /\ handler \in [Conns -> {"new", "serving", "leaving", "done"}]
      BY <1>1 DEF TypeOK
    <2>3. CASE Connect(c)
      BY <1>1, <1>2, <2>1, <2>2, <2>3 DEF HandlersOwn, Connect
    <2>4. CASE CloseConn(c)
      BY <1>1, <1>2, <2>4 DEF HandlersOwn, CloseConn
    <2>5. CASE Return(c)
      BY <1>1, <1>2, <2>2, <2>5 DEF HandlersOwn, Return
    <2>6. CASE Disconnect(c)
      BY <1>1, <1>2, <2>1, <2>2, <2>6 DEF HandlersOwn, Disconnect
    <2> QED
      BY <2>3, <2>4, <2>5, <2>6
  <1>6. FoundRoomKept'
    BY <1>1, <1>2 DEF FoundRoomKept
  <1> QED
    BY <1>3, <1>4, <1>5, <1>6 DEF IInv, Rooms4

\* A job worker looks a room up: whoever is in it now is stable.
LEMMA PushRoomLookupIInv ==
  ASSUME IInv, NEW w \in JobWorkers, NEW r \in RoomIds, PushRoomLookup(w, r)
  PROVE  IInv'
  <1> DEFINE p == rooms[WorkerBucket[w]][r]
  <1>1. TypeOK /\ HandlersOwn /\ FoundRoomKept /\ WorkerBucket[w] \in Buckets
    BY RegistryAssumption DEF IInv, RegistryAssumption
  <1>2. /\ p \in RoomPtrs
        /\ held' = [held EXCEPT ![w] = p]
        /\ target' = [target EXCEPT ![w] = r]
        /\ stable' = [stable EXCEPT ![w] = members[p]]
        /\ UNCHANGED <<handler, isClosed, connRooms, id2Conn, rooms, members>>
    BY <1>1 DEF PushRoomLookup, TypeOK
  <1>3. Rooms4'
    BY <1>2, RoomsKept
  <1>4. TypeOK'
    <2>1. held' \in [JobWorkers -> RoomPtrs \cup {Nil}]
      BY <1>1, <1>2 DEF TypeOK
    <2>2. target' \in [JobWorkers -> RoomIds] /\ stable' \in [JobWorkers -> SUBSET Conns]
      BY <1>1, <1>2 DEF TypeOK
    <2> QED
      BY <1>1, <1>2, <2>1, <2>2 DEF TypeOK
  <1>5. HandlersOwn'
    BY <1>1, <1>2 DEF HandlersOwn
  <1>6. FoundRoomKept'
    BY <1>1, <1>2, RegistryAssumption DEF TypeOK, FoundRoomKept, RegistryAssumption
  <1> QED
    BY <1>3, <1>4, <1>5, <1>6 DEF IInv, Rooms4

\* The job worker has pushed and forgets the room.
LEMMA PushRoomSendIInv ==
  ASSUME IInv, NEW w \in JobWorkers, PushRoomSend(w) PROVE IInv'
  <1>1. TypeOK /\ HandlersOwn /\ FoundRoomKept
    BY DEF IInv
  <1>2. /\ held' = [held EXCEPT ![w] = Nil]
        /\ stable' = [stable EXCEPT ![w] = {}]
        /\ UNCHANGED <<handler, isClosed, connRooms, id2Conn, rooms, members, target>>
    BY DEF PushRoomSend
  <1>3. Rooms4'
    BY <1>2, RoomsKept
  <1>4. TypeOK'
    BY <1>1, <1>2 DEF TypeOK
  <1>5. HandlersOwn'
    BY <1>1, <1>2 DEF HandlersOwn
  <1>6. FoundRoomKept'
    BY <1>1, <1>2 DEF TypeOK, FoundRoomKept
  <1> QED
    BY <1>3, <1>4, <1>5, <1>6 DEF IInv, Rooms4

\* Every step preserves the invariant.
LEMMA Inductive == IInv /\ [Next]_vars => IInv'
  <1> SUFFICES ASSUME IInv, [Next]_vars PROVE IInv'
    OBVIOUS
  <1>1. ASSUME NEW c \in Conns, Connect(c) \/ CloseConn(c) \/ BadRequest(c) PROVE IInv'
    BY <1>1, HandlerIInv DEF BadRequest
  <1>2. ASSUME NEW c \in Conns, HandlerStep(c) PROVE IInv'
    BY <1>2, HandlerIInv, LeaveNextIInv DEF HandlerStep, ReadFails
  <1>3. ASSUME NEW c \in Conns, NEW r \in RoomIds, HandleJoin(c, r) \/ HandleLeave(c, r)
        PROVE  IInv'
    BY <1>3, HandleJoinIInv, HandleLeaveIInv
  <1>4. ASSUME NEW w \in JobWorkers, PushRoomSend(w) PROVE IInv'
    BY <1>4, PushRoomSendIInv
  <1>5. ASSUME NEW w \in JobWorkers, NEW r \in RoomIds, PushRoomLookup(w, r) PROVE IInv'
    BY <1>5, PushRoomLookupIInv
  <1>6. CASE UNCHANGED vars
    BY <1>6 DEF IInv, TypeOK, RegistryAgrees, EmptyRoomsFreed, RoomsDistinct,
                MembersRegistered, HandlersOwn, FoundRoomKept, InRoom, RoomOf, vars
  <1> QED
    BY <1>1, <1>2, <1>3, <1>4, <1>5, <1>6 DEF Next

\* The inductive invariant of the registry holds in every reachable state.
THEOREM InvariantHolds == Spec => []IInv
  BY InitIInv, Inductive, PTL DEF Spec

\* Type correctness: every pointer to a Room object a handler or a push holds is
\* one that was allocated, and the room set of a connection is bounded
\* (handler.go:137-162, bucket.go, room.go).
THEOREM TypeCorrect == Spec => []TypeOK
  <1>1. IInv => TypeOK
    BY DEF IInv
  <1> QED
    BY <1>1, InvariantHolds, PTL

\* The room set a connection keeps and the member sets of the rooms agree, so
\* neither JoinRoomTwice nor NotInRoom ever ends a handler.
THEOREM RegistryAlwaysAgrees == Spec => []RegistryAgrees
  <1>1. IInv => RegistryAgrees
    BY DEF IInv
  <1> QED
    BY <1>1, InvariantHolds, PTL

\* Rooms without members are dropped from their bucket.
THEOREM EmptyRoomsAlwaysFreed == Spec => []EmptyRoomsFreed
  <1>1. IInv => EmptyRoomsFreed
    BY DEF IInv
  <1> QED
    BY <1>1, InvariantHolds, PTL

\* A member of a Room object, registered or not, is a connection in its bucket
\* whose handler still has to leave that room.
THEOREM NoMemberIsGhost == Spec => []NoGhostMember
  <1>1. IInv => NoGhostMember
    <2> SUFFICES ASSUME IInv, NEW c \in Conns, NEW p \in RoomPtrs, c \in members[p]
                 PROVE  /\ handler[c] \in {"serving", "leaving"}
                        /\ c \in id2Conn[BucketOf[c]]
                        /\ \E r \in connRooms[c] : RoomOf(c, r) = p
      BY DEF NoGhostMember
    <2>1. PICK r \in RoomIds : RoomOf(c, r) = p
      BY DEF IInv, MembersRegistered
    <2>2. p # Nil
      BY RegistryAssumption DEF RegistryAssumption
    <2>3. r \in connRooms[c]
      BY <2>1, <2>2 DEF IInv, RegistryAgrees, InRoom
    <2>4. handler[c] \in {"serving", "leaving"} /\ c \in id2Conn[BucketOf[c]]
      BY <2>3 DEF IInv, HandlersOwn
    <2> QED
      BY <2>1, <2>3, <2>4
  <1> QED
    BY <1>1, InvariantHolds, PTL

\* A push by way of a room pointer looked up earlier reaches everyone who has
\* stayed in the room since.
THEOREM StableMembersAlwaysReached == Spec => []StableMembersReached
  <1>1. IInv => StableMembersReached
    BY DEF IInv, FoundRoomKept, StableMembersReached
  <1> QED
    BY <1>1, InvariantHolds, PTL

\* No connection is ever a member of more than MaxJoinRoom rooms.
THEOREM JoinLimitHolds == Spec => []JoinLimit
  <1>1. IInv => JoinLimit
    <2> SUFFICES ASSUME IInv, NEW c \in Conns
                 PROVE  Cardinality({r \in RoomIds : InRoom(c, r)}) <= MaxJoinRoom
      BY DEF JoinLimit
    <2>1. connRooms[c] \subseteq RoomIds /\ Cardinality(connRooms[c]) <= MaxJoinRoom
      BY DEF IInv, TypeOK
    <2>2. {r \in RoomIds : InRoom(c, r)} = connRooms[c]
      BY <2>1 DEF IInv, RegistryAgrees
    <2> QED
      BY <2>1, <2>2
  <1> QED
    BY <1>1, InvariantHolds, PTL
=============================================================================
