--------------------------- MODULE RoomFeed_proofs ---------------------------
(***************************************************************************)
(* The queue per room delivers every message at most once, in order, and   *)
(* forgets none, for any number of rooms and messages and any batch size.  *)
(***************************************************************************)
EXTENDS RoomFeed, SequenceTheorems, TLAPS

\* The places of a concatenation.
LEMMA ConcatPlaces ==
  ASSUME NEW S, NEW s \in Seq(S), NEW t \in Seq(S)
  PROVE  /\ s \o t \in Seq(S)
         /\ Len(s) \in Nat /\ Len(t) \in Nat /\ Len(s \o t) = Len(s) + Len(t)
         /\ DOMAIN s = 1..Len(s) /\ DOMAIN t = 1..Len(t)
         /\ DOMAIN (s \o t) = 1..(Len(s) + Len(t))
         /\ \A i \in 1..Len(s) : (s \o t)[i] = s[i]
         /\ \A i \in 1..Len(t) : (s \o t)[Len(s) + i] = t[i]
         /\ \A i \in 1..(Len(s) + Len(t)) :
              \/ i \in 1..Len(s)
              \/ \E j \in 1..Len(t) : i = Len(s) + j
  <1>1. /\ s \o t \in Seq(S)
        /\ Len(s) \in Nat /\ Len(t) \in Nat /\ Len(s \o t) = Len(s) + Len(t)
        /\ DOMAIN s = 1..Len(s) /\ DOMAIN t = 1..Len(t)
        /\ DOMAIN (s \o t) = 1..(Len(s) + Len(t))
    OBVIOUS
  <1>2. \A i \in 1..Len(s) : (s \o t)[i] = s[i]
    OBVIOUS
  <1>3. \A i \in 1..Len(t) : (s \o t)[Len(s) + i] = t[i]
    BY <1>1
  <1>4. ASSUME NEW i \in 1..(Len(s) + Len(t)), i \notin 1..Len(s)
        PROVE  \E j \in 1..Len(t) : i = Len(s) + j
    <2>1. i - Len(s) \in 1..Len(t) /\ i = Len(s) + (i - Len(s))
      BY <1>1, <1>4
    <2> QED
      BY <2>1
  <1> QED
    BY <1>1, <1>2, <1>3, <1>4

\* A sequence whose elements increase keeps them increasing, and loses the
\* elements of the part, when a part in the middle is cut out.
LEMMA CutMiddle ==
  ASSUME NEW S \in SUBSET Nat, NEW h \in Seq(S), NEW s \in Seq(S), NEW t \in Seq(S),
         \A i, j \in DOMAIN (h \o (s \o t)) :
           i < j => (h \o (s \o t))[i] < (h \o (s \o t))[j]
  PROVE  /\ \A i, j \in DOMAIN (h \o t) : i < j => (h \o t)[i] < (h \o t)[j]
         /\ Range(s) \cap (Range(h) \cup Range(t)) = {}
  <1> DEFINE a == Len(h)
             m == Len(s)
             c == Len(t)
             mid == s \o t
             old == h \o mid
             new == h \o t
  <1>1. /\ a \in Nat /\ m \in Nat /\ c \in Nat
        /\ DOMAIN h = 1..a /\ DOMAIN s = 1..m /\ DOMAIN t = 1..c
        /\ mid \in Seq(S) /\ Len(mid) = m + c /\ DOMAIN mid = 1..(m + c)
        /\ DOMAIN new = 1..(a + c) /\ DOMAIN old = 1..(a + (m + c))
    <2>1. mid \in Seq(S) /\ Len(mid) = m + c /\ DOMAIN mid = 1..(m + c)
      BY ConcatPlaces
    <2> QED
      BY <2>1, ConcatPlaces
  <1>2. \A i \in 1..a : h[i] = old[i] /\ h[i] = new[i] /\ i \in 1..(a + (m + c))
    BY <1>1, ConcatPlaces
  <1>3. ASSUME NEW i \in 1..m
        PROVE  s[i] = old[a + i] /\ a + i \in 1..(a + (m + c))
    <2>1. i \in 1..(m + c) /\ mid[i] = s[i]
      BY <1>1, ConcatPlaces
    <2>2. old[a + i] = mid[i]
      BY <1>1, <2>1, ConcatPlaces
    <2> QED
      BY <1>1, <2>1, <2>2
  <1>4. ASSUME NEW i \in 1..c
        PROVE  /\ t[i] = old[a + (m + i)] /\ a + (m + i) \in 1..(a + (m + c))
               /\ t[i] = new[a + i]
    <2>1. m + i \in 1..(m + c) /\ mid[m + i] = t[i]
      BY <1>1, ConcatPlaces
    <2>2. old[a + (m + i)] = mid[m + i]
      BY <1>1, <2>1, ConcatPlaces
    <2>3. new[a + i] = t[i]
      BY <1>1, ConcatPlaces
    <2> QED
      BY <1>1, <2>1, <2>2, <2>3
  <1>5. \A i \in 1..(a + c) : i \in 1..a \/ \E j \in 1..c : i = a + j
    BY ConcatPlaces
  <1>6. \A i, j \in 1..(a + (m + c)) : i < j => old[i] < old[j]
    BY <1>1
  <1> HIDE DEF a, m, c, mid, old, new
  <1>7. ASSUME NEW i \in 1..(a + c), NEW j \in 1..(a + c), i < j
        PROVE  new[i] < new[j]
    <2>1. CASE i \in 1..a /\ j \in 1..a
      BY <1>2, <1>6, <1>7, <2>1
    <2>2. CASE i \in 1..a /\ \E y \in 1..c : j = a + y
      <3>1. PICK y \in 1..c : j = a + y
        BY <2>2
      <3>2. i < a + (m + y)
        BY <1>1, <2>2
      <3> QED
        BY <1>2, <1>4, <1>6, <2>2, <3>1, <3>2
    <2>3. CASE (\E x \in 1..c : i = a + x) /\ (\E y \in 1..c : j = a + y)
      <3>1. PICK x \in 1..c, y \in 1..c : i = a + x /\ j = a + y
        BY <2>3
      <3>2. a + (m + x) < a + (m + y)
        BY <1>1, <1>7, <3>1
      <3> QED
        BY <1>4, <1>6, <3>1, <3>2
    <2>4. CASE (\E x \in 1..c : i = a + x) /\ j \in 1..a
      BY <1>1, <1>7, <2>4
    <2> QED
      BY <1>5, <2>1, <2>2, <2>3, <2>4
  <1>8. ASSUME NEW i \in 1..m, NEW j \in 1..a PROVE s[i] # h[j]
    <2>1. old[j] < old[a + i]
      <3>1. j < a + i
        BY <1>1
      <3> QED
        BY <1>2, <1>3, <1>6, <3>1
    <2>2. h[j] \in Nat
      <3>1. j \in DOMAIN h
        BY <1>1
      <3>2. h[j] \in S
        BY <3>1
      <3> QED
        BY <3>2
    <2> QED
      BY <1>2, <1>3, <2>1, <2>2
  <1>9. ASSUME NEW i \in 1..m, NEW j \in 1..c PROVE s[i] # t[j]
    <2>1. old[a + i] < old[a + (m + j)]
      <3>1. a + i < a + (m + j)
        BY <1>1
      <3> QED
        BY <1>3, <1>4, <1>6, <3>1
    <2>2. s[i] \in Nat
      <3>1. i \in DOMAIN s
        BY <1>1
      <3>2. s[i] \in S
        BY <3>1
      <3> QED
        BY <3>2
    <2> QED
      BY <1>3, <1>4, <2>1, <2>2
  <1>10. Range(s) \cap (Range(h) \cup Range(t)) = {}
    BY <1>1, <1>8, <1>9 DEF Range
  <1> QED
    BY <1>1, <1>7, <1>10 DEF old, new, mid

FeedInv == FeedTypeOK /\ ExactlyOnce

\* What the type invariant says of one room's log.
LEMMA LogType ==
  ASSUME FeedTypeOK, NEW r \in Rooms
  PROVE  /\ received \in Nat
         /\ pending[r] \in Seq(1..received)
         /\ handed[r] \in Seq(1..received)
         /\ Log(r) \in Seq(1..received)
  <1>1. /\ received \in Nat
        /\ pending[r] \in Seq(1..received)
        /\ handed[r] \in Seq(1..received)
    BY DEF FeedTypeOK
  <1> QED
    BY <1>1 DEF Log

\* Initially nothing has been received.
LEMMA FeedInitInv == FeedInit => FeedInv
  <1> SUFFICES ASSUME FeedInit PROVE FeedInv
    OBVIOUS
  <1>1. FeedTypeOK
    BY DEF FeedInit, FeedTypeOK
  <1>2. \A r \in Rooms : Log(r) = <<>>
    BY DEF FeedInit, Log
  <1>3. InOrder
    BY <1>2 DEF InOrder
  <1>4. OnePlace
    BY DEF FeedInit, OnePlace
  <1> QED
    BY <1>1, <1>3, <1>4 DEF FeedInv, ExactlyOnce

\* The message received is newer than everything in its room's log.
LEMMA ReceiveInv == ASSUME FeedInv, NEW r \in Rooms, Receive(r) PROVE FeedInv'
  <1> DEFINE k == received + 1
  <1>1. FeedTypeOK /\ InOrder /\ OnePlace
    BY DEF FeedInv, ExactlyOnce
  <1>2. /\ received' = k
        /\ pending' = [pending EXCEPT ![r] = Append(@, k)]
        /\ handed' = handed /\ lost' = lost
    BY DEF Receive
  <1>3. received \in Nat /\ k \in Nat /\ 1..k = (1..received) \cup {k} /\ k \notin 1..received
    BY <1>1 DEF FeedTypeOK
  <1>4. FeedTypeOK'
    <2>1. \A s \in Seq(1..received) : s \in Seq(1..k)
      BY <1>3, SeqMonotonic
    <2>2. \A q \in Rooms : pending[q] \in Seq(1..k) /\ handed[q] \in Seq(1..k)
      BY <1>1, <2>1, LogType
    <2>3. k \in 1..k
      BY <1>3
    <2>4. Append(pending[r], k) \in Seq(1..k)
      BY <2>2, <2>3
    <2>5. pending' \in [Rooms -> Seq(1..k)] /\ handed' \in [Rooms -> Seq(1..k)]
      BY <1>1, <1>2, <2>2, <2>4 DEF FeedTypeOK
    <2>6. lost' \subseteq 1..k
      BY <1>1, <1>2, <1>3 DEF FeedTypeOK
    <2> QED
      BY <1>2, <1>3, <2>5, <2>6 DEF FeedTypeOK
  <1>5. \A q \in Rooms : q # r => Log(q)' = Log(q)
    BY <1>1, <1>2 DEF Log, FeedTypeOK
  <1>6. Log(r)' = Append(Log(r), k)
    <2>1. Log(r)' = handed[r] \o Append(pending[r], k)
      BY <1>1, <1>2 DEF Log, FeedTypeOK
    <2> DEFINE M == Nat
               h == handed[r]
               p == pending[r]
    <2>2. h \in Seq(M) /\ p \in Seq(M) /\ k \in M
      <3>1. 1..received \subseteq Nat
        BY <1>3
      <3> QED
        BY <1>1, <1>3, <3>1, LogType, SeqMonotonic
    <2> HIDE DEF k, M, h, p
    <2>3. h \o Append(p, k) = Append(h \o p, k)
      <3>1. <<k>> \in Seq(M) /\ h \o p \in Seq(M)
        BY <2>2
      <3>2. Append(p, k) = p \o <<k>> /\ Append(h \o p, k) = (h \o p) \o <<k>>
        BY <2>2, <3>1, AppendIsConcat
      <3>3. (h \o p) \o <<k>> = h \o (p \o <<k>>)
        BY <2>2, <3>1, ConcatAssociative
      <3> QED
        BY <3>2, <3>3
    <2> QED
      BY <2>1, <2>3 DEF Log, h, p
  <1>7. InOrder'
    <2> SUFFICES ASSUME NEW q \in Rooms, NEW i \in DOMAIN Log(q)', NEW j \in DOMAIN Log(q)',
                        i < j
                 PROVE  Log(q)'[i] < Log(q)'[j]
      BY DEF InOrder
    <2>1. CASE q # r
      BY <1>1, <1>5, <2>1 DEF InOrder
    <2>2. CASE q = r
      <3> DEFINE n == Len(Log(r))
      <3>1. Log(r) \in Seq(1..received) /\ n \in Nat /\ DOMAIN Log(r) = 1..n
        BY <1>1, LogType
      <3> HIDE DEF n, k
      <3>2. /\ i \in 1..(n + 1) /\ j \in 1..(n + 1) /\ i \in 1..n
            /\ Log(q)'[i] = Log(r)[i]
            /\ Log(q)'[j] = IF j = n + 1 THEN k ELSE Log(r)[j]
        BY <1>3, <1>6, <2>2, <3>1 DEF n
      <3>3. CASE j = n + 1
        <4>1. Log(r)[i] \in 1..received
          BY <3>1, <3>2, ElementOfSeq DEF n
        <4> QED
          BY <1>3, <3>2, <3>3, <4>1 DEF k
      <3>4. CASE j # n + 1
        <4>1. j \in DOMAIN Log(r) /\ i \in DOMAIN Log(r)
          BY <3>1, <3>2, <3>4
        <4> QED
          BY <1>1, <3>2, <3>4, <4>1 DEF InOrder
      <3> QED
        BY <3>3, <3>4
    <2> QED
      BY <2>1, <2>2
  <1>8. OnePlace'
    <2>1. Range(Log(r)') = Range(Log(r)) \cup {k}
      <3>1. 1..received \subseteq Nat
        BY <1>3
      <3>2. Log(r) \in Seq(Nat)
        BY <1>1, <3>1, LogType, SeqMonotonic
      <3>3. <<k>> \in Seq(Nat) /\ Range(<<k>>) = {k} /\ Log(r)' = Log(r) \o <<k>>
        BY <1>3, <1>6, <3>2, AppendIsConcat DEF Range
      <3>4. Range(Log(r) \o <<k>>) = Range(Log(r)) \cup Range(<<k>>)
        <4> DEFINE M == Nat
                   one == <<k>>
        <4>1. Log(r) \in Seq(M) /\ one \in Seq(M)
          BY <3>2, <3>3
        <4> HIDE DEF M, one
        <4>2. Range(Log(r) \o one) = Range(Log(r)) \cup Range(one)
          BY <4>1, RangeConcatenation
        <4> QED
          BY <4>2 DEF one
      <3> QED
        BY <3>3, <3>4
    <2>2. \A q \in Rooms : q # r => Range(Log(q)') = Range(Log(q))
      BY <1>5
    <2>3. \A q \in Rooms : k \notin Range(Log(q))
      BY <1>1, <1>3, LogType, RangeOfSeq
    <2>4. k \notin lost
      BY <1>1, <1>3 DEF FeedTypeOK
    <2> SUFFICES ASSUME NEW n \in 1..k
                 PROVE  LET homes == {q \in Rooms : n \in Range(Log(q)')}
                        IN  IF n \in lost THEN homes = {} ELSE \E q \in Rooms : homes = {q}
      BY <1>2 DEF OnePlace
    <2>5. CASE n = k
      <3>1. {q \in Rooms : n \in Range(Log(q)')} = {r}
        BY <2>1, <2>2, <2>3, <2>5
      <3> QED
        BY <2>4, <2>5, <3>1
    <2>6. CASE n \in 1..received
      <3>1. \A q \in Rooms : n \in Range(Log(q)') <=> n \in Range(Log(q))
        BY <1>3, <2>1, <2>2, <2>6
      <3>2. {q \in Rooms : n \in Range(Log(q)')} = {q \in Rooms : n \in Range(Log(q))}
        BY <3>1
      <3> QED
        BY <1>1, <2>6, <3>2 DEF OnePlace
    <2> QED
      BY <1>3, <2>5, <2>6
  <1> QED
    BY <1>4, <1>7, <1>8 DEF FeedInv, ExactlyOnce

\* A batch leaves the front of a room's queue: handed over, the log is what it
\* was; lost, the log has a gap, which leaves its order as it was.
LEMMA FlushInv == ASSUME FeedInv, NEW r \in Rooms, NEW n \in Nat, Flush(r, n) PROVE FeedInv'
  <1> DEFINE h == handed[r]
             s == SubSeq(pending[r], 1, n)
             t == SubSeq(pending[r], n + 1, Len(pending[r]))
             S == 1..received
  <1>1. FeedTypeOK /\ InOrder /\ OnePlace
    BY DEF FeedInv, ExactlyOnce
  <1>2. /\ n \in 0..Len(pending[r])
        /\ received' = received
        /\ pending' = [pending EXCEPT ![r] = t]
        /\ \/ handed' = [handed EXCEPT ![r] = h \o s] /\ lost' = lost
           \/ handed' = handed /\ lost' = lost \cup Range(s)
    <2>1. n <= Len(pending[r]) /\ Len(pending[r]) \in Nat
      BY <1>1, LogType DEF Flush
    <2>2. n \in 0..Len(pending[r])
      BY <2>1
    <2>3. /\ received' = received
          /\ pending' = [pending EXCEPT ![r] = t]
          /\ \/ handed' = [handed EXCEPT ![r] = h \o s] /\ lost' = lost
             \/ handed' = handed /\ lost' = lost \cup Range(s)
      BY DEF Flush
    <2> QED
      BY <2>2, <2>3
  <1>3. /\ h \in Seq(S) /\ pending[r] \in Seq(S)
        /\ s \in Seq(S) /\ t \in Seq(S) /\ s \o t = pending[r]
    <2>1. h \in Seq(S) /\ pending[r] \in Seq(S)
      BY <1>1, LogType
    <2> DEFINE p == pending[r]
    <2> HIDE DEF p, S
    <2>2. SubSeq(p, 1, n) \o SubSeq(p, n + 1, Len(p)) = SubSeq(p, 1, Len(p))
      <3>1. /\ Len(p) \in Nat /\ 1 \in 1..(Len(p) + 1) /\ n \in (1 - 1)..Len(p)
            /\ Len(p) \in n..Len(p)
        BY <1>2, <2>1 DEF p
      <3> QED
        BY <2>1, <3>1, ConcatAdjacentSubSeq DEF p
    <2>3. SubSeq(p, 1, Len(p)) = p
      BY <2>1, SubSeqFull DEF p
    <2>4. SubSeq(p, 1, n) \in Seq(S) /\ SubSeq(p, n + 1, Len(p)) \in Seq(S)
      BY <1>2, <2>1 DEF p
    <2> QED
      BY <2>1, <2>2, <2>3, <2>4 DEF p
  <1>4. Log(r) = h \o (s \o t) /\ Log(r) = (h \o s) \o t
    <2>1. Log(r) = h \o pending[r]
      BY DEF Log
    <2> HIDE DEF h, s, t, S
    <2>2. h \in Seq(S) /\ s \in Seq(S) /\ t \in Seq(S)
      BY <1>3
    <2>3. (h \o s) \o t = h \o (s \o t)
      BY <2>2, ConcatAssociative
    <2> QED
      BY <1>3, <2>1, <2>3
  <1>5. /\ received' = received /\ received \in Nat
        /\ handed \in [Rooms -> Seq(S)] /\ pending \in [Rooms -> Seq(S)]
        /\ lost \subseteq S
        /\ Range(s) \subseteq S
    BY <1>1, <1>2, <1>3, RangeOfSeq DEF FeedTypeOK
  <1>6. \A q \in Rooms : q # r => Log(q)' = Log(q)
    BY <1>2, <1>5 DEF Log
  <1> HIDE DEF s, t, h
  <1>7. FeedTypeOK'
    <2>1. pending' \in [Rooms -> Seq(S)]
      BY <1>2, <1>3, <1>5
    <2>2. handed' \in [Rooms -> Seq(S)]
      <3>1. h \o s \in Seq(S)
        BY <1>3
      <3> QED
        BY <1>2, <1>5, <3>1
    <2>3. lost' \subseteq S
      BY <1>2, <1>5
    <2> QED
      BY <1>5, <2>1, <2>2, <2>3 DEF FeedTypeOK
  <1>8. CASE handed' = [handed EXCEPT ![r] = h \o s] /\ lost' = lost
    <2>1. Log(r)' = Log(r)
      BY <1>2, <1>4, <1>5, <1>8 DEF Log
    <2>2. \A q \in Rooms : Log(q)' = Log(q)
      BY <1>6, <2>1
    <2>3. InOrder' /\ OnePlace'
      BY <1>1, <1>2, <1>8, <2>2 DEF InOrder, OnePlace
    <2> QED
      BY <1>7, <2>3 DEF FeedInv, ExactlyOnce
  <1>9. CASE handed' = handed /\ lost' = lost \cup Range(s)
    <2>1. Log(r)' = h \o t
      BY <1>2, <1>5, <1>9 DEF Log, h
    <2>2. S \in SUBSET Nat
      BY <1>5
    <2>3. \A i, j \in DOMAIN (h \o (s \o t)) :
            i < j => (h \o (s \o t))[i] < (h \o (s \o t))[j]
      BY <1>1, <1>4 DEF InOrder
    <2>4. /\ \A i, j \in DOMAIN (h \o t) : i < j => (h \o t)[i] < (h \o t)[j]
          /\ Range(s) \cap (Range(h) \cup Range(t)) = {}
      BY <1>3, <2>2, <2>3, CutMiddle
    <2>7. InOrder'
      BY <1>1, <1>6, <2>1, <2>4 DEF InOrder
    <2>8. /\ Range(Log(r)) = Range(h) \cup (Range(s) \cup Range(t))
          /\ Range(Log(r)') = Range(h) \cup Range(t)
      <3> HIDE DEF S
      <3>1. s \in Seq(S) /\ t \in Seq(S) /\ s \o t \in Seq(S)
        BY <1>3
      <3>2. Range(h \o (s \o t)) = Range(h) \cup Range(s \o t)
        BY <1>3, <3>1, RangeConcatenation
      <3>3. Range(s \o t) = Range(s) \cup Range(t)
        BY <3>1, RangeConcatenation
      <3>4. Range(h \o t) = Range(h) \cup Range(t)
        BY <1>3, RangeConcatenation
      <3> QED
        BY <1>4, <2>1, <3>2, <3>3, <3>4
    <2>9. OnePlace'
      <3> SUFFICES ASSUME NEW k \in S
                   PROVE  LET homes == {q \in Rooms : k \in Range(Log(q)')}
                          IN  IF k \in lost' THEN homes = {} ELSE \E q \in Rooms : homes = {q}
        BY <1>2 DEF OnePlace
      <3>1. LET homes == {q \in Rooms : k \in Range(Log(q))}
            IN  IF k \in lost THEN homes = {} ELSE \E q \in Rooms : homes = {q}
        BY <1>1 DEF OnePlace
      <3>2. CASE k \in Range(s)
        <4>1. {q \in Rooms : k \in Range(Log(q))} = {r}
          BY <2>8, <3>1, <3>2
        <4>2. \A q \in Rooms : k \notin Range(Log(q)')
          BY <1>6, <2>4, <2>8, <3>2, <4>1
        <4> QED
          BY <1>9, <3>2, <4>2
      <3>3. CASE k \notin Range(s)
        <4>1. \A q \in Rooms : k \in Range(Log(q)') <=> k \in Range(Log(q))
          BY <1>6, <2>8, <3>3
        <4>2. {q \in Rooms : k \in Range(Log(q)')} = {q \in Rooms : k \in Range(Log(q))}
          BY <4>1
        <4>3. k \in lost' <=> k \in lost
          BY <1>9, <3>3
        <4> QED
          BY <3>1, <4>2, <4>3
      <3> QED
        BY <3>2, <3>3
    <2> QED
      BY <1>7, <2>7, <2>9 DEF FeedInv, ExactlyOnce
  <1> QED
    BY <1>2, <1>8, <1>9

\* Every step preserves the invariant.
LEMMA FeedInductive == FeedInv /\ [FeedNext]_feedVars => FeedInv'
  <1> SUFFICES ASSUME FeedInv, [FeedNext]_feedVars PROVE FeedInv'
    OBVIOUS
  <1>1. ASSUME NEW r \in Rooms, Receive(r) PROVE FeedInv'
    BY <1>1, ReceiveInv
  <1>2. ASSUME NEW r \in Rooms, NEW n \in 1..MaxMergerBatchSize, Flush(r, n) PROVE FeedInv'
    BY <1>2, FlushInv
  <1>3. CASE UNCHANGED feedVars
    BY <1>3 DEF FeedInv, FeedTypeOK, ExactlyOnce, InOrder, OnePlace, Log, feedVars
  <1> QED
    BY <1>1, <1>2, <1>3 DEF FeedNext

\* No message of a room overtakes another, none is delivered twice, and none is
\* neither pending, handed over nor lost.
THEOREM FeedExactlyOnce == FeedSpec => []ExactlyOnce
  <1>1. FeedInv => ExactlyOnce
    BY DEF FeedInv
  <1> QED
    BY <1>1, FeedInitInv, FeedInductive, PTL DEF FeedSpec
=============================================================================
