-------------------------- MODULE Connection_proofs --------------------------
(***************************************************************************)
(* Proofs about Connection, for any number of requests and messages and    *)
(* any size of the two channels: closeChan is closed once, and both        *)
(* channels keep what they hold in order.                                  *)
(*                                                                         *)
(* The invariant splits in three.  The control part (who holds the mutex)  *)
(* is inductive on its own; the requests need of it that a closed          *)
(* closeChan means isClosed; the messages need of the requests that the    *)
(* handler has one when it replies.                                        *)
(***************************************************************************)
EXTENDS Connection, SequenceTheorems, TLAPS

Labels == CloseLabels \cup {"read", "enqueue", "select", "write", "start",
                            "handle", "reply", "leaveAll", "unborn"}

ControlInv ==
  /\ pc \in [Goroutines -> Labels]
  /\ mutex \in Goroutines \cup {Nobody}
  /\ closings \in Nat
  /\ peerGone \in BOOLEAN /\ socketClosed \in BOOLEAN /\ isClosed \in BOOLEAN
  /\ CloseGuarded

RequestInv ==
  /\ arrived \in 0..MaxRequests
  /\ inChan \in Seq(Request) /\ Len(inChan) <= WsInChannelSize
  /\ readerMessage \in Seq(Request) /\ Len(readerMessage) <= 1
  /\ request \in Seq(Request) /\ Len(request) <= 1
  /\ handled \in Seq(1..MaxRequests)
  /\ RequestsPlaced

MessageInv ==
  /\ pushes \in 0..MaxPushes
  /\ outChan \in Seq(Message) /\ Len(outChan) <= WsOutChannelSize
  /\ writerMessage \in Seq(Message) /\ Len(writerMessage) <= 1
  /\ accepted \in Seq(Message)
  /\ written \in Seq(Message)
  /\ MessagesPlaced

\* One more element at the end, which comes in a sequence of its own.
LEMMA ConcatOne ==
  ASSUME NEW S, NEW s \in Seq(S), NEW t \in Seq(S)
  PROVE  Len(t) = 1 =>
           /\ t[1] \in S
           /\ s \o t \in Seq(S)
           /\ Len(s) \in Nat /\ Len(s \o t) = Len(s) + 1
           /\ DOMAIN s = 1..Len(s) /\ DOMAIN (s \o t) = 1..(Len(s) + 1)
           /\ \A i \in 1..Len(s) : (s \o t)[i] = s[i]
           /\ (s \o t)[Len(s) + 1] = t[1]
  <1> DEFINE u == s \o t
             n == Len(s)
             m == Len(t)
  <1>1. /\ u \in Seq(S) /\ n \in Nat /\ Len(u) = n + m
        /\ DOMAIN s = 1..n /\ DOMAIN u = 1..(n + m) /\ \A i \in 1..n : u[i] = s[i]
        /\ \A i \in 1..m : u[n + i] = t[i]
    BY ConcatProperties, LenProperties
  <1>2. m \in Nat /\ \A i \in 1..m : t[i] \in S
    BY ElementOfSeq, LenProperties
  <1> HIDE DEF u, n, m
  <1>3. m = 1 => /\ t[1] \in S
                 /\ u \in Seq(S)
                 /\ n \in Nat /\ Len(u) = n + 1
                 /\ DOMAIN s = 1..n /\ DOMAIN u = 1..(n + 1)
                 /\ \A i \in 1..n : u[i] = s[i]
                 /\ u[n + 1] = t[1]
    BY <1>1, <1>2
  <1> QED
    BY <1>3 DEF u, n, m

\* A concatenation agrees with f where its two parts do.
LEMMA ConcatAgrees ==
  ASSUME NEW S, NEW s \in Seq(S), NEW t \in Seq(S), NEW f \in Seq(S),
         \A i \in 1..Len(s) : s[i] = f[i],
         \A i \in 1..Len(t) : t[i] = f[Len(s) + i]
  PROVE  /\ s \o t \in Seq(S) /\ Len(s \o t) = Len(s) + Len(t)
         /\ \A i \in 1..(Len(s) + Len(t)) : (s \o t)[i] = f[i]
  <1> DEFINE u == s \o t
             n == Len(s)
             m == Len(t)
  <1>1. /\ u \in Seq(S) /\ n \in Nat /\ Len(u) = n + m
        /\ \A i \in 1..n : u[i] = s[i]
        /\ \A i \in 1..m : u[n + i] = t[i]
        /\ \A i \in 1..(n + m) : i \in 1..n \/ \E j \in 1..m : i = n + j
    BY ConcatProperties, LenProperties
  <1>2. /\ \A i \in 1..n : s[i] = f[i]
        /\ \A i \in 1..m : t[i] = f[n + i]
    OBVIOUS
  <1> HIDE DEF u, n, m
  <1>3. \A i \in 1..(n + m) : u[i] = f[i]
    <2> SUFFICES ASSUME NEW i \in 1..(n + m) PROVE u[i] = f[i]
      OBVIOUS
    <2>1. CASE i \in 1..n
      BY <1>1, <1>2, <2>1
    <2>2. CASE i \notin 1..n
      <3>1. PICK j \in 1..m : i = n + j
        BY <1>1, <2>2
      <3> QED
        BY <1>1, <1>2, <3>1
    <2> QED
      BY <2>1, <2>2
  <1> QED
    BY <1>1, <1>3 DEF u, n, m

\* What the two orders need of the invariant.
LEMMA InvParts == IInv <=> ControlInv /\ RequestInv /\ MessageInv
  BY DEF IInv, TypeOK, ControlInv, RequestInv, MessageInv, Labels

\* At the start nothing is on its way and nobody is closing.
LEMMA InitIInv == Init => IInv
  <1> SUFFICES ASSUME Init PROVE IInv
    OBVIOUS
  <1>1. ControlInv
    <2>1. pc \in [Goroutines -> {"read", "select", "start", "unborn"}]
      BY DEF Init, Goroutines
    <2>2. /\ pc \in [Goroutines -> Labels] /\ pc["checker"] = "unborn"
          /\ \A g \in Goroutines : pc[g] \notin {"closeChan", "unlock"} /\ Nobody # g
      BY <2>1 DEF Init, Goroutines, Labels, CloseLabels, Nobody
    <2>3. /\ mutex = Nobody /\ closings = 0 /\ ~isClosed
          /\ isClosed \in BOOLEAN /\ peerGone \in BOOLEAN /\ socketClosed \in BOOLEAN
      BY DEF Init
    <2> QED
      BY <2>2, <2>3 DEF ControlInv, CloseGuarded
  <1>2. RequestInv
    BY ConnectionAssumption DEF Init, RequestInv, RequestsPlaced, Enqueued, NoMessage,
       ConnectionAssumption
  <1>3. MessageInv
    BY ConnectionAssumption DEF Init, MessageInv, MessagesPlaced, Dequeued, NoMessage,
       ConnectionAssumption
  <1> QED
    BY <1>1, <1>2, <1>3, InvParts
-----------------------------------------------------------------------------
(* Closing.                                                                *)

\* A goroutine that goes from one label outside the mutex to another.
LEMMA GoOutside ==
  ASSUME ControlInv, NEW g \in Goroutines, NEW l \in Labels,
         Goto(g, l), pc[g] \notin {"closeChan", "unlock", "unborn"},
         l \notin {"closeChan", "unlock", "start"},
         UNCHANGED <<mutex, isClosed, closings>>,
         peerGone' \in BOOLEAN, socketClosed' \in BOOLEAN
  PROVE  ControlInv'
  <1>1. pc' \in [Goroutines -> Labels] /\ \A h \in Goroutines : h # g => pc'[h] = pc[h]
    BY DEF Goto, ControlInv
  <1>2. pc'[g] = l
    BY DEF Goto, ControlInv
  <1>3. \A h \in Goroutines : pc'[h] \in {"closeChan", "unlock"} <=> mutex' = h
    <2> SUFFICES ASSUME NEW h \in Goroutines
                 PROVE  pc'[h] \in {"closeChan", "unlock"} <=> mutex' = h
      OBVIOUS
    <2>1. CASE h = g
      BY <1>2, <2>1 DEF ControlInv, CloseGuarded
    <2>2. CASE h # g
      BY <1>1, <2>2 DEF ControlInv, CloseGuarded
    <2> QED
      BY <2>1, <2>2
  <1>4. \A h \in Goroutines : pc'[h] = "closeChan" => ~isClosed
    BY <1>1, <1>2 DEF ControlInv, CloseGuarded
  <1>5. pc'["handler"] = "start" => pc'["checker"] = "unborn"
    BY <1>1, <1>2 DEF ControlInv, CloseGuarded, Goroutines
  <1> QED
    BY <1>1, <1>3, <1>4, <1>5 DEF ControlInv, CloseGuarded

\* Close and the mutex, whoever calls it.
LEMMA CloseControl == \A g \in Goroutines : ControlInv /\ Close(g) => ControlInv'
  <1> SUFFICES ASSUME NEW g \in Goroutines, ControlInv, Close(g) PROVE ControlInv'
    OBVIOUS
  <1>1. CASE CloseSocket(g)
    BY <1>1, GoOutside DEF CloseSocket, ControlInv, Labels, CloseLabels
  <1>2. CASE Lock(g)
    <2>1. PICK l \in {"unlock", "closeChan"} :
            pc' = [pc EXCEPT ![g] = l] /\ (l = "closeChan" => ~isClosed)
      BY <1>2 DEF Lock, Goto
    <2>2. /\ mutex = Nobody /\ mutex' = g
          /\ UNCHANGED <<peerGone, socketClosed, isClosed, closings>>
      BY <1>2 DEF Lock
    <2>3. /\ pc' \in [Goroutines -> Labels] /\ pc'[g] = l
          /\ \A h \in Goroutines : h # g => pc'[h] = pc[h]
      BY <2>1 DEF ControlInv, Labels, CloseLabels
    <2>4. \A h \in Goroutines : pc[h] \notin {"closeChan", "unlock"}
      BY <2>2 DEF ControlInv, CloseGuarded, Goroutines, Nobody
    <2>5. \A h \in Goroutines : pc'[h] \in {"closeChan", "unlock"} <=> mutex' = h
      BY <2>1, <2>2, <2>3, <2>4
    <2>6. \A h \in Goroutines : pc'[h] = "closeChan" => ~isClosed
      BY <2>1, <2>3, <2>4
    <2>7. pc'["handler"] = "start" => pc'["checker"] = "unborn"
      BY <1>2, <2>1, <2>3 DEF Lock, ControlInv, CloseGuarded, Goroutines
    <2> QED
      BY <2>2, <2>3, <2>5, <2>6, <2>7 DEF ControlInv, CloseGuarded
  <1>3. CASE CloseChan(g)
    <2>1. /\ pc[g] = "closeChan" /\ pc' = [pc EXCEPT ![g] = "unlock"]
          /\ isClosed' = TRUE /\ closings' = closings + 1
          /\ UNCHANGED <<mutex, peerGone, socketClosed>>
      BY <1>3 DEF CloseChan, Goto
    <2>2. /\ pc' \in [Goroutines -> Labels] /\ pc'[g] = "unlock"
          /\ \A h \in Goroutines : h # g => pc'[h] = pc[h]
      BY <2>1 DEF ControlInv, Labels, CloseLabels
    <2>3. /\ mutex = g /\ closings' = 1
          /\ \A h \in Goroutines : h # g => pc[h] \notin {"closeChan", "unlock"}
      BY <2>1 DEF ControlInv, CloseGuarded
    <2>4. pc'["handler"] = "start" => pc'["checker"] = "unborn"
      BY <2>1, <2>2 DEF ControlInv, CloseGuarded, Goroutines
    <2> QED
      BY <2>1, <2>2, <2>3, <2>4 DEF ControlInv, CloseGuarded
  <1>4. CASE Unlock(g)
    <2>1. PICK l \in {"leaveAll", "done"} : pc' = [pc EXCEPT ![g] = l]
      BY <1>4 DEF Unlock, Goto
    <2>2. /\ pc[g] = "unlock" /\ mutex' = Nobody
          /\ UNCHANGED <<peerGone, socketClosed, isClosed, closings>>
      BY <1>4 DEF Unlock
    <2>3. /\ pc' \in [Goroutines -> Labels] /\ pc'[g] = l
          /\ \A h \in Goroutines : h # g => pc'[h] = pc[h]
      BY <2>1 DEF ControlInv, Labels, CloseLabels
    <2>4. \A h \in Goroutines : h # g => pc[h] \notin {"closeChan", "unlock"}
      BY <2>2 DEF ControlInv, CloseGuarded
    <2>5. \A h \in Goroutines : pc'[h] \notin {"closeChan", "unlock"} /\ Nobody # h
      BY <2>3, <2>4 DEF Goroutines, Nobody
    <2>6. pc'["handler"] = "start" => pc'["checker"] = "unborn"
      BY <2>1, <2>2, <2>3 DEF ControlInv, CloseGuarded, Goroutines
    <2> QED
      BY <2>2, <2>3, <2>5, <2>6 DEF ControlInv, CloseGuarded
  <1> QED
    BY <1>1, <1>2, <1>3, <1>4 DEF Close

\* Types and closing are preserved by every step.
LEMMA ControlInductive == ControlInv /\ [Next]_vars => ControlInv'
  <1> SUFFICES ASSUME ControlInv, [Next]_vars PROVE ControlInv'
    OBVIOUS
  <1>g. {"reader", "writer", "handler", "checker"} = Goroutines
    BY DEF Goroutines
  <1>l. Labels = {"close", "lock", "closeChan", "unlock", "done", "read", "enqueue", "select",
                  "write", "start", "handle", "reply", "leaveAll", "unborn"}
    BY DEF Labels, CloseLabels
  <1>b. peerGone \in BOOLEAN /\ socketClosed \in BOOLEAN
    BY DEF ControlInv
  <1>s. CASE UNCHANGED <<pc, closeVars>> /\ peerGone' \in BOOLEAN
    BY <1>s DEF ControlInv, CloseGuarded, closeVars
  <1>1. ASSUME NEW type \in RequestTypes, ReadSocket(type) PROVE ControlInv'
    BY <1>1, <1>g, <1>l, <1>b, GoOutside DEF ReadSocket, closeVars
  <1>2. CASE Reader
    <2>1. CASE ReadSocketFails
      BY <2>1, <1>g, <1>l, <1>b, GoOutside DEF ReadSocketFails, closeVars
    <2>2. CASE Enqueue
      <3>1. \E l \in {"read", "done"} : Goto("reader", l)
        BY <2>2 DEF Enqueue
      <3> QED
        BY <2>2, <3>1, <1>g, <1>l, <1>b, GoOutside DEF Enqueue, closeVars
    <2> QED
      BY <1>2, <2>1, <2>2, <1>g, CloseControl DEF Reader
  <1>3. CASE WriteSocket
    BY <1>3, <1>g, <1>l, <1>b, GoOutside DEF WriteSocket, closeVars
  <1>4. CASE Writer
    <2>1. CASE TakeOut
      <3>1. \E l \in {"write", "done"} : Goto("writer", l)
        BY <2>1 DEF TakeOut
      <3> QED
        BY <2>1, <3>1, <1>g, <1>l, <1>b, GoOutside DEF TakeOut, closeVars
    <2>2. CASE WriteSocketFails
      BY <2>2, <1>g, <1>l, <1>b, GoOutside DEF WriteSocketFails, closeVars
    <2> QED
      BY <1>4, <2>1, <2>2, <1>g, CloseControl DEF Writer
  <1>5. CASE PushMessage
    BY <1>5, <1>b, <1>s DEF PushMessage
  <1>6. CASE Handler
    <2>1. CASE StartHandler
      <3>1. /\ pc["handler"] = "start"
            /\ pc' = [pc EXCEPT !["handler"] = "select", !["checker"] = "select"]
            /\ UNCHANGED <<peerGone, socketClosed, mutex, isClosed, closings>>
        BY <2>1 DEF StartHandler, closeVars
      <3>2. /\ pc["checker"] = "unborn" /\ pc \in [Goroutines -> Labels]
            /\ \A g \in Goroutines : pc[g] \in {"closeChan", "unlock"} <=> mutex = g
            /\ \A g \in Goroutines : pc[g] = "closeChan" => ~isClosed
        BY <3>1 DEF ControlInv, CloseGuarded
      <3>3. /\ pc' \in [Goroutines -> Labels]
            /\ \A g \in Goroutines :
                 pc'[g] = IF g \in {"handler", "checker"} THEN "select" ELSE pc[g]
        BY <3>1, <3>2, <1>l
      <3>4. /\ \A g \in Goroutines : pc'[g] \in {"closeChan", "unlock"} <=> mutex' = g
            /\ \A g \in Goroutines : pc'[g] = "closeChan" => ~isClosed
            /\ pc'["handler"] = "select"
        BY <3>1, <3>2, <3>3, <1>g
      <3> QED
        BY <3>1, <3>3, <3>4 DEF ControlInv, CloseGuarded
    <2>2. CASE ReadMessage
      <3>1. \E l \in {"handle", "close"} : Goto("handler", l)
        BY <2>2 DEF ReadMessage
      <3> QED
        BY <2>2, <3>1, <1>g, <1>l, <1>b, GoOutside DEF ReadMessage, closeVars
    <2>3. CASE Handle
      <3>1. \E l \in {"reply", "select", "close"} : Goto("handler", l)
        BY <2>3 DEF Handle
      <3> QED
        BY <2>3, <3>1, <1>g, <1>l, <1>b, GoOutside DEF Handle, closeVars
    <2>4. CASE Reply
      <3>1. \E l \in {"select", "close"} : Goto("handler", l)
        BY <2>4 DEF Reply
      <3> QED
        BY <2>4, <3>1, <1>g, <1>l, <1>b, GoOutside DEF Reply, closeVars
    <2>5. CASE LeaveAll
      BY <2>5, <1>g, <1>l, <1>b, GoOutside DEF LeaveAll, closeVars
    <2> QED
      BY <1>6, <2>1, <2>2, <2>3, <2>4, <2>5, <1>g, CloseControl DEF Handler
  <1>7. ASSUME NEW tooOld \in BOOLEAN, TimerFires(tooOld) PROVE ControlInv'
    BY <1>7, <1>g, <1>l, <1>b, GoOutside DEF TimerFires, closeVars
  <1>8. CASE Checker
    <2>1. CASE CheckerLeaves
      BY <2>1, <1>g, <1>l, <1>b, GoOutside DEF CheckerLeaves, closeVars
    <2> QED
      BY <1>7, <1>8, <2>1, <1>g, CloseControl DEF Checker
  <1>9. CASE PeerLeaves
    BY <1>9, <1>b, <1>s DEF PeerLeaves
  <1>10. CASE UNCHANGED vars
    BY <1>10, <1>b, <1>s DEF vars
  <1> QED
    BY <1>1, <1>2, <1>3, <1>4, <1>5, <1>6, <1>7, <1>8, <1>9, <1>10 DEF Next
-----------------------------------------------------------------------------
(* Steps that a part of the state does not notice.                         *)

\* A goroutine goes to label l.
LEMMA GoPointwise ==
  ASSUME ControlInv, NEW g \in Goroutines, NEW l, Goto(g, l)
  PROVE  pc'[g] = l /\ \A h \in Goroutines : h # g => pc'[h] = pc[h]
  BY DEF Goto, ControlInv

\* Closing moves neither requests nor messages.
LEMMA CloseMoves ==
  ASSUME ControlInv, NEW g \in Goroutines, Close(g)
  PROVE  /\ pc[g] \in {"close", "lock", "closeChan", "unlock"}
         /\ pc'[g] \in {"lock", "closeChan", "unlock", "leaveAll", "done"}
         /\ \A h \in Goroutines : h # g => pc'[h] = pc[h]
         /\ isClosed => isClosed'
         /\ UNCHANGED <<pushes, dataVars>>
  <1>1. PICK l \in {"lock", "closeChan", "unlock", "leaveAll", "done"} : Goto(g, l)
    BY DEF Close, CloseSocket, Lock, CloseChan, Unlock
  <1>2. pc'[g] = l /\ \A h \in Goroutines : h # g => pc'[h] = pc[h]
    BY <1>1, GoPointwise
  <1>3. /\ pc[g] \in {"close", "lock", "closeChan", "unlock"}
        /\ isClosed => isClosed'
        /\ UNCHANGED <<pushes, dataVars>>
    BY DEF Close, CloseSocket, Lock, CloseChan, Unlock
  <1> QED
    BY <1>2, <1>3

RequestsUntouched ==
  /\ UNCHANGED <<readerVars, handlerVars, inChan>>
  /\ isClosed => isClosed'
  /\ \/ pc'["reader"] = pc["reader"]
     \/ pc["reader"] # "enqueue" /\ pc'["reader"] \notin {"read", "enqueue"}
  /\ pc'["handler"] \in {"handle", "reply"} => pc["handler"] \in {"handle", "reply"}

MessagesUntouched ==
  /\ UNCHANGED <<pushes, writerVars, outVars>>
  /\ \/ pc'["writer"] = pc["writer"]
     \/ pc'["writer"] \notin {"select", "write"}

\* A step that touches none of the places keeps the requests in order.
LEMMA RequestsStay == RequestInv /\ RequestsUntouched => RequestInv'
  BY DEF RequestInv, RequestsUntouched, RequestsPlaced, Enqueued, NoMessage, readerVars,
     handlerVars

\* The same of the messages.
LEMMA MessagesStay == MessageInv /\ MessagesUntouched => MessageInv'
  BY DEF MessageInv, MessagesUntouched, MessagesPlaced, Dequeued, NoMessage, writerVars,
     outVars

\* Only ReadSocket, Enqueue and ReadMessage move requests.
LEMMA RequestsUntouchedBy ==
  ASSUME ControlInv, [Next]_vars,
         ~(\E type \in RequestTypes : ReadSocket(type)), ~Enqueue, ~ReadMessage
  PROVE  RequestsUntouched
  <1>g. {"reader", "writer", "handler", "checker"} = Goroutines
    BY DEF Goroutines
  <1>1. CASE \E g \in Goroutines : Close(g)
    <2>1. PICK g \in Goroutines : Close(g)
      BY <1>1
    <2>2. \/ pc'["reader"] = pc["reader"]
          \/ pc["reader"] # "enqueue" /\ pc'["reader"] \notin {"read", "enqueue"}
      BY <1>g, <2>1, CloseMoves
    <2>3. pc'["handler"] \in {"handle", "reply"} => pc["handler"] \in {"handle", "reply"}
      BY <1>g, <2>1, CloseMoves
    <2> QED
      BY <2>1, <2>2, <2>3, CloseMoves DEF RequestsUntouched, dataVars
  <1>2. CASE ReadSocketFails
    BY <1>2, <1>g, GoPointwise DEF ReadSocketFails, RequestsUntouched, closeVars, dataVars
  <1>3. CASE WriteSocket
    BY <1>3, <1>g, GoPointwise DEF WriteSocket, RequestsUntouched, closeVars
  <1>4. CASE TakeOut
    <2>1. \E l \in {"write", "done"} : Goto("writer", l)
      BY <1>4 DEF TakeOut
    <2> QED
      BY <1>4, <2>1, <1>g, GoPointwise DEF TakeOut, RequestsUntouched, closeVars
  <1>5. CASE WriteSocketFails
    BY <1>5, <1>g, GoPointwise DEF WriteSocketFails, RequestsUntouched, closeVars
  <1>6. CASE PushMessage
    BY <1>6 DEF PushMessage, RequestsUntouched, closeVars
  <1>7. CASE StartHandler
    BY <1>7, <1>g DEF StartHandler, RequestsUntouched, closeVars, dataVars, ControlInv
  <1>8. CASE Handle
    <2>1. \E l \in {"reply", "select", "close"} : Goto("handler", l)
      BY <1>8 DEF Handle
    <2> QED
      BY <1>8, <2>1, <1>g, GoPointwise DEF Handle, RequestsUntouched, closeVars, dataVars
  <1>9. CASE Reply
    <2>1. \E l \in {"select", "close"} : Goto("handler", l)
      BY <1>9 DEF Reply
    <2> QED
      BY <1>9, <2>1, <1>g, GoPointwise DEF Reply, RequestsUntouched, closeVars
  <1>10. CASE LeaveAll
    BY <1>10, <1>g, GoPointwise DEF LeaveAll, RequestsUntouched, closeVars, dataVars
  <1>11. CASE \E tooOld \in BOOLEAN : TimerFires(tooOld)
    BY <1>11, <1>g, GoPointwise DEF TimerFires, RequestsUntouched, closeVars, dataVars
  <1>12. CASE CheckerLeaves
    BY <1>12, <1>g, GoPointwise DEF CheckerLeaves, RequestsUntouched, closeVars, dataVars
  <1>13. CASE PeerLeaves
    BY <1>13 DEF PeerLeaves, RequestsUntouched, closeVars, dataVars
  <1>14. CASE UNCHANGED vars
    BY <1>14 DEF vars, RequestsUntouched, closeVars, dataVars
  <1> QED
    BY <1>1, <1>2, <1>3, <1>4, <1>5, <1>6, <1>7, <1>8, <1>9, <1>10, <1>11, <1>12, <1>13,
       <1>14, <1>g DEF Next, Reader, Writer, Handler, Checker

\* Only the writer, a push and a reply move messages.
LEMMA MessagesUntouchedBy ==
  ASSUME ControlInv, [Next]_vars,
         ~TakeOut, ~WriteSocket, ~WriteSocketFails, ~PushMessage, ~Reply
  PROVE  MessagesUntouched
  <1>g. {"reader", "writer", "handler", "checker"} = Goroutines
    BY DEF Goroutines
  <1>1. CASE \E g \in Goroutines : Close(g)
    <2>1. PICK g \in Goroutines : Close(g)
      BY <1>1
    <2>2. pc'["writer"] = pc["writer"] \/ pc'["writer"] \notin {"select", "write"}
      BY <1>g, <2>1, CloseMoves
    <2> QED
      BY <2>1, <2>2, CloseMoves DEF MessagesUntouched, dataVars
  <1>2. ASSUME NEW type \in RequestTypes, ReadSocket(type) PROVE MessagesUntouched
    BY <1>2, <1>g, GoPointwise DEF ReadSocket, MessagesUntouched
  <1>3. CASE ReadSocketFails
    BY <1>3, <1>g, GoPointwise DEF ReadSocketFails, MessagesUntouched, dataVars
  <1>4. CASE Enqueue
    <2>1. \E l \in {"read", "done"} : Goto("reader", l)
      BY <1>4 DEF Enqueue
    <2> QED
      BY <1>4, <2>1, <1>g, GoPointwise DEF Enqueue, MessagesUntouched
  <1>5. CASE StartHandler
    BY <1>5, <1>g DEF StartHandler, MessagesUntouched, dataVars, ControlInv
  <1>6. CASE ReadMessage
    <2>1. \E l \in {"handle", "close"} : Goto("handler", l)
      BY <1>6 DEF ReadMessage
    <2> QED
      BY <1>6, <2>1, <1>g, GoPointwise DEF ReadMessage, MessagesUntouched
  <1>7. CASE Handle
    <2>1. \E l \in {"reply", "select", "close"} : Goto("handler", l)
      BY <1>7 DEF Handle
    <2> QED
      BY <1>7, <2>1, <1>g, GoPointwise DEF Handle, MessagesUntouched, dataVars
  <1>8. CASE LeaveAll
    BY <1>8, <1>g, GoPointwise DEF LeaveAll, MessagesUntouched, dataVars
  <1>9. CASE \E tooOld \in BOOLEAN : TimerFires(tooOld)
    BY <1>9, <1>g, GoPointwise DEF TimerFires, MessagesUntouched, dataVars
  <1>10. CASE CheckerLeaves
    BY <1>10, <1>g, GoPointwise DEF CheckerLeaves, MessagesUntouched, dataVars
  <1>11. CASE PeerLeaves
    BY <1>11 DEF PeerLeaves, MessagesUntouched, dataVars
  <1>12. CASE UNCHANGED vars
    BY <1>12 DEF vars, MessagesUntouched, dataVars
  <1> QED
    BY <1>1, <1>2, <1>3, <1>4, <1>5, <1>6, <1>7, <1>8, <1>9, <1>10, <1>11, <1>12, <1>g
       DEF Next, Reader, Writer, Handler, Checker
-----------------------------------------------------------------------------
(* The requests.                                                           *)

\* A request the reader has read is the next one.
LEMMA ReadRequestInv ==
  ASSUME ControlInv, RequestInv, NEW type \in RequestTypes, ReadSocket(type)
  PROVE  RequestInv'
  <1> DEFINE r == [id |-> arrived + 1, type |-> type]
  <1>1. /\ pc["reader"] = "read" /\ arrived < MaxRequests /\ arrived' = arrived + 1
        /\ readerMessage' = <<r>>
        /\ UNCHANGED <<inChan, request, handled>>
    BY DEF ReadSocket, handlerVars
  <1>2. pc'["reader"] = "enqueue" /\ pc'["handler"] = pc["handler"]
    BY GoPointwise DEF ReadSocket, Goroutines
  <1>3. /\ arrived \in Nat /\ arrived + 1 \in 1..MaxRequests /\ arrived' \in 0..MaxRequests
        /\ arrived = Enqueued
    BY <1>1, ConnectionAssumption DEF RequestInv, RequestsPlaced, ConnectionAssumption
  <1>4. r \in Request /\ r.id = arrived + 1
    BY <1>3 DEF Request
  <1> HIDE DEF r
  <1>5. readerMessage' \in Seq(Request) /\ Len(readerMessage') = 1 /\ readerMessage'[1] = r
    BY <1>1, <1>4
  <1>6. Enqueued' = Enqueued
    BY <1>1 DEF Enqueued
  <1> QED
    BY <1>1, <1>2, <1>3, <1>4, <1>5, <1>6 DEF RequestInv, RequestsPlaced

\* Enqueue puts it behind the others, or drops it on a closed connection.
LEMMA EnqueueInv ==
  ASSUME ControlInv, RequestInv, Enqueue
  PROVE  RequestInv'
  <1>1. /\ pc["reader"] = "enqueue" /\ readerMessage' = NoMessage
        /\ UNCHANGED <<arrived, request, handled, closings, isClosed>>
    BY DEF Enqueue, handlerVars, closeVars
  <1>2. /\ readerMessage \in Seq(Request) /\ Len(readerMessage) = 1
        /\ readerMessage[1].id = Enqueued + 1 /\ arrived = Enqueued + 1
        /\ inChan \in Seq(Request) /\ handled \in Seq(1..MaxRequests)
        /\ \A i \in DOMAIN inChan : inChan[i].id = Len(handled) + i
    BY <1>1 DEF RequestInv, RequestsPlaced
  <1>3. /\ readerMessage[1] \in Request
        /\ inChan \o readerMessage \in Seq(Request)
        /\ Len(inChan) \in Nat /\ Len(inChan \o readerMessage) = Len(inChan) + 1
        /\ DOMAIN inChan = 1..Len(inChan)
        /\ DOMAIN (inChan \o readerMessage) = 1..(Len(inChan) + 1)
        /\ \A i \in 1..Len(inChan) : (inChan \o readerMessage)[i] = inChan[i]
        /\ (inChan \o readerMessage)[Len(inChan) + 1] = readerMessage[1]
    BY <1>2, ConcatOne
  <1>4. NoMessage \in Seq(Request) /\ Len(NoMessage) = 0
    BY DEF NoMessage
  <1>5. CASE Len(inChan) < WsInChannelSize /\ inChan' = inChan \o readerMessage
               /\ Goto("reader", "read")
    <2>2. /\ inChan' \in Seq(Request) /\ Len(inChan) \in Nat /\ Len(inChan') = Len(inChan) + 1
          /\ DOMAIN inChan = 1..Len(inChan) /\ DOMAIN inChan' = 1..(Len(inChan) + 1)
          /\ \A i \in 1..Len(inChan) : inChan'[i] = inChan[i]
          /\ inChan'[Len(inChan) + 1] = readerMessage[1]
      BY <1>3, <1>5
    <2>3. Len(handled) \in Nat /\ Enqueued = Len(handled) + Len(inChan) /\ Enqueued' = Enqueued + 1
      BY <1>1, <1>2, <2>2 DEF Enqueued
    <2>4. \A i \in DOMAIN inChan' : inChan'[i].id = Len(handled) + i
      <3> SUFFICES ASSUME NEW i \in 1..(Len(inChan) + 1) PROVE inChan'[i].id = Len(handled) + i
        BY <2>2
      <3>1. CASE i = Len(inChan) + 1
        <4>1. inChan'[i].id = Enqueued + 1
          BY <1>2, <2>2, <3>1
        <4> QED
          BY <1>3, <2>3, <3>1, <4>1
      <3>2. CASE i # Len(inChan) + 1
        BY <1>2, <2>2, <3>2
      <3> QED
        BY <3>1, <3>2
    <2>5. pc'["reader"] = "read" /\ pc'["handler"] = pc["handler"]
      BY <1>5, GoPointwise DEF Goroutines
    <2>6. Len(inChan') <= WsInChannelSize
      BY <1>5, <2>2, ConnectionAssumption DEF ConnectionAssumption
    <2> QED
      BY <1>1, <1>2, <1>4, <2>2, <2>3, <2>4, <2>5, <2>6 DEF RequestInv, RequestsPlaced
  <1>6. CASE closeChanClosed /\ Goto("reader", "done") /\ UNCHANGED inChan
    <2>1. isClosed /\ isClosed'
      BY <1>1, <1>6 DEF closeChanClosed, ControlInv, CloseGuarded
    <2>2. pc'["reader"] = "done" /\ pc'["handler"] = pc["handler"]
      BY <1>6, GoPointwise DEF Goroutines
    <2>3. Enqueued' = Enqueued
      BY <1>1, <1>6 DEF Enqueued
    <2> QED
      BY <1>1, <1>2, <1>4, <1>6, <2>1, <2>2, <2>3 DEF RequestInv, RequestsPlaced
  <1> QED
    BY <1>5, <1>6 DEF Enqueue

\* The handler takes the oldest request of inChan.
LEMMA ReadMessageInv ==
  ASSUME ControlInv, RequestInv, ReadMessage
  PROVE  RequestInv'
  <1>1. UNCHANGED <<arrived, readerMessage, isClosed>>
    BY DEF ReadMessage, readerVars, closeVars
  <1>2. /\ inChan \in Seq(Request) /\ handled \in Seq(1..MaxRequests)
        /\ \A i \in DOMAIN inChan : inChan[i].id = Len(handled) + i
        /\ \A i \in DOMAIN handled : handled[i] = i
    BY DEF RequestInv, RequestsPlaced
  <1>3. CASE inChan # <<>> /\ request' = <<Head(inChan)>> /\ inChan' = Tail(inChan)
               /\ handled' = Append(handled, Head(inChan).id) /\ Goto("handler", "handle")
    <2> DEFINE r == Head(inChan)
    <2>1. /\ r \in Request /\ r = inChan[1] /\ Len(inChan) \in Nat /\ Len(inChan) >= 1
          /\ DOMAIN inChan = 1..Len(inChan)
          /\ inChan' \in Seq(Request) /\ Len(inChan') = Len(inChan) - 1
          /\ DOMAIN inChan' = 1..(Len(inChan) - 1)
          /\ \A i \in 1..(Len(inChan) - 1) : inChan'[i] = inChan[i + 1]
      BY <1>2, <1>3, HeadTailProperties, LenProperties
    <2>2. r.id \in 1..MaxRequests /\ r.id = Len(handled) + 1
      <3>1. r.id \in 1..MaxRequests
        BY <2>1 DEF Request
      <3>2. 1 \in DOMAIN inChan
        BY <2>1
      <3>3. inChan[1].id = Len(handled) + 1
        BY <1>2, <3>2
      <3> QED
        BY <2>1, <3>1, <3>3
    <2>3. /\ handled' \in Seq(1..MaxRequests) /\ Len(handled) \in Nat
          /\ Len(handled') = Len(handled) + 1
          /\ DOMAIN handled = 1..Len(handled) /\ DOMAIN handled' = 1..(Len(handled) + 1)
          /\ \A i \in 1..Len(handled) : handled'[i] = handled[i]
          /\ handled'[Len(handled) + 1] = r.id
      BY <1>2, <1>3, <2>2, AppendProperties, LenProperties
    <2>4. request' \in Seq(Request) /\ Len(request') = 1
      BY <1>3, <2>1
    <2> HIDE DEF r
    <2>5. Enqueued' = Enqueued
      BY <2>1, <2>3 DEF Enqueued
    <2>6. \A i \in DOMAIN inChan' : inChan'[i].id = Len(handled') + i
      <3> SUFFICES ASSUME NEW i \in 1..(Len(inChan) - 1)
                   PROVE  inChan'[i].id = Len(handled) + 1 + i
        BY <2>1, <2>3
      <3>1. inChan'[i] = inChan[i + 1] /\ i + 1 \in DOMAIN inChan
        BY <2>1
      <3>2. inChan[i + 1].id = Len(handled) + (i + 1)
        BY <1>2, <3>1
      <3> QED
        BY <2>1, <2>3, <3>1, <3>2
    <2>7. \A i \in DOMAIN handled' : handled'[i] = i
      BY <1>2, <2>2, <2>3
    <2>8. pc'["reader"] = pc["reader"] /\ Len(inChan') <= WsInChannelSize
      BY <1>3, <2>1, GoPointwise, ConnectionAssumption
         DEF Goroutines, RequestInv, ConnectionAssumption
    <2> QED
      BY <1>1, <2>1, <2>3, <2>4, <2>5, <2>6, <2>7, <2>8 DEF RequestInv, RequestsPlaced
  <1>4. CASE Goto("handler", "close") /\ UNCHANGED <<request, inChan, handled>>
    <2>1. pc'["reader"] = pc["reader"] /\ pc'["handler"] = "close"
      BY <1>4, GoPointwise DEF Goroutines
    <2>2. Enqueued' = Enqueued
      BY <1>4 DEF Enqueued
    <2> QED
      BY <1>1, <1>4, <2>1, <2>2 DEF RequestInv, RequestsPlaced
  <1> QED
    BY <1>3, <1>4 DEF ReadMessage, handlerVars

\* The order of the requests is preserved by every step.
LEMMA RequestInductive == ControlInv /\ RequestInv /\ [Next]_vars => RequestInv'
  BY ReadRequestInv, EnqueueInv, ReadMessageInv, RequestsUntouchedBy, RequestsStay
-----------------------------------------------------------------------------
(* The messages.                                                           *)

\* What outChan accepts comes behind everything accepted before.
LEMMA OutAcceptsInv ==
  ASSUME MessageInv, NEW m \in Message, OutAccepts(m),
         UNCHANGED <<written, writerMessage>>, pc'["writer"] = pc["writer"],
         pushes' \in 0..MaxPushes
  PROVE  MessageInv'
  <1>1. /\ Len(outChan) < WsOutChannelSize
        /\ outChan' = Append(outChan, m) /\ accepted' = Append(accepted, m)
    BY DEF OutAccepts
  <1>2. /\ outChan \in Seq(Message) /\ accepted \in Seq(Message) /\ written \in Seq(Message)
        /\ writerMessage \in Seq(Message)
    BY DEF MessageInv
  <1>3. /\ outChan' \in Seq(Message) /\ Len(outChan) \in Nat /\ Len(outChan') = Len(outChan) + 1
        /\ DOMAIN outChan = 1..Len(outChan) /\ DOMAIN outChan' = 1..(Len(outChan) + 1)
        /\ \A i \in 1..Len(outChan) : outChan'[i] = outChan[i]
        /\ outChan'[Len(outChan) + 1] = m
    BY <1>1, <1>2, AppendProperties, LenProperties
  <1>4. /\ accepted' \in Seq(Message) /\ Len(accepted) \in Nat
        /\ Len(accepted') = Len(accepted) + 1
        /\ \A i \in 1..Len(accepted) : accepted'[i] = accepted[i]
        /\ accepted'[Len(accepted) + 1] = m
    BY <1>1, <1>2, AppendProperties, LenProperties
  <1>5. /\ Len(written) \in Nat /\ Len(writerMessage) \in Nat /\ DOMAIN written = 1..Len(written)
        /\ Len(written) <= Len(accepted)
        /\ \A i \in DOMAIN written : written[i] = accepted[i]
    BY <1>2 DEF MessageInv, MessagesPlaced
  <1>6. \A i \in DOMAIN written' : written'[i] = accepted'[i]
    BY <1>4, <1>5
  <1>7. pc'["writer"] = "write" =>
          Len(writerMessage') = 1 /\ writerMessage'[1] = accepted'[Len(written') + 1]
    <2> HAVE pc'["writer"] = "write"
    <2>1. /\ Len(writerMessage) = 1 /\ writerMessage[1] = accepted[Len(written) + 1]
          /\ Len(accepted) = Len(written) + Len(writerMessage) + Len(outChan)
      BY DEF MessageInv, MessagesPlaced, Dequeued
    <2>2. Len(written) + 1 \in 1..Len(accepted)
      BY <1>3, <1>4, <1>5, <2>1
    <2> QED
      BY <1>4, <2>1, <2>2
  <1>8. pc'["writer"] \in {"select", "write"} =>
          /\ Len(accepted') = Dequeued' + Len(outChan')
          /\ \A i \in DOMAIN outChan' : outChan'[i] = accepted'[Dequeued' + i]
    <2> HAVE pc'["writer"] \in {"select", "write"}
    <2>1. /\ Len(accepted) = Dequeued + Len(outChan)
          /\ \A i \in DOMAIN outChan : outChan[i] = accepted[Dequeued + i]
      BY DEF MessageInv, MessagesPlaced
    <2>2. Dequeued \in Nat /\ Dequeued' = Dequeued
      BY <1>5 DEF Dequeued
    <2>3. ASSUME NEW i \in 1..(Len(outChan) + 1) PROVE outChan'[i] = accepted'[Dequeued + i]
      <3>1. CASE i = Len(outChan) + 1
        BY <1>3, <1>4, <2>1, <2>2, <3>1
      <3>2. CASE i # Len(outChan) + 1
        <4>1. i \in 1..Len(outChan) /\ Dequeued + i \in 1..Len(accepted)
          BY <1>3, <1>4, <2>1, <2>2, <3>2
        <4> QED
          BY <1>3, <1>4, <2>1, <4>1
      <3> QED
        BY <3>1, <3>2
    <2> QED
      BY <1>3, <1>4, <2>1, <2>2, <2>3
  <1>9. Len(outChan') <= WsOutChannelSize
    BY <1>1, <1>3, ConnectionAssumption DEF ConnectionAssumption
  <1> QED
    BY <1>3, <1>4, <1>5, <1>6, <1>7, <1>8, <1>9 DEF MessageInv, MessagesPlaced

\* The writer takes the oldest message of outChan, or leaves.
LEMMA TakeOutInv ==
  ASSUME ControlInv, MessageInv, TakeOut
  PROVE  MessageInv'
  <1>1. pc["writer"] = "select" /\ UNCHANGED <<pushes, accepted, written>>
    BY DEF TakeOut
  <1>2. /\ outChan \in Seq(Message) /\ written \in Seq(Message) /\ Len(written) \in Nat
        /\ writerMessage = NoMessage /\ Dequeued = Len(written)
        /\ Len(accepted) = Len(written) + Len(outChan)
        /\ \A i \in DOMAIN outChan : outChan[i] = accepted[Len(written) + i]
    BY <1>1 DEF MessageInv, MessagesPlaced, Dequeued, NoMessage
  <1>3. CASE outChan # <<>> /\ writerMessage' = <<Head(outChan)>> /\ outChan' = Tail(outChan)
               /\ Goto("writer", "write")
    <2> DEFINE m == Head(outChan)
    <2>1. /\ m \in Message /\ m = outChan[1] /\ Len(outChan) \in Nat /\ Len(outChan) >= 1
          /\ DOMAIN outChan = 1..Len(outChan)
          /\ outChan' \in Seq(Message) /\ Len(outChan') = Len(outChan) - 1
          /\ DOMAIN outChan' = 1..(Len(outChan) - 1)
          /\ \A i \in 1..(Len(outChan) - 1) : outChan'[i] = outChan[i + 1]
      BY <1>2, <1>3, HeadTailProperties, LenProperties
    <2>2. /\ writerMessage' \in Seq(Message) /\ Len(writerMessage') = 1
          /\ writerMessage'[1] = m
      BY <1>3, <2>1
    <2> HIDE DEF m
    <2>3. m = accepted[Len(written) + 1] /\ Dequeued' = Len(written) + 1
      <3>1. 1 \in DOMAIN outChan
        BY <2>1
      <3>2. outChan[1] = accepted[Len(written) + 1]
        BY <1>2, <3>1
      <3>3. Dequeued' = Len(written) + 1
        BY <1>1, <2>2 DEF Dequeued
      <3> QED
        BY <2>1, <3>2, <3>3
    <2>4. \A i \in DOMAIN outChan' : outChan'[i] = accepted'[Dequeued' + i]
      <3> SUFFICES ASSUME NEW i \in 1..(Len(outChan) - 1)
                   PROVE  outChan'[i] = accepted[Len(written) + 1 + i]
        BY <1>1, <2>1, <2>3
      <3>1. outChan'[i] = outChan[i + 1] /\ i + 1 \in DOMAIN outChan
        BY <2>1
      <3>2. outChan[i + 1] = accepted[Len(written) + (i + 1)]
        BY <1>2, <3>1
      <3>3. Len(written) + (i + 1) = Len(written) + 1 + i
        BY <1>2
      <3> QED
        BY <3>1, <3>2, <3>3
    <2>5. /\ Len(outChan') <= WsOutChannelSize
          /\ Len(accepted') = Dequeued' + Len(outChan')
      BY <1>1, <1>2, <2>1, <2>3, ConnectionAssumption DEF MessageInv, ConnectionAssumption
    <2>6. pc'["writer"] = "write"
      BY <1>3, GoPointwise DEF Goroutines
    <2> QED
      BY <1>1, <2>1, <2>2, <2>3, <2>4, <2>5, <2>6 DEF MessageInv, MessagesPlaced
  <1>4. CASE Goto("writer", "done") /\ UNCHANGED <<writerMessage, outChan>>
    <2>1. pc'["writer"] = "done"
      BY <1>4, GoPointwise DEF Goroutines
    <2> QED
      BY <1>1, <1>4, <2>1 DEF MessageInv, MessagesPlaced
  <1> QED
    BY <1>3, <1>4 DEF TakeOut

\* A message is written, or the socket fails and the writer goes to close.
LEMMA WriteSocketInv ==
  ASSUME ControlInv, MessageInv, WriteSocket \/ WriteSocketFails
  PROVE  MessageInv'
  <1>1. /\ pc["writer"] = "write" /\ writerMessage' = NoMessage
        /\ UNCHANGED <<pushes, outChan, accepted>>
    BY DEF WriteSocket, WriteSocketFails, outVars
  <1>2. NoMessage \in Seq(Message) /\ Len(NoMessage) = 0
    BY DEF NoMessage
  <1>3. /\ written \in Seq(Message) /\ Len(written) \in Nat /\ DOMAIN written = 1..Len(written)
        /\ Len(outChan) \in Nat /\ DOMAIN outChan = 1..Len(outChan)
        /\ writerMessage \in Seq(Message) /\ Len(writerMessage) = 1
        /\ writerMessage[1] = accepted[Len(written) + 1]
        /\ Len(accepted) = Len(written) + 1 + Len(outChan)
        /\ \A i \in DOMAIN written : written[i] = accepted[i]
        /\ \A i \in DOMAIN outChan : outChan[i] = accepted[Len(written) + 1 + i]
    <2>1. /\ written \in Seq(Message) /\ outChan \in Seq(Message)
          /\ writerMessage \in Seq(Message) /\ MessagesPlaced
      BY DEF MessageInv
    <2>2. /\ Len(writerMessage) = 1 /\ writerMessage[1] = accepted[Len(written) + 1]
          /\ Len(accepted) = Dequeued + Len(outChan)
          /\ \A i \in DOMAIN written : written[i] = accepted[i]
          /\ \A i \in DOMAIN outChan : outChan[i] = accepted[Dequeued + i]
      BY <1>1, <2>1 DEF MessagesPlaced
    <2>3. Dequeued = Len(written) + 1
      BY <2>2 DEF Dequeued
    <2> QED
      BY <2>1, <2>2, <2>3
  <1>4. CASE WriteSocket
    <2>1. written' = written \o writerMessage /\ pc'["writer"] = "select"
      BY <1>4, GoPointwise DEF WriteSocket, Goroutines
    <2>2. /\ written' \in Seq(Message) /\ Len(written') = Len(written) + 1
          /\ DOMAIN written' = 1..(Len(written) + 1)
          /\ \A i \in 1..Len(written) : written'[i] = written[i]
          /\ written'[Len(written) + 1] = writerMessage[1]
      <3>1. /\ written \o writerMessage \in Seq(Message)
            /\ Len(written \o writerMessage) = Len(written) + 1
            /\ DOMAIN (written \o writerMessage) = 1..(Len(written) + 1)
            /\ \A i \in 1..Len(written) : (written \o writerMessage)[i] = written[i]
            /\ (written \o writerMessage)[Len(written) + 1] = writerMessage[1]
        BY <1>3, ConcatOne
      <3> QED
        BY <2>1, <3>1
    <2>3. \A i \in DOMAIN written' : written'[i] = accepted'[i]
      <3> SUFFICES ASSUME NEW i \in 1..(Len(written) + 1) PROVE written'[i] = accepted[i]
        BY <1>1, <2>2
      <3>1. CASE i = Len(written) + 1
        BY <1>3, <2>2, <3>1
      <3>2. CASE i # Len(written) + 1
        <4>1. i \in 1..Len(written)
          <5>1. Len(written) \in Nat
            BY <1>3, LenProperties
          <5> QED
            BY <3>2, <5>1
        <4>2. written'[i] = written[i]
          BY <2>2, <4>1
        <4>3. i \in DOMAIN written
          BY <1>3, <4>1, LenProperties
        <4>4. written[i] = accepted[i]
          BY <1>3, <4>3
        <4> QED
          BY <4>2, <4>4
      <3> QED
        BY <3>1, <3>2
    <2>4. Dequeued' = Len(written) + 1
      BY <1>1, <1>2, <1>3, <2>2 DEF Dequeued
    <2> QED
      BY <1>1, <1>2, <1>3, <2>1, <2>2, <2>3, <2>4 DEF MessageInv, MessagesPlaced
  <1>5. CASE WriteSocketFails
    <2>1. UNCHANGED written /\ pc'["writer"] = "close"
      BY <1>5, GoPointwise DEF WriteSocketFails, Goroutines
    <2> QED
      BY <1>1, <1>2, <2>1 DEF MessageInv, MessagesPlaced
  <1> QED
    BY <1>4, <1>5

\* A job worker sends.
LEMMA PushMessageInv ==
  ASSUME MessageInv, PushMessage
  PROVE  MessageInv'
  <1>1. /\ pushes < MaxPushes /\ pushes' = pushes + 1
        /\ UNCHANGED <<pc, writerMessage, written>>
    BY DEF PushMessage, writerVars
  <1>2. pushes \in Nat /\ pushes' \in 0..MaxPushes /\ pushes' \in 1..MaxPushes
    BY <1>1, ConnectionAssumption DEF MessageInv, ConnectionAssumption
  <1>3. CASE OutAccepts(PushOf(pushes + 1))
    <2>1. PushOf(pushes + 1) \in Message
      BY <1>1, <1>2 DEF PushOf, Message
    <2> QED
      BY <1>1, <1>2, <1>3, <2>1, OutAcceptsInv
  <1>4. CASE UNCHANGED <<outChan, accepted>>
    BY <1>1, <1>2, <1>4 DEF MessageInv, MessagesPlaced, Dequeued
  <1> QED
    BY <1>3, <1>4 DEF PushMessage, ConnectionLossError, SendMessageFull, outVars

\* The handler sends the answer to the request it has in its hands.
LEMMA ReplyInv ==
  ASSUME ControlInv, RequestInv, MessageInv, Reply
  PROVE  MessageInv'
  <1>1. /\ pc["handler"] = "reply" /\ pushes' \in 0..MaxPushes
        /\ UNCHANGED <<pushes, writerMessage, written>>
    BY DEF Reply, writerVars, MessageInv
  <1>2. pc'["writer"] = pc["writer"]
    <2>1. \E l \in {"select", "close"} : Goto("handler", l)
      BY DEF Reply
    <2> QED
      BY <2>1, GoPointwise DEF Goroutines
  <1>3. CASE OutAccepts(Pong(request[1]))
    <2>1. request[1] \in Request
      BY <1>1 DEF RequestInv, RequestsPlaced
    <2>2. Pong(request[1]) \in Message
      BY <2>1 DEF Pong, Message, Request
    <2> QED
      BY <1>1, <1>2, <1>3, <2>2, OutAcceptsInv
  <1>4. CASE UNCHANGED <<outChan, accepted>>
    BY <1>1, <1>2, <1>4 DEF MessageInv, MessagesPlaced, Dequeued
  <1> QED
    BY <1>3, <1>4 DEF Reply, ConnectionLossError, SendMessageFull, outVars

\* The order of the messages is preserved by every step.
LEMMA MessageInductive == ControlInv /\ RequestInv /\ MessageInv /\ [Next]_vars => MessageInv'
  BY TakeOutInv, WriteSocketInv, PushMessageInv, ReplyInv, MessagesUntouchedBy, MessagesStay
-----------------------------------------------------------------------------
(* The theorems.                                                           *)

\* The invariant that the theorems below rest on holds in every reachable state.
THEOREM InvariantHolds == Spec => []IInv
  <1>1. IInv /\ [Next]_vars => IInv'
    <2> SUFFICES ASSUME IInv, [Next]_vars PROVE IInv'
      OBVIOUS
    <2>1. ControlInv /\ RequestInv /\ MessageInv
      BY InvParts
    <2>2. ControlInv' /\ RequestInv' /\ MessageInv'
      BY <2>1, ControlInductive, RequestInductive, MessageInductive
    <2> QED
      BY <2>2 DEF IInv, TypeOK, ControlInv, RequestInv, MessageInv, Labels
  <1> QED
    BY <1>1, InitIInv, PTL DEF Spec

\* Type correctness: the two channels of a connection keep within their
\* configured sizes and every local variable has a request or a message when it
\* is used (connect.go:12-119).
THEOREM TypeCorrect == Spec => []TypeOK
  <1>1. IInv => TypeOK
    BY DEF IInv
  <1> QED
    BY <1>1, InvariantHolds, PTL

\* closeChan is closed at most once (connect.go:108-119), whichever of the four
\* goroutines close the connection and however they interleave.
THEOREM ChannelClosedOnce == Spec => []ClosedOnce
  <1>1. IInv => ClosedOnce
    <2> SUFFICES ASSUME IInv PROVE closings <= 1
      BY DEF ClosedOnce
    <2>1. closings = 0 \/ closings = 1
      BY DEF IInv, CloseGuarded
    <2> QED
      BY <2>1
  <1> QED
    BY <1>1, InvariantHolds, PTL

\* A client is sent what outChan accepted for it, in that order and without a gap
\* (connect.go:66-96), for any size of outChan.
THEOREM MessagesKeepOrder == Spec => []MessagesInOrder
  <1>1. IInv => MessagesInOrder
    <2> SUFFICES ASSUME IInv PROVE MessagesInOrder
      OBVIOUS
    <2>1. /\ MessagesPlaced /\ written \in Seq(Message) /\ accepted \in Seq(Message)
          /\ writerMessage \in Seq(Message) /\ outChan \in Seq(Message)
      BY DEF IInv, TypeOK
    <2>2. written = SubSeq(accepted, 1, Len(written))
      <3>1. /\ Len(written) \in Nat /\ Len(written) <= Len(accepted) /\ Len(accepted) \in Nat
            /\ \A i \in 1..Len(written) : written[i] = accepted[i]
        BY <2>1 DEF MessagesPlaced
      <3>2. \A i \in 1..Len(written) : accepted[i] \in Message
        BY <2>1, <3>1
      <3>3. /\ SubSeq(accepted, 1, Len(written)) \in Seq(Message)
            /\ Len(SubSeq(accepted, 1, Len(written))) = Len(written)
            /\ \A i \in 1..Len(written) : SubSeq(accepted, 1, Len(written))[i] = accepted[i]
        BY <3>1, <3>2, SubSeqProperties
      <3> QED
        BY <2>1, <3>1, <3>3, SeqEqual
    <2>3. ASSUME pc["writer"] \in {"select", "write"}
          PROVE  written \o writerMessage \o outChan = accepted
      <3>1. /\ \A i \in 1..Len(written) : written[i] = accepted[i]
            /\ \A i \in 1..Len(outChan) : outChan[i] = accepted[Dequeued + i]
            /\ Len(accepted) = Dequeued + Len(outChan)
        BY <2>1, <2>3 DEF MessagesPlaced
      <3>2. \A i \in 1..Len(writerMessage) : writerMessage[i] = accepted[Len(written) + i]
        <4>1. CASE pc["writer"] = "select"
          <5>1. writerMessage = <<>>
            BY <2>1, <4>1 DEF MessagesPlaced, NoMessage
          <5> QED
            BY <5>1
        <4>2. CASE pc["writer"] = "write"
          <5>1. Len(writerMessage) = 1 /\ writerMessage[1] = accepted[Len(written) + 1]
            BY <2>1, <4>2 DEF MessagesPlaced
          <5>2. \A i \in 1..Len(writerMessage) : i = 1
            BY <5>1
          <5> QED
            BY <5>1, <5>2
        <4> QED
          BY <2>3, <4>1, <4>2
      <3>3. /\ written \in Seq(Message) /\ writerMessage \in Seq(Message)
            /\ outChan \in Seq(Message) /\ accepted \in Seq(Message)
        BY <2>1
      <3>4. /\ written \o writerMessage \in Seq(Message)
            /\ Len(written \o writerMessage) = Len(written) + Len(writerMessage)
            /\ \A i \in 1..(Len(written) + Len(writerMessage)) :
                 (written \o writerMessage)[i] = accepted[i]
        <4>1. \A i \in 1..Len(written) : written[i] = accepted[i]
          BY <3>1
        <4> QED
          BY <3>2, <3>3, <4>1, ConcatAgrees
      <3>5. PICK sent \in Seq(Message) : sent = written \o writerMessage
        BY <3>4
      <3>6. /\ \A i \in 1..Len(sent) : sent[i] = accepted[i]
            /\ \A i \in 1..Len(outChan) : outChan[i] = accepted[Len(sent) + i]
            /\ Len(accepted) = Len(sent) + Len(outChan)
        BY <3>1, <3>4, <3>5 DEF Dequeued
      <3>7. /\ sent \o outChan \in Seq(Message)
            /\ Len(sent \o outChan) = Len(sent) + Len(outChan)
            /\ \A i \in 1..(Len(sent) + Len(outChan)) : (sent \o outChan)[i] = accepted[i]
        BY <3>3, <3>6, ConcatAgrees
      <3>8. sent \o outChan = accepted
        BY <3>3, <3>6, <3>7, SeqEqual
      <3> QED
        BY <3>5, <3>8
    <2> QED
      BY <2>2, <2>3 DEF MessagesInOrder
  <1> QED
    BY <1>1, InvariantHolds, PTL

\* The requests of a connection are handled one after the other in the order of
\* their arrival, none is skipped and none handled twice (connect.go:42-64
\* and 98-106), for any size of inChan.
THEOREM RequestsKeepOrder == Spec => []RequestsInOrder
  <1>1. IInv => RequestsInOrder
    <2> SUFFICES ASSUME IInv PROVE RequestsInOrder
      OBVIOUS
    <2>1. /\ RequestsPlaced /\ handled \in Seq(Nat) /\ inChan \in Seq(Request)
          /\ readerMessage \in Seq(Request) /\ Len(readerMessage) <= 1 /\ arrived \in Nat
      <3>1. /\ RequestsPlaced /\ handled \in Seq(1..MaxRequests) /\ inChan \in Seq(Request)
            /\ readerMessage \in Seq(Request) /\ Len(readerMessage) <= 1
            /\ arrived \in 0..MaxRequests
        BY DEF IInv, TypeOK
      <3> QED
        BY <3>1, ConnectionAssumption DEF ConnectionAssumption
    <2>2. ASSUME NEW s \in Seq(Request)
          PROVE  /\ Ids(s) \in Seq(Nat) /\ Len(Ids(s)) = Len(s)
                 /\ Len(s) \in Nat /\ DOMAIN s = 1..Len(s)
                 /\ \A i \in 1..Len(s) : Ids(s)[i] = s[i].id
      <3>1. /\ Len(s) \in Nat /\ DOMAIN s = 1..Len(s) /\ \A i \in 1..Len(s) : s[i] \in Request
        OBVIOUS
      <3>2. \A i \in 1..Len(s) : s[i].id \in Nat
        BY <3>1, ConnectionAssumption DEF Request, ConnectionAssumption
      <3>3. Ids(s) = [i \in 1..Len(s) |-> s[i].id]
        BY <3>1 DEF Ids
      <3> QED
        BY <3>1, <3>2, <3>3
    <2>3. PICK a \in Seq(Nat) :
            /\ a = Ids(inChan) /\ Len(a) = Len(inChan) /\ Len(a) \in Nat
            /\ DOMAIN inChan = 1..Len(a) /\ \A i \in 1..Len(a) : a[i] = inChan[i].id
      BY <2>1, <2>2
    <2>4. PICK b \in Seq(Nat) :
            /\ b = Ids(readerMessage) /\ Len(b) = Len(readerMessage) /\ Len(b) \in Nat
            /\ \A i \in 1..Len(b) : b[i] = readerMessage[i].id
      BY <2>1, <2>2
    <2>5. PICK n \in Nat : n = Enqueued /\ n = Len(handled) + Len(a)
      BY <2>1, <2>3 DEF Enqueued
    <2>6. PICK count \in Seq(Nat) : \A i \in 1..(n + 1) : count[i] = i
      <3>1. [i \in 1..(n + 1) |-> i] \in Seq(Nat)
        BY <2>5
      <3> QED
        BY <3>1
    <2>7. PICK c \in Seq(Nat) : c = handled \o a /\ Len(c) = n /\ \A i \in 1..n : c[i] = count[i]
      <3>1. Len(handled) \in Nat /\ \A i \in 1..Len(handled) : handled[i] = count[i]
        BY <2>1, <2>3, <2>5, <2>6 DEF RequestsPlaced
      <3>2. \A i \in 1..Len(a) : a[i] = count[Len(handled) + i]
        <4> SUFFICES ASSUME NEW i \in 1..Len(a) PROVE a[i] = count[Len(handled) + i]
          OBVIOUS
        <4>1. a[i] = Len(handled) + i
          BY <2>1, <2>3 DEF RequestsPlaced
        <4>2. Len(handled) + i \in 1..(n + 1)
          BY <2>3, <2>5, <3>1
        <4> QED
          BY <2>6, <4>1, <4>2
      <3>3. /\ handled \o a \in Seq(Nat) /\ Len(handled \o a) = Len(handled) + Len(a)
            /\ \A i \in 1..(Len(handled) + Len(a)) : (handled \o a)[i] = count[i]
        BY <2>1, <3>1, <3>2, ConcatAgrees
      <3> QED
        BY <2>5, <3>3
    <2>8. /\ Len(b) \in {0, 1} /\ \A i \in 1..Len(b) : b[i] = count[n + i]
          /\ n + Len(b) = arrived \/ (n + Len(b) = arrived - 1 /\ isClosed)
      <3>1. CASE pc["reader"] = "enqueue"
        <4>1. Len(b) = 1 /\ readerMessage[1].id = n + 1 /\ arrived = n + 1
          BY <2>1, <2>4, <2>5, <3>1 DEF RequestsPlaced
        <4>2. b[1] = n + 1 /\ count[n + 1] = n + 1 /\ \A i \in 1..Len(b) : i = 1
          BY <2>4, <2>6, <4>1
        <4> QED
          BY <4>1, <4>2
      <3>2. CASE pc["reader"] # "enqueue"
        <4>1. Len(b) = 0
          BY <2>1, <2>4, <3>2 DEF RequestsPlaced, NoMessage
        <4>2. arrived = n \/ (arrived = n + 1 /\ isClosed)
          BY <2>1, <2>5, <3>2 DEF RequestsPlaced
        <4> QED
          BY <2>1, <4>1, <4>2
      <3> QED
        BY <3>1, <3>2
    <2>9. /\ c \o b \in Seq(Nat) /\ Len(c \o b) = n + Len(b)
          /\ \A i \in 1..(n + Len(b)) : (c \o b)[i] = count[i]
      <3>1. /\ \A i \in 1..Len(c) : c[i] = count[i]
            /\ \A i \in 1..Len(b) : b[i] = count[Len(c) + i]
        BY <2>7, <2>8
      <3>2. /\ c \o b \in Seq(Nat) /\ Len(c \o b) = Len(c) + Len(b)
            /\ \A i \in 1..(Len(c) + Len(b)) : (c \o b)[i] = count[i]
        BY <3>1, ConcatAgrees
      <3> QED
        BY <2>7, <3>2
    <2>10. PICK log \in Seq(Nat) : log = c \o b /\ log = handled \o Ids(inChan) \o Ids(readerMessage)
      BY <2>3, <2>4, <2>7, <2>9
    <2>11. DOMAIN log = 1..(n + Len(b)) /\ Len(log) = n + Len(b)
      BY <2>9, <2>10, LenProperties
    <2>12. \A i \in DOMAIN log : log[i] = i
      <3> SUFFICES ASSUME NEW i \in 1..(n + Len(b)) PROVE log[i] = i
        BY <2>11
      <3>1. i \in 1..(n + 1)
        <4>1. Len(b) = 0 \/ Len(b) = 1
          BY <2>8
        <4>2. CASE Len(b) = 0
          BY <2>5, <4>2
        <4>3. CASE Len(b) = 1
          BY <2>5, <4>3
        <4> QED
          BY <4>1, <4>2, <4>3
      <3> QED
        BY <2>6, <2>9, <2>10, <3>1
    <2>13. Len(log) = arrived \/ (Len(log) = arrived - 1 /\ isClosed)
      BY <2>8, <2>11
    <2> QED
      BY <2>10, <2>12, <2>13 DEF RequestsInOrder
  <1> QED
    BY <1>1, InvariantHolds, PTL
=============================================================================
