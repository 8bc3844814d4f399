----------------------------- MODULE Connection -----------------------------
(***************************************************************************)
(* One WebSocket connection of the message server and the four goroutines  *)
(* that share it: readLoop, writeLoop, the request handler WSHandle and    *)
(* heartbeatChecker.  Any of them may be the one that closes the           *)
(* connection, while the client sends requests, job workers send it        *)
(* messages, and the client may go away at any moment.                     *)
(*                                                                         *)
(* A request is named by its place in the order of arrival, a pushed       *)
(* message by its place in the order of the pushes.  What a JOIN or LEAVE  *)
(* does to the rooms is the subject of RoomRegistry; time is abstracted:   *)
(* the heartbeat timer may fire, and find the heartbeat too old, at any    *)
(* time.                                                                   *)
(***************************************************************************)
EXTENDS Naturals, Sequences

CONSTANTS
  MaxRequests,       \* bound on the number of requests the client sends
  MaxPushes,         \* bound on the number of messages job workers send
  WsInChannelSize,   \* config: capacity of inChan
  WsOutChannelSize   \* config: capacity of outChan

ASSUME ConnectionAssumption ==
  /\ MaxRequests \in Nat
  /\ MaxPushes \in Nat
  /\ WsInChannelSize \in Nat \ {0}
  /\ WsOutChannelSize \in Nat \ {0}

VARIABLES
  arrived,        \* number of requests read from the socket
  pushes,         \* number of messages job workers have tried to send
  peerGone,       \* the client or the network has ended the TCP connection
  socketClosed,   \* wsSocket.Close has been called
  inChan,         \* channel of requests, buffered
  outChan,        \* channel of messages to the client, buffered
  mutex,          \* the goroutine that holds WSConnection.mutex, or Nobody
  isClosed,       \* WSConnection.isClosed
  closings,       \* how often closeChan has been closed
  pc,             \* where each goroutine is
  readerMessage,  \* readLoop's local variable message
  request,        \* WSHandle's local variable message
  writerMessage,  \* writeLoop's local variable message
  handled,        \* history: requests WSHandle has received, in that order
  accepted,       \* history: messages outChan has accepted, in that order
  written         \* history: messages written to the socket

closeVars == <<socketClosed, mutex, isClosed, closings>>
readerVars == <<arrived, readerMessage>>
handlerVars == <<request, handled>>
writerVars == <<writerMessage, written>>
outVars == <<outChan, accepted>>
dataVars == <<readerVars, handlerVars, writerVars, inChan, outVars>>
vars == <<pc, pushes, peerGone, closeVars, dataVars>>

Goroutines == {"reader", "writer", "handler", "checker"}
Nobody == "nobody"

\* PING is answered, JOIN, LEAVE, a frame that is not text or an unknown type
\* are not ("QUIET"), and a BAD request, one that cannot be decoded or whose
\* handling fails, ends the handler.
RequestTypes == {"PING", "QUIET", "BAD"}
Request == [id : 1..MaxRequests, type : RequestTypes]
Pong(r) == <<"PONG", r.id>>
PushOf(n) == <<"PUSH", n>>
Message == ({"PONG"} \X (1..MaxRequests)) \cup ({"PUSH"} \X (1..MaxPushes))

NoMessage == <<>>

closeChanClosed == closings > 0

Init ==
  /\ arrived = 0
  /\ pushes = 0
  /\ peerGone = FALSE
  /\ socketClosed = FALSE
  /\ inChan = <<>>
  /\ outChan = <<>>
  /\ mutex = Nobody
  /\ isClosed = FALSE
  /\ closings = 0
  /\ pc = [reader |-> "read", writer |-> "select", handler |-> "start",
           checker |-> "unborn"]
  /\ readerMessage = <<>>
  /\ request = <<>>
  /\ writerMessage = <<>>
  /\ handled = <<>>
  /\ accepted = <<>>
  /\ written = <<>>

Goto(g, l) == pc' = [pc EXCEPT ![g] = l]
-----------------------------------------------------------------------------
(* Close, the same for every goroutine.                                    *)

\* wsSocket.Close(), before the mutex is taken.
CloseSocket(g) ==
  /\ pc[g] = "close"
  /\ socketClosed' = TRUE
  /\ Goto(g, "lock")
  /\ UNCHANGED <<pushes, peerGone, mutex, isClosed, closings, dataVars>>

\* Mutant: without the mutex.
LockUnguarded(g) ==
  /\ pc[g] = "lock"
  /\ mutex' = g
  /\ Goto(g, IF isClosed THEN "unlock" ELSE "closeChan")
  /\ UNCHANGED <<pushes, peerGone, socketClosed, isClosed, closings, dataVars>>

Lock(g) ==
  /\ pc[g] = "lock"
  /\ mutex = Nobody
  /\ mutex' = g
  /\ Goto(g, IF isClosed THEN "unlock" ELSE "closeChan")
  /\ UNCHANGED <<pushes, peerGone, socketClosed, isClosed, closings, dataVars>>

\* isClosed = true; close(closeChan)
CloseChan(g) ==
  /\ pc[g] = "closeChan"
  /\ isClosed' = TRUE
  /\ closings' = closings + 1
  /\ Goto(g, "unlock")
  /\ UNCHANGED <<pushes, peerGone, socketClosed, mutex, dataVars>>

\* Every caller returns after Close, but WSHandle first leaves its rooms and
\* its bucket.
Unlock(g) ==
  /\ pc[g] = "unlock"
  /\ mutex' = Nobody
  /\ Goto(g, IF g = "handler" THEN "leaveAll" ELSE "done")
  /\ UNCHANGED <<pushes, peerGone, socketClosed, isClosed, closings, dataVars>>

Close(g) == CloseSocket(g) \/ Lock(g) \/ CloseChan(g) \/ Unlock(g)
-----------------------------------------------------------------------------
(* readLoop                                                                *)

\* wsSocket.ReadMessage: a request, even one that arrived before the client
\* went away ...
ReadSocket(type) ==
  /\ pc["reader"] = "read"
  /\ arrived < MaxRequests
  /\ ~socketClosed
  /\ arrived' = arrived + 1
  /\ readerMessage' = <<[id |-> arrived + 1, type |-> type]>>
  /\ Goto("reader", "enqueue")
  /\ UNCHANGED <<pushes, peerGone, closeVars, inChan, outVars, handlerVars, writerVars>>

\* ... and an error once either end is closed.
ReadSocketFails ==
  /\ pc["reader"] = "read"
  /\ socketClosed \/ peerGone
  /\ Goto("reader", "close")
  /\ UNCHANGED <<pushes, peerGone, closeVars, dataVars>>

\* Mutants: a request is dropped while inChan is full; Close does not wake the
\* reader.
EnqueueDrops ==
  /\ pc["reader"] = "enqueue"
  /\ inChan' = IF Len(inChan) < WsInChannelSize THEN inChan \o readerMessage ELSE inChan
  /\ readerMessage' = NoMessage
  /\ Goto("reader", "read")
  /\ UNCHANGED <<arrived, pushes, peerGone, closeVars, outVars, handlerVars, writerVars>>
EnqueueWaits == Len(inChan) < WsInChannelSize /\ EnqueueDrops

\* inChan <- message waits while inChan is full, but not beyond Close.
Enqueue ==
  /\ pc["reader"] = "enqueue"
  /\ \/ /\ Len(inChan) < WsInChannelSize
        /\ inChan' = inChan \o readerMessage
        /\ Goto("reader", "read")
     \/ /\ closeChanClosed
        /\ Goto("reader", "done")
        /\ UNCHANGED inChan
  /\ readerMessage' = NoMessage
  /\ UNCHANGED <<arrived, pushes, peerGone, closeVars, outVars, handlerVars, writerVars>>

Reader ==
  \/ ReadSocketFails
  \/ Enqueue
  \/ Close("reader")
-----------------------------------------------------------------------------
(* writeLoop                                                               *)

TakeOut ==
  /\ pc["writer"] = "select"
  /\ \/ /\ outChan # <<>>
        /\ writerMessage' = <<Head(outChan)>>
        /\ outChan' = Tail(outChan)
        /\ Goto("writer", "write")
     \/ /\ closeChanClosed
        /\ Goto("writer", "done")
        /\ UNCHANGED <<writerMessage, outChan>>
  /\ UNCHANGED <<readerVars, pushes, peerGone, closeVars, inChan, handlerVars,
                 accepted, written>>

\* wsSocket.WriteMessage hands the message to the kernel, which may accept it
\* even for a client that has gone, and may make the writer wait for a client
\* that does not read ...
WriteSocket ==
  /\ pc["writer"] = "write"
  /\ ~socketClosed
  /\ written' = written \o writerMessage
  /\ writerMessage' = NoMessage
  /\ Goto("writer", "select")
  /\ UNCHANGED <<readerVars, pushes, peerGone, closeVars, inChan, outVars, handlerVars>>

\* ... and fails once either end is closed.
WriteSocketFails ==
  /\ pc["writer"] = "write"
  /\ socketClosed \/ peerGone
  /\ writerMessage' = NoMessage
  /\ Goto("writer", "close")
  /\ UNCHANGED <<readerVars, pushes, peerGone, closeVars, inChan, outVars,
                 handlerVars, written>>

Writer ==
  \/ TakeOut
  \/ WriteSocketFails
  \/ Close("writer")
-----------------------------------------------------------------------------
(* SendMessage: the three outcomes of its select.  Of two ready channels it *)
(* takes either; the default only when neither is ready.                    *)

\* Mutants: one place too many; the oldest message makes room.
OutAcceptsOneTooMany(m) ==
  /\ Len(outChan) <= WsOutChannelSize
  /\ outChan' = Append(outChan, m)
  /\ accepted' = Append(accepted, m)
OutAcceptsAlways(m) ==
  /\ outChan' = Append(IF Len(outChan) < WsOutChannelSize THEN outChan ELSE Tail(outChan), m)
  /\ accepted' = Append(accepted, m)

OutAccepts(m) ==
  /\ Len(outChan) < WsOutChannelSize
  /\ outChan' = Append(outChan, m)
  /\ accepted' = Append(accepted, m)

ConnectionLossError ==
  /\ closeChanClosed
  /\ UNCHANGED outVars

SendMessageFull ==
  /\ Len(outChan) = WsOutChannelSize
  /\ ~closeChanClosed
  /\ UNCHANGED outVars

\* A job worker sends; it ignores the outcome.
PushMessage ==
  /\ pushes < MaxPushes
  /\ pushes' = pushes + 1
  /\ \/ OutAccepts(PushOf(pushes + 1))
     \/ ConnectionLossError
     \/ SendMessageFull
  /\ UNCHANGED <<readerVars, peerGone, closeVars, inChan, pc, handlerVars, writerVars>>
-----------------------------------------------------------------------------
(* WSHandle                                                                *)

\* AddConn, and go heartbeatChecker().
StartHandler ==
  /\ pc["handler"] = "start"
  /\ pc' = [pc EXCEPT !["handler"] = "select", !["checker"] = "select"]
  /\ UNCHANGED <<pushes, peerGone, closeVars, dataVars>>

\* ReadMessage: of a request and of Close, whichever is ready.
ReadMessage ==
  /\ pc["handler"] = "select"
  /\ \/ /\ inChan # <<>>
        /\ request' = <<Head(inChan)>>
        /\ inChan' = Tail(inChan)
        /\ handled' = Append(handled, Head(inChan).id)
        /\ Goto("handler", "handle")
     \/ /\ closeChanClosed
        /\ Goto("handler", "close")
        /\ UNCHANGED <<handlerVars, inChan>>
  /\ UNCHANGED <<readerVars, pushes, peerGone, closeVars, outVars, writerVars>>

\* A PING calls KeepAlive, which needs the mutex, before its PONG is sent.
Handle ==
  /\ pc["handler"] = "handle"
  /\ \/ request[1].type = "PING" /\ mutex = Nobody /\ Goto("handler", "reply")
     \/ request[1].type = "QUIET" /\ Goto("handler", "select")
     \/ request[1].type = "BAD" /\ Goto("handler", "close")
  /\ UNCHANGED <<pushes, peerGone, closeVars, dataVars>>

\* A full outChan is no reason to end the handler, a closed connection is.
Reply ==
  /\ pc["handler"] = "reply"
  /\ \/ OutAccepts(Pong(request[1])) /\ Goto("handler", "select")
     \/ SendMessageFull /\ Goto("handler", "select")
     \/ ConnectionLossError /\ Goto("handler", "close")
  /\ UNCHANGED <<readerVars, pushes, peerGone, closeVars, inChan, handlerVars, writerVars>>

\* leaveAll and DelConn, which take the locks of other objects.
LeaveAll ==
  /\ pc["handler"] = "leaveAll"
  /\ Goto("handler", "done")
  /\ UNCHANGED <<pushes, peerGone, closeVars, dataVars>>

Handler ==
  StartHandler \/ ReadMessage \/ Handle \/ Reply \/ LeaveAll \/ Close("handler")
-----------------------------------------------------------------------------
(* heartbeatChecker                                                        *)

\* The timer fires: IsAlive, under the mutex, says no on a closed connection
\* and on an old heartbeat; otherwise the timer is reset.
TimerFires(tooOld) ==
  /\ pc["checker"] = "select"
  /\ mutex = Nobody
  /\ isClosed \/ tooOld
  /\ Goto("checker", "close")
  /\ UNCHANGED <<pushes, peerGone, closeVars, dataVars>>

\* case <-closeChan
CheckerLeaves ==
  /\ pc["checker"] = "select"
  /\ closeChanClosed
  /\ Goto("checker", "done")
  /\ UNCHANGED <<pushes, peerGone, closeVars, dataVars>>

Checker == TimerFires(FALSE) \/ CheckerLeaves \/ Close("checker")
-----------------------------------------------------------------------------
\* The client goes away, and the server's socket can tell; a client that only
\* falls silent is one that neither sends nor reads.
PeerLeaves ==
  /\ ~peerGone
  /\ peerGone' = TRUE
  /\ UNCHANGED <<pushes, closeVars, dataVars, pc>>

Next ==
  \/ \E type \in RequestTypes : ReadSocket(type)
  \/ Reader
  \/ WriteSocket
  \/ Writer
  \/ PushMessage
  \/ Handler
  \/ TimerFires(TRUE)
  \/ Checker
  \/ PeerLeaves

\* Every goroutine that can run does, and a read or write of a socket whose
\* either end is closed fails in the end.  Nothing is owed by the client (it
\* may neither send nor read), by the pushing goroutines or by time.
Fairness == WF_vars(Reader) /\ WF_vars(Writer) /\ WF_vars(Handler) /\ WF_vars(Checker)

Spec == Init /\ [][Next]_vars
FairSpec == Spec /\ Fairness
-----------------------------------------------------------------------------
(* Properties.                                                             *)

CloseLabels == {"close", "lock", "closeChan", "unlock", "done"}

TypeOK ==
  /\ arrived \in 0..MaxRequests
  /\ pushes \in 0..MaxPushes
  /\ peerGone \in BOOLEAN
  /\ socketClosed \in BOOLEAN
  /\ inChan \in Seq(Request) /\ Len(inChan) <= WsInChannelSize
  /\ outChan \in Seq(Message) /\ Len(outChan) <= WsOutChannelSize
  /\ mutex \in Goroutines \cup {Nobody}
  /\ isClosed \in BOOLEAN
  /\ closings \in Nat
  /\ pc \in [Goroutines -> CloseLabels \cup {"read", "enqueue", "select",
                "write", "start", "handle", "reply", "leaveAll", "unborn"}]
  /\ readerMessage \in Seq(Request) /\ Len(readerMessage) <= 1
  /\ request \in Seq(Request) /\ Len(request) <= 1
  /\ writerMessage \in Seq(Message) /\ Len(writerMessage) <= 1
  /\ handled \in Seq(1..MaxRequests)
  /\ accepted \in Seq(Message)
  /\ written \in Seq(Message)

\* However many goroutines find at the same time that the connection must be
\* closed, closeChan is closed once: a second close would panic, and end the
\* whole server.
ClosedOnce == closings <= 1

\* The requests of a connection are handled one after the other in the order
\* of their arrival, none is skipped and none is handled twice, whatever the
\* size of inChan; only Close can make the last ones disappear.
Ids(s) == [i \in DOMAIN s |-> s[i].id]
RequestsInOrder ==
  LET log == handled \o Ids(inChan) \o Ids(readerMessage)
  IN  /\ \A i \in DOMAIN log : log[i] = i
      /\ Len(log) = arrived \/ (Len(log) = arrived - 1 /\ isClosed)

\* A client is sent what outChan accepted for it, in that order and without a
\* gap, PONGs and pushed messages alike.
MessagesInOrder ==
  /\ written = SubSeq(accepted, 1, Len(written))
  /\ pc["writer"] \in {"select", "write"} =>
       written \o writerMessage \o outChan = accepted

\* After a client has gone, or anyone has closed the connection, none of its
\* goroutines stays behind: not the reader at a full inChan, not the writer
\* at a client that does not read, not the checker at a running timer.
NobodyStaysBehind ==
  isClosed \/ peerGone ~> \A g \in Goroutines : pc[g] = "done"
-----------------------------------------------------------------------------
(* The inductive invariant behind the invariants above (proved in           *)
(* Connection_proofs).                                                      *)

\* Who holds the mutex, and what isClosed and closeChan say of each other.
CloseGuarded ==
  /\ \A g \in Goroutines : pc[g] \in {"closeChan", "unlock"} <=> mutex = g
  /\ \A g \in Goroutines : pc[g] = "closeChan" => ~isClosed
  /\ isClosed => closings = 1
  /\ ~isClosed => closings = 0
  /\ pc["handler"] = "start" => pc["checker"] = "unborn"

\* The number of requests that have left the reader, and the number of messages
\* that have left outChan.
Enqueued == Len(handled) + Len(inChan)
Dequeued == Len(written) + Len(writerMessage)

\* Where the requests are, by their places.
RequestsPlaced ==
  /\ \A i \in DOMAIN handled : handled[i] = i
  /\ \A i \in DOMAIN inChan : inChan[i].id = Len(handled) + i
  /\ IF pc["reader"] = "enqueue"
     THEN Len(readerMessage) = 1 /\ readerMessage[1].id = Enqueued + 1
     ELSE readerMessage = NoMessage
  /\ CASE pc["reader"] = "read" -> arrived = Enqueued
       [] pc["reader"] = "enqueue" -> arrived = Enqueued + 1
       [] OTHER -> arrived = Enqueued \/ (arrived = Enqueued + 1 /\ isClosed)
  /\ pc["handler"] \in {"handle", "reply"} => Len(request) = 1

\* Where the messages are, by their places.
MessagesPlaced ==
  /\ Len(written) <= Len(accepted)
  /\ \A i \in DOMAIN written : written[i] = accepted[i]
  /\ pc["writer"] = "select" => writerMessage = NoMessage
  /\ pc["writer"] = "write" =>
       Len(writerMessage) = 1 /\ writerMessage[1] = accepted[Len(written) + 1]
  /\ pc["writer"] \in {"select", "write"} =>
       /\ Len(accepted) = Dequeued + Len(outChan)
       /\ \A i \in DOMAIN outChan : outChan[i] = accepted[Dequeued + i]

IInv == TypeOK /\ CloseGuarded /\ RequestsPlaced /\ MessagesPlaced
=============================================================================
