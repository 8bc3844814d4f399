--------------------------- MODULE ProcessMessage ---------------------------
(***************************************************************************)
(* The message processing of the logic server: every minute a ticker reads *)
(* the messages that are neither read nor processed, newest first, sends   *)
(* each over its channels, stores it as processed, and finally pushes what *)
(* it has collected for the sockets.  The messages live in a database that *)
(* other services write to at the same time; the process may crash at any  *)
(* step and be started again, or be shut down.                             *)
(*                                                                         *)
(* A message is named by its place in the order of create_time.  A send is *)
(* named by the message and a number: i >= 1 for the e-mail to the i-th of *)
(* its addresses, 0 for the message queue.                                 *)
(***************************************************************************)
EXTENDS Naturals, Sequences, FiniteSets, Functions

CONSTANTS
  MaxMsgs,     \* bound on the number of messages
  Addresses,   \* e-mail addresses, which are also the names of the rooms
  Emails,      \* the fields of a message: its addresses, in order,
  Channel,     \*   the channels it is to be sent over,
  Source,      \*   and where it comes from
  MaxFaults    \* bound on crashes, shutdowns and failures of the database

Messages == 1..MaxMsgs
NoMessage == 0
Mq == 0

ASSUME ProcessAssumption ==
  /\ MaxMsgs \in Nat
  /\ Emails \in [Messages -> Seq(Addresses)]
  /\ Channel \in [Messages -> SUBSET {"email", "mq", "message"}]
  /\ DOMAIN Source = Messages
  /\ MaxFaults \in Nat

VARIABLES
  known,            \* stored: "absent" before the message is created
  processed,        \* stored: the messages whose processed is "processed"
  processedResult,  \* stored: the sends that are noted as failed
  pc,               \* where the ticker goroutine is
  todo,             \* the messages mcs of this round still to be processed
  ms,               \* the message in hand
  idx,              \* the next of its addresses
  failed,           \* ms.ProcessedResult
  scg,              \* the socket messages collected for each address
  hung,             \* the send the ticker goroutine is in never returns
  main,             \* where main is in the shutdown
  sent,             \* history: how often each send has been handed over
  dropped,          \* history: the messages whose queue send failed unnoticed
  faults,           \* history: how often a message was begun but not stored
  collected,        \* history: the messages of this round that reached scg
  faultsLeft        \* crashes, shutdowns and database failures still to come

stored == <<known, processed, processedResult>>
round == <<pc, todo, ms, idx, failed, scg, collected, hung>>
handed == <<sent, dropped>>
vars == <<stored, round, main, handed, faults, faultsLeft>>

Positions(m) == DOMAIN Emails[m]
Sends(m) == {Mq} \cup Positions(m)

\* Counts of what may be repeated for ever saturate here.
SentCap == MaxFaults + 2

Idle(label) ==
  /\ pc' = label
  /\ todo' = {}
  /\ ms' = NoMessage
  /\ idx' = 1
  /\ failed' = {}
  /\ scg' = [a \in Addresses |-> <<>>]
  /\ collected' = {}
  /\ hung' = FALSE

Init ==
  /\ known = [m \in Messages |-> "absent"]
  /\ processed = {}
  /\ processedResult = [m \in Messages |-> {}]
  /\ pc = "select"
  /\ todo = {}
  /\ ms = NoMessage
  /\ idx = 1
  /\ failed = {}
  /\ scg = [a \in Addresses |-> <<>>]
  /\ collected = {}
  /\ hung = FALSE
  /\ main = "running"
  /\ sent = [m \in Messages |-> [i \in Sends(m) |-> 0]]
  /\ dropped = {}
  /\ faults = [m \in Messages |-> 0]
  /\ faultsLeft = MaxFaults
-----------------------------------------------------------------------------
(* The other services.                                                     *)

\* A message is created; its user reads it.
Create(m) ==
  /\ known[m] = "absent"
  /\ \A n \in 1..(m - 1) : known[n] # "absent"
  /\ known' = [known EXCEPT ![m] = "unread"]
  /\ UNCHANGED <<processed, processedResult, round, main, handed, faults, faultsLeft>>

Read(m) ==
  /\ known[m] = "unread"
  /\ known' = [known EXCEPT ![m] = "read"]
  /\ UNCHANGED <<processed, processedResult, round, main, handed, faults, faultsLeft>>

-----------------------------------------------------------------------------
(* The end of the process, and its next start: what is not stored is gone. *)

ProcessEnds ==
  /\ Idle("down")
  /\ main' = "running"
  /\ faults' = [m \in Messages |-> IF m = ms THEN faults[m] + 1 ELSE faults[m]]
  /\ UNCHANGED <<stored, handed>>

Crash ==
  /\ pc # "down"
  /\ faultsLeft > 0
  /\ faultsLeft' = faultsLeft - 1
  /\ ProcessEnds

Restart ==
  /\ pc = "down"
  /\ pc' = "select"
  /\ UNCHANGED <<stored, todo, ms, idx, failed, scg, collected, hung, main,
                 handed, faults, faultsLeft>>

\* start: on a signal the database session is closed, then stopChan, then the
\* HTTP server and the push manager; then main returns, whatever the ticker is
\* doing.
CloseDatabase ==
  /\ pc # "down"
  /\ main = "running"
  /\ faultsLeft > 0
  /\ main' = "dbClosed"
  /\ faultsLeft' = faultsLeft - 1
  /\ UNCHANGED <<stored, round, handed, faults>>

CloseStopChan ==
  /\ main = "dbClosed"
  /\ main' = "stopClosed"
  /\ UNCHANGED <<stored, round, handed, faults, faultsLeft>>

Exit ==
  /\ main = "stopClosed"
  /\ ProcessEnds
  /\ UNCHANGED faultsLeft
-----------------------------------------------------------------------------
(* The ticker.                                                             *)

\* Mutant: what has been processed is not left out.
UnprocessedAll == {m \in Messages : known[m] = "unread"}

\* The query: {"known": "unread", "processed": {"$ne": "processed"}}
Unprocessed == {m \in Messages : known[m] = "unread" /\ m \notin processed}

\* case <-t.C: copying the closed root session panics, which ends the process;
\* a query that fails ends the round.
StartRound ==
  /\ pc = "select"
  /\ IF main # "running"
     THEN ProcessEnds /\ UNCHANGED faultsLeft
     ELSE /\ \/ /\ todo' = Unprocessed
                /\ pc' = "next"
                /\ UNCHANGED faultsLeft
             \/ /\ faultsLeft > 0
                /\ faultsLeft' = faultsLeft - 1
                /\ UNCHANGED <<pc, todo>>
          /\ UNCHANGED <<stored, ms, idx, failed, scg, collected, hung, main, handed, faults>>

\* case <-stopChan
TickerStop ==
  /\ pc = "select"
  /\ main = "stopClosed"
  /\ pc' = "stopped"
  /\ UNCHANGED <<stored, todo, ms, idx, failed, scg, collected, hung, main,
                 handed, faults, faultsLeft>>

\* The next message of the round, or the pushes when there is none left.
NextMessage ==
  /\ pc = "next"
  /\ IF todo = {}
     THEN pc' = "push" /\ UNCHANGED <<todo, ms, idx, failed>>
     ELSE \E m \in todo :
            /\ \A n \in todo : n <= m
            /\ todo' = todo \ {m}
            /\ ms' = m
            /\ idx' = 1
            /\ failed' = processedResult[m]
            /\ pc' = "email"
  /\ UNCHANGED <<stored, scg, collected, hung, main, handed, faults, faultsLeft>>

\* sendMailUsingTLS: each step of the dialogue may fail, which ends it with an
\* error.  The server takes the mail when it answers the end of the data, so
\* an answer that is lost and a Quit that fails are errors of a mail that goes
\* out.
SmtpSteps == {"Dial", "Auth", "Mail", "Rcpt", "Data", "Write", "Close", "Quit"}
SmtpAccepts(failing) ==
  IF failing \in {"none", "Quit"} THEN {TRUE}
  ELSE IF failing = "Close" THEN {TRUE, FALSE} ELSE {FALSE}

\* What may come of SendEmail.
SendEmail ==
  UNION {{[accepted |-> a, err |-> step # "none"] : a \in SmtpAccepts(step)} :
           step \in SmtpSteps \cup {"none"}}

\* What may come of SendMessage: it connects anew and hands its frame to the
\* connection without asking for a receipt.  A connection that fails later, or a
\* broker that refuses the frame, is noticed by Disconnect only, whose error is
\* discarded: the frame is lost without an error.
SendMessage ==
  {[accepted |-> TRUE, err |-> FALSE], [accepted |-> FALSE, err |-> TRUE],
   [accepted |-> FALSE, err |-> FALSE]}

Handed(i, accepted) ==
  sent' = IF accepted /\ sent[ms][i] < SentCap THEN [sent EXCEPT ![ms][i] = @ + 1] ELSE sent

Record(i, outcome) ==
  /\ Handed(i, outcome.accepted)
  /\ failed' = IF outcome.err THEN failed \cup {i} ELSE failed

\* No deadline is set for either send: a server that stops answering keeps the
\* ticker in it, before it took the message or after.
Hang(i) ==
  /\ \E accepted \in BOOLEAN : Handed(i, accepted)
  /\ hung' = TRUE
  /\ UNCHANGED <<pc, idx, failed, dropped>>

\* Mutants: the first failure ends the loop over the addresses; the address after
\* one that failed is left out.
AfterAddressBreaks(outcome) == IF outcome.err THEN Len(Emails[ms]) + 1 ELSE idx + 1
AfterAddressSkips(outcome) == IF outcome.err THEN idx + 2 ELSE idx + 1

AfterAddress(outcome) == idx + 1

\* The loop over the addresses of a message for the channel "email".
SendEmails ==
  /\ pc = "email"
  /\ ~hung
  /\ IF "email" \in Channel[ms] /\ idx <= Len(Emails[ms])
     THEN \/ \E outcome \in SendEmail :
               /\ Record(idx, outcome)
               /\ idx' = AfterAddress(outcome)
               /\ UNCHANGED <<pc, hung, dropped>>
          \/ Hang(idx)
     ELSE pc' = "mq" /\ idx' = 1 /\ UNCHANGED <<failed, hung, handed>>
  /\ UNCHANGED <<stored, todo, ms, scg, collected, main, faults, faultsLeft>>

SendMq ==
  /\ pc = "mq"
  /\ ~hung
  /\ IF "mq" \in Channel[ms]
     THEN \/ \E outcome \in SendMessage :
               /\ Record(Mq, outcome)
               /\ dropped' = IF outcome.accepted \/ outcome.err
                             THEN dropped ELSE dropped \cup {ms}
               /\ pc' = "message"
               /\ UNCHANGED <<idx, hung>>
          \/ Hang(Mq)
     ELSE pc' = "message" /\ UNCHANGED <<idx, failed, hung, handed>>
  /\ UNCHANGED <<stored, todo, ms, scg, collected, main, faults, faultsLeft>>

\* Mutant: only what is kept as data is counted.
MergedCountsData(entries, m) ==
  IF entries = <<>>
  THEN <<[name |-> Source[m], count |-> 1, data |-> <<m>>]>>
  ELSE [i \in DOMAIN entries |->
          IF entries[i].name = Source[m] /\ Len(entries[i].data) < 2
          THEN [entries[i] EXCEPT !.count = @ + 1, !.data = Append(@, m)]
          ELSE entries[i]]

\* What is collected for an address when message m is added: its first message
\* makes the entry of its source; a later one is counted if it is of that
\* source, and kept if it is among the first two.
Merged(entries, m) ==
  IF entries = <<>>
  THEN <<[name |-> Source[m], count |-> 1, data |-> <<m>>]>>
  ELSE [i \in DOMAIN entries |->
          IF entries[i].name = Source[m]
          THEN [entries[i] EXCEPT !.count = @ + 1,
                                  !.data = IF Len(@) >= 2 THEN @ ELSE Append(@, m)]
          ELSE entries[i]]

\* Mutant: a message without addresses ends the round.
AfterSkipReturns == "push"

\* continue
AfterSkip == "next"

\* The channel "message": a message without addresses is left as it is, not
\* even stored; otherwise it is added for each address in turn.
Collect ==
  /\ pc = "message"
  /\ IF "message" \notin Channel[ms] THEN
       pc' = "update" /\ UNCHANGED <<ms, idx, scg, collected>>
     ELSE IF Emails[ms] = <<>> THEN
       pc' = AfterSkip /\ ms' = NoMessage /\ UNCHANGED <<idx, scg, collected>>
     ELSE IF idx <= Len(Emails[ms]) THEN
       /\ scg' = [scg EXCEPT ![Emails[ms][idx]] = Merged(@, ms)]
       /\ idx' = idx + 1
       /\ UNCHANGED <<pc, ms, collected>>
     ELSE
       /\ pc' = "update"
       /\ collected' = collected \cup {ms}
       /\ UNCHANGED <<ms, idx, scg>>
  /\ UNCHANGED <<stored, todo, failed, hung, main, handed, faults, faultsLeft>>

\* UpdateId replaces the whole document by the one that was read at the start
\* of the round.
Store ==
  /\ known' = [known EXCEPT ![ms] = "unread"]
  /\ processed' = processed \cup {ms}
  /\ processedResult' = [processedResult EXCEPT ![ms] = failed]

\* An error of UpdateId is only logged; the document may have been replaced or
\* not.
Update ==
  /\ pc = "update"
  /\ pc' = "next"
  /\ ms' = NoMessage
  /\ \/ Store /\ UNCHANGED <<faults, faultsLeft>>
     \/ /\ faultsLeft > 0
        /\ faultsLeft' = faultsLeft - 1
        /\ faults' = [faults EXCEPT ![ms] = @ + 1]
        /\ Store \/ UNCHANGED stored
  /\ UNCHANGED <<todo, idx, failed, scg, collected, hung, main, handed>>

\* PushRoom for one of the addresses that have something collected, in any
\* order.  What becomes of the push is the subject of LogicPush: the error of a
\* full channel is only logged here.
PushRoom(a) ==
  /\ pc = "push"
  /\ scg[a] # <<>>
  /\ scg' = [scg EXCEPT ![a] = <<>>]
  /\ UNCHANGED <<stored, pc, todo, ms, idx, failed, collected, hung, main, handed, faults,
                 faultsLeft>>

EndRound ==
  /\ pc = "push"
  /\ \A a \in Addresses : scg[a] = <<>>
  /\ Idle("select")
  /\ UNCHANGED <<stored, main, handed, faults, faultsLeft>>
-----------------------------------------------------------------------------
Ticker ==
  \/ StartRound \/ TickerStop \/ NextMessage \/ SendEmails \/ SendMq \/ Collect
  \/ Update \/ EndRound
  \/ \E a \in Addresses : PushRoom(a)

Shutdown == CloseStopChan \/ Exit

Next ==
  \/ \E m \in Messages : Create(m) \/ Read(m)
  \/ Crash \/ Restart \/ CloseDatabase \/ Shutdown
  \/ Ticker

\* The goroutines run, a shutdown that has begun goes on, and whoever runs the
\* process starts it again.  Faults are bounded by MaxFaults.  Nobody promises
\* that a send returns: when one hangs, the ticker has no step.
Fairness == WF_vars(Ticker) /\ WF_vars(Shutdown) /\ WF_vars(Restart)

Spec == Init /\ [][Next]_vars
FairSpec == Spec /\ Fairness
-----------------------------------------------------------------------------
(* Properties.                                                             *)

Busy == {"email", "mq", "message", "update"}

SocketMessages == [name : Range(Source), count : Nat, data : Seq(Messages)]

TypeOK ==
  /\ known \in [Messages -> {"absent", "unread", "read"}]
  /\ processed \subseteq Messages
  /\ processedResult \in [Messages -> SUBSET Nat]
  /\ pc \in Busy \cup {"select", "next", "push", "stopped", "down"}
  /\ todo \subseteq Messages
  /\ ms \in Messages \cup {NoMessage}
  /\ ms # NoMessage <=> pc \in Busy
  /\ idx \in Nat \ {0}
  /\ ms # NoMessage => idx <= Len(Emails[ms]) + 1
  /\ failed \subseteq Nat
  /\ scg \in [Addresses -> Seq(SocketMessages)]
  /\ collected \subseteq Messages
  /\ hung = FALSE \/ (hung = TRUE /\ pc \in {"email", "mq"})
  /\ main \in {"running", "dbClosed", "stopClosed"}
  /\ DOMAIN sent = Messages
  /\ \A m \in Messages : sent[m] \in [Sends(m) -> 0..SentCap]
  /\ dropped \subseteq Messages
  /\ faults \in [Messages -> 0..MaxFaults]
  /\ faultsLeft \in 0..MaxFaults

\* The sends a message asks for.
Asked(m) ==
  (IF "email" \in Channel[m] THEN Positions(m) ELSE {})
    \cup (IF "mq" \in Channel[m] THEN {Mq} ELSE {})

\* What has become of a send is known: it was handed over, it is noted in result,
\* or it is the queue message of m, which alone can be lost without an error.
AccountedFor(m, i, result) == sent[m][i] > 0 \/ i \in result \/ (i = Mq /\ m \in dropped)

\* A message is not marked as processed before every one of its sends has been
\* handed over or is noted as failed in the result that is stored with it,
\* whatever failed, crashed or was retried on the way there; but for a queue
\* message that SendMessage lost without an error.
ProcessedIsAccountedFor ==
  \A m \in processed : \A i \in Asked(m) : AccountedFor(m, i, processedResult[m])

\* The messages the loop body skips before it stores them.
IsSkipped(m) == "message" \in Channel[m] /\ Emails[m] = <<>>

\* Nothing is sent again without need: a send is handed over once, and once more
\* for each time the message was begun and its processing not confirmed by the
\* database.  (What is skipped is never stored and sent in every round.)
RepeatedOnlyAfterFault ==
  \A m \in Messages : ~IsSkipped(m) =>
    \A i \in Sends(m) : sent[m][i] <= faults[m] + 1

\* The messages of this round that were sent to address a.
CollectedFor(a) == {m \in collected : a \in Range(Emails[m])}

\* What is collected for an address when the messages have all been processed:
\* one entry, for the source of its newest message, that counts the messages of
\* that source once for each time they name the address, and keeps the two newest.
NewestSourceIsCollected ==
  pc = "next" /\ todo = {} =>
    \A a \in Addresses : CollectedFor(a) # {} =>
      \E first \in CollectedFor(a) :
        LET same == {m \in CollectedFor(a) : Source[m] = Source[first]}
            places == UNION {{m} \X {i \in Positions(m) : Emails[m][i] = a} : m \in same}
            entry == scg[a][1]
        IN  /\ \A m \in CollectedFor(a) : m <= first
            /\ Len(scg[a]) = 1
            /\ entry.name = Source[first]
            /\ entry.count = Cardinality(places)
            /\ Len(entry.data) = IF Cardinality(places) >= 2 THEN 2 ELSE 1
            /\ \A i \in DOMAIN entry.data : entry.data[i] \in same
            /\ \A m \in same \ Range(entry.data), i \in DOMAIN entry.data : m < entry.data[i]

\* Every message is processed in the end or read by its user, in spite of
\* crashes, shutdowns and a failing database, unless the loop body skips it or
\* the ticker never comes out of a send; a message that is skipped does not keep
\* the others from being processed.
EveryMessageIsProcessed ==
  \A m \in Messages :
    known[m] = "unread" /\ ~IsSkipped(m) ~> m \in processed \/ known[m] = "read" \/ []hung

\* "将消息按照邮箱分组，并根据消息来源聚合" (process.go:103): the messages are
\* grouped by address and aggregated by source, so each source that has a message
\* for an address has an entry there.
AggregatedBySource ==
  pc = "next" /\ todo = {} =>
    \A m \in collected : \A a \in Range(Emails[m]) :
      \E i \in DOMAIN scg[a] : scg[a][i].name = Source[m]

\* "是否已读 read/unread" (structure.go:15): known tells whether the user has
\* read the message, so it stays read once it is.
ReadStaysRead == [][\A m \in Messages : known[m] = "read" => known'[m] = "read"]_vars
-----------------------------------------------------------------------------
(* The inductive invariant behind TypeOK, ProcessedIsAccountedFor and        *)
(* RepeatedOnlyAfterFault (proved in ProcessMessage_proofs).                 *)

\* The sends of message m that have been tried since it was taken in hand.
Tried(m) ==
  IF m # ms THEN {}
  ELSE IF pc = "email" THEN {i \in Asked(m) : 1 <= i /\ i < idx}
  ELSE IF pc = "mq" THEN Asked(m) \ {Mq}
  ELSE Asked(m)

\* What is to be processed in this round, or in hand, is not stored as processed.
NoneProcessedTwice == todo \cap processed = {} /\ ms \notin processed \cup todo

\* A send that has been tried was handed over, or its failure is remembered.
TriedIsAccountedFor ==
  ms # NoMessage => \A i \in Tried(ms) : AccountedFor(ms, i, failed)

\* What has been handed over more often than the message was begun in vain has
\* been handed over since the message was taken in hand, if only in the send that
\* hangs, or is stored.
SentCounted ==
  \A m \in Messages : ~IsSkipped(m) =>
    \A i \in Sends(m) :
      \/ sent[m][i] <= faults[m]
      \/ sent[m][i] = faults[m] + 1 /\ (m \in processed \/ i \in Tried(m) \/ (m = ms /\ hung))

\* Every fault is paid for, a shutdown when it begins.
FaultsPaid ==
  \A m \in Messages :
    faults[m] + faultsLeft + (IF main = "running" THEN 0 ELSE 1) <= MaxFaults

IInv ==
  /\ TypeOK
  /\ ProcessedIsAccountedFor
  /\ NoneProcessedTwice
  /\ TriedIsAccountedFor
  /\ SentCounted
  /\ FaultsPaid
=============================================================================
