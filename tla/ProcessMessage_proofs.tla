------------------------ MODULE ProcessMessage_proofs ------------------------
(***************************************************************************)
(* The inductive invariant of ProcessMessage, and what follows from it for *)
(* any messages, addresses, channels and number of faults: no message is   *)
(* stored as processed before all its sends are accounted for (a queue     *)
(* message lost without an error is known only to dropped), nothing is     *)
(* sent again unless its processing was interrupted, and what is collected *)
(* for the sockets lists the newest source of every address, and counts    *)
(* its messages.                                                           *)
(***************************************************************************)
EXTENDS ProcessMessage, FiniteSetTheorems, SequenceTheorems, TLAPS

\* The parts of the invariant that speak of single sends.
Accounts == ProcessedIsAccountedFor /\ NoneProcessedTwice /\ TriedIsAccountedFor /\ SentCounted

\* At the start nothing has been sent or stored.
LEMMA InitIInv == Init => IInv
  <1> SUFFICES ASSUME Init PROVE IInv
    OBVIOUS
  <1>1. TypeOK
    BY ProcessAssumption DEF Init, TypeOK, ProcessAssumption, Busy, Messages, NoMessage, SentCap
  <1>2. Accounts
    BY DEF Init, Accounts, ProcessedIsAccountedFor, NoneProcessedTwice,
           TriedIsAccountedFor, SentCounted, Messages, NoMessage, Sends, Positions
  <1>3. FaultsPaid
    BY ProcessAssumption DEF Init, FaultsPaid, ProcessAssumption, Messages
  <1> QED
    BY <1>1, <1>2, <1>3 DEF IInv, Accounts

\* Sends are numbered, and what is asked for is a send.
LEMMA AskedIsSends ==
  \A m \in Messages : Asked(m) \subseteq Sends(m) /\ Sends(m) \subseteq Nat
  BY ProcessAssumption DEF ProcessAssumption, Asked, Sends, Positions, Mq

\* Whatever becomes of a mail, it is accepted or fails with an error.
LEMMA MailsNotSilent ==
  ASSUME NEW outcome \in SendEmail PROVE outcome.accepted \/ outcome.err
  <1>1. PICK step \in SmtpSteps \cup {"none"} :
          outcome \in {[accepted |-> a, err |-> step # "none"] : a \in SmtpAccepts(step)}
    BY DEF SendEmail
  <1>2. PICK a \in SmtpAccepts(step) : outcome = [accepted |-> a, err |-> step # "none"]
    BY <1>1
  <1>3. step = "none" => a
    BY <1>2 DEF SmtpAccepts
  <1>4. outcome.accepted = a /\ outcome.err = (step # "none")
    BY <1>2
  <1> QED
    BY <1>3, <1>4

\* The end of a process leaves nothing in hand, and counts what was in hand.
LEMMA EndIInv ==
  ASSUME IInv, ProcessEnds,
         \/ faultsLeft' = faultsLeft /\ (main # "running" \/ ms = NoMessage)
         \/ faultsLeft > 0 /\ faultsLeft' = faultsLeft - 1
  PROVE  IInv'
  <1> USE DEF ProcessEnds, Idle, stored, handed
  <1>1. /\ MaxFaults \in Nat /\ faultsLeft \in Nat /\ NoMessage \notin Messages
        /\ faults \in [Messages -> Nat] /\ faults' \in [Messages -> Nat]
        /\ main' = "running"
        /\ \A m \in Messages : faults'[m] = IF m = ms THEN faults[m] + 1 ELSE faults[m]
    BY ProcessAssumption DEF IInv, TypeOK, ProcessAssumption, Messages, NoMessage
  <1>2. FaultsPaid'
    <2> SUFFICES ASSUME NEW m \in Messages PROVE faults'[m] + faultsLeft' <= MaxFaults
      BY <1>1 DEF FaultsPaid
    <2> faults[m] + faultsLeft + (IF main = "running" THEN 0 ELSE 1) <= MaxFaults
      BY DEF IInv, FaultsPaid
    <2> QED
      BY <1>1
  <1>3. TypeOK'
    <2>1. faultsLeft' \in 0..MaxFaults
      BY <1>1 DEF IInv, TypeOK
    <2>2. faults' \in [Messages -> 0..MaxFaults]
      BY <1>1, <1>2, <2>1 DEF FaultsPaid
    <2>3. scg' \in [Addresses -> Seq(SocketMessages)]
      OBVIOUS
    <2> QED
      BY <2>1, <2>2, <2>3, <1>1 DEF IInv, TypeOK, Busy
  <1>4. ProcessedIsAccountedFor'
    BY DEF IInv, ProcessedIsAccountedFor, AccountedFor
  <1>5. NoneProcessedTwice'
    BY <1>1 DEF IInv, TypeOK, NoneProcessedTwice
  <1>6. TriedIsAccountedFor'
    BY DEF TriedIsAccountedFor
  <1>7. SentCounted'
    <2> SUFFICES ASSUME NEW m \in Messages, ~IsSkipped(m), NEW i \in Sends(m)
                 PROVE  \/ sent[m][i] <= faults'[m]
                        \/ sent[m][i] = faults'[m] + 1 /\ m \in processed
      BY DEF SentCounted
    <2>1. sent[m][i] \in Nat
      BY <1>1 DEF IInv, TypeOK, SentCap
    <2>2. \/ sent[m][i] <= faults[m]
          \/ sent[m][i] = faults[m] + 1 /\ (m \in processed \/ m = ms)
      BY DEF IInv, SentCounted, Tried
    <2> QED
      BY <1>1, <2>1, <2>2
  <1> QED
    BY <1>2, <1>3, <1>4, <1>5, <1>6, <1>7 DEF IInv

\* Steps between two messages, or beside the one in hand, that neither send nor
\* store anything.
LEMMA AccountsKept ==
  ASSUME IInv, UNCHANGED <<ms, processed, processedResult, sent, dropped, failed, faults>>,
         todo' \cap processed = {}, ms \notin todo',
         ms = NoMessage \/ UNCHANGED <<pc, idx, hung>>
  PROVE  Accounts'
  <1>1. NoMessage \notin Messages
    BY DEF NoMessage, Messages
  <1>2. \A m \in Messages : Tried(m)' = Tried(m)
    BY <1>1 DEF Tried
  <1>3. ProcessedIsAccountedFor' /\ NoneProcessedTwice'
    BY DEF IInv, ProcessedIsAccountedFor, AccountedFor, NoneProcessedTwice
  <1>4. TriedIsAccountedFor'
    <2>1. ms \in Messages \cup {NoMessage}
      BY DEF IInv, TypeOK
    <2> QED
      BY <1>2, <2>1 DEF IInv, TriedIsAccountedFor, AccountedFor
  <1>5. SentCounted'
    BY <1>1, <1>2 DEF IInv, SentCounted
  <1> QED
    BY <1>3, <1>4, <1>5 DEF Accounts

\* A message that is taken in hand has been tried on none of its channels.
LEMMA NextMessageIInv == IInv /\ NextMessage => IInv'
  <1> SUFFICES ASSUME IInv, NextMessage PROVE IInv'
    OBVIOUS
  <1> USE DEF NextMessage, stored, handed
  <1>1. /\ TypeOK /\ NoneProcessedTwice /\ pc = "next" /\ ms = NoMessage
        /\ NoMessage \notin Messages
    <2>1. TypeOK /\ NoneProcessedTwice
      BY DEF IInv
    <2>2. pc = "next"
      OBVIOUS
    <2>3. ms = NoMessage
      BY <2>1, <2>2 DEF TypeOK, Busy
    <2>4. NoMessage \notin Messages
      BY DEF Messages, NoMessage
    <2> QED
      BY <2>1, <2>2, <2>3, <2>4
  <1>2. FaultsPaid'
    BY DEF IInv, FaultsPaid
  <1>3. CASE todo = {}
    <2>1. TypeOK'
      BY <1>1, <1>3 DEF TypeOK, Busy
    <2>2. Accounts'
      BY <1>1, <1>3, AccountsKept
    <2> QED
      BY <1>2, <2>1, <2>2 DEF IInv, Accounts
  <1>4. CASE todo # {}
    <2>1. /\ ms' \in todo /\ ms' \in Messages /\ todo' = todo \ {ms'} /\ idx' = 1 /\ pc' = "email"
          /\ failed' = processedResult[ms']
      BY <1>1, <1>4 DEF TypeOK
    <2>0. TypeOK'
      <3>1. failed' \subseteq Nat
        BY <1>1, <2>1 DEF TypeOK
      <3>2. idx' <= Len(Emails[ms']) + 1
        BY <2>1, ProcessAssumption DEF ProcessAssumption
      <3> QED
        BY <1>1, <2>1, <3>1, <3>2 DEF TypeOK, Busy
    <2>2. \A m \in Messages : Tried(m) = {} /\ Tried(m)' = {}
      BY <1>1, <2>1, AskedIsSends DEF Tried
    <2>3. ProcessedIsAccountedFor' /\ NoneProcessedTwice'
      BY <1>1, <2>1 DEF IInv, ProcessedIsAccountedFor, AccountedFor, NoneProcessedTwice
    <2>4. TriedIsAccountedFor' /\ SentCounted'
      BY <1>1, <2>1, <2>2 DEF IInv, TriedIsAccountedFor, SentCounted
    <2> QED
      BY <1>2, <2>0, <2>3, <2>4 DEF IInv
  <1> QED
    BY <1>3, <1>4

\* What Handed does to the counts.
LEMMA HandedCounts ==
  ASSUME IInv, ms # NoMessage, NEW i \in Asked(ms), NEW accepted, Handed(i, accepted)
  PROVE  /\ ms \in Messages /\ ms \notin processed /\ i \in Sends(ms) /\ i \in Nat
         /\ sent[ms][i] \in Nat
         /\ DOMAIN sent' = Messages
         /\ \A m \in Messages : sent'[m] \in [Sends(m) -> 0..SentCap]
         /\ \A m \in Messages : \A j \in Sends(m) : m # ms \/ j # i => sent'[m][j] = sent[m][j]
         /\ sent'[ms][i] \in {sent[ms][i], sent[ms][i] + 1}
         /\ accepted => sent'[ms][i] > 0
  <1> DEFINE n == sent[ms][i]
  <1>1. /\ ms \in Messages /\ ms \notin processed
        /\ i \in Sends(ms) /\ i \in Nat
        /\ SentCap \in Nat
    <2>1. ms \in Messages /\ ms \notin processed
      BY DEF IInv, TypeOK, NoneProcessedTwice
    <2> QED
      BY <2>1, AskedIsSends, ProcessAssumption DEF SentCap, ProcessAssumption
  <1>2. /\ DOMAIN sent = Messages
        /\ \A m \in Messages : sent[m] \in [Sends(m) -> 0..SentCap]
    BY DEF IInv, TypeOK
  <1>3. n \in 0..SentCap
    BY <1>1, <1>2
  <1>4. CASE accepted /\ n < SentCap
    <2>1. sent' = [sent EXCEPT ![ms][i] = @ + 1]
      BY <1>4 DEF Handed
    <2>2. \A m \in Messages : sent'[m] = IF m = ms THEN [sent[ms] EXCEPT ![i] = @ + 1] ELSE sent[m]
      BY <2>1, <1>2
    <2>3. sent[ms] \in [Sends(ms) -> 0..SentCap] /\ n + 1 \in 1..SentCap
      BY <1>4, <1>1, <1>2, <1>3
    <2>4. sent'[ms] \in [Sends(ms) -> 0..SentCap] /\ sent'[ms][i] = n + 1
      BY <2>2, <2>3, <1>1
    <2>5. \A j \in Sends(ms) : j # i => sent'[ms][j] = sent[ms][j]
      BY <2>2, <2>3, <1>1
    <2>6. DOMAIN sent' = Messages
      BY <2>1, <1>2
    <2> QED
      BY <2>2, <2>3, <2>4, <2>5, <2>6, <1>1, <1>2, <1>3
  <1>5. CASE ~(accepted /\ n < SentCap)
    <2>1. sent' = sent
      BY <1>5 DEF Handed
    <2>2. SentCap > 0
      BY ProcessAssumption DEF ProcessAssumption, SentCap
    <2> QED
      BY <1>5, <2>1, <2>2, <1>1, <1>2, <1>3
  <1> QED
    BY <1>4, <1>5

\* Handing a send over takes nothing from what was accounted for before.
LEMMA StaysAccountedFor ==
  ASSUME IInv, ms # NoMessage, NEW i \in Asked(ms), NEW accepted, Handed(i, accepted),
         dropped \subseteq dropped', failed \subseteq failed', UNCHANGED <<stored, todo, ms>>
  PROVE  /\ ProcessedIsAccountedFor' /\ NoneProcessedTwice'
         /\ \A j \in Tried(ms) : j # i => AccountedFor(ms, j, failed)'
  <1>1. /\ ms \in Messages /\ ms \notin processed
        /\ \A m \in Messages : \A j \in Sends(m) : m # ms \/ j # i => sent'[m][j] = sent[m][j]
    BY HandedCounts
  <1>2. ProcessedIsAccountedFor'
    <2> SUFFICES ASSUME NEW m \in processed, NEW j \in Asked(m)
                 PROVE  AccountedFor(m, j, processedResult[m])'
      BY DEF ProcessedIsAccountedFor, stored, Asked, Positions
    <2>1. m \in Messages /\ j \in Sends(m) /\ m # ms
      BY <1>1 DEF IInv, TypeOK, Asked, Sends
    <2>2. AccountedFor(m, j, processedResult[m])
      BY DEF IInv, ProcessedIsAccountedFor
    <2> QED
      BY <1>1, <2>1, <2>2 DEF AccountedFor, stored
  <1>3. NoneProcessedTwice'
    BY DEF IInv, NoneProcessedTwice, stored
  <1>4. ASSUME NEW j \in Tried(ms), j # i PROVE AccountedFor(ms, j, failed)'
    <2>1. j \in Sends(ms)
      BY DEF Tried, Asked, Sends
    <2>2. AccountedFor(ms, j, failed)
      BY DEF IInv, TriedIsAccountedFor
    <2> QED
      BY <1>1, <1>4, <2>1, <2>2 DEF AccountedFor
  <1> QED
    BY <1>2, <1>3, <1>4

\* One send of the message in hand: what follows from the outcome, whichever of
\* the channels it is.
LEMMA SendIInv ==
  ASSUME IInv, ms # NoMessage, ~hung, NEW i \in Asked(ms), NEW outcome,
         i \notin Tried(ms), Record(i, outcome),
         outcome.accepted \/ outcome.err \/ (i = Mq /\ ms \in dropped'),
         dropped \subseteq dropped',
         Tried(ms)' = Tried(ms) \cup {i},
         UNCHANGED <<stored, todo, ms, faults, hung>>
  PROVE  Accounts' /\ failed' \subseteq Nat /\ DOMAIN sent' = Messages
           /\ \A m \in Messages : sent'[m] \in [Sends(m) -> 0..SentCap]
  <1>1. Handed(i, outcome.accepted) /\ failed' = IF outcome.err THEN failed \cup {i} ELSE failed
    BY DEF Record
  <1>2. /\ ms \in Messages /\ i \in Nat /\ sent[ms][i] \in Nat
        /\ DOMAIN sent' = Messages
        /\ \A m \in Messages : sent'[m] \in [Sends(m) -> 0..SentCap]
        /\ \A m \in Messages : \A j \in Sends(m) : m # ms \/ j # i => sent'[m][j] = sent[m][j]
        /\ sent'[ms][i] \in {sent[ms][i], sent[ms][i] + 1}
        /\ outcome.accepted => sent'[ms][i] > 0
    BY <1>1, HandedCounts
  <1>3. failed' \subseteq Nat /\ failed \subseteq failed' /\ (outcome.err => i \in failed')
    BY <1>1, <1>2 DEF IInv, TypeOK
  <1>4. /\ ProcessedIsAccountedFor' /\ NoneProcessedTwice'
        /\ \A j \in Tried(ms) : j # i => AccountedFor(ms, j, failed)'
    BY <1>1, <1>3, StaysAccountedFor
  <1>5. TriedIsAccountedFor'
    <2>1. AccountedFor(ms, i, failed)'
      BY <1>2, <1>3 DEF AccountedFor
    <2>2. \A j \in Tried(ms)' : AccountedFor(ms, j, failed)'
      BY <1>4, <2>1
    <2> QED
      BY <2>2 DEF TriedIsAccountedFor
  <1>6. SentCounted'
    <2> SUFFICES ASSUME NEW m \in Messages, ~IsSkipped(m), NEW j \in Sends(m)
                 PROVE  \/ sent'[m][j] <= faults[m]
                        \/ sent'[m][j] = faults[m] + 1 /\ (m \in processed \/ j \in Tried(m)')
      BY DEF SentCounted, stored
    <2>1. \/ sent[m][j] <= faults[m]
          \/ sent[m][j] = faults[m] + 1 /\ (m \in processed \/ j \in Tried(m))
      BY DEF IInv, SentCounted
    <2>2. CASE m = ms /\ j = i
      <3>1. faults[m] \in Nat /\ j \in Tried(m)' /\ m \notin processed
        BY <2>2 DEF IInv, TypeOK, NoneProcessedTwice
      <3>2. sent[m][j] <= faults[m]
        BY <2>1, <2>2, <3>1
      <3> QED
        BY <2>2, <3>1, <3>2, <1>2
    <2>3. CASE m # ms \/ j # i
      <3>1. j \in Tried(m) => j \in Tried(m)'
        BY DEF Tried
      <3> QED
        BY <2>1, <2>3, <3>1, <1>2
    <2> QED
      BY <2>2, <2>3
  <1> QED
    BY <1>2, <1>3, <1>4, <1>5, <1>6 DEF Accounts

\* A send that hangs may have handed something over.
LEMMA HangIInv ==
  ASSUME IInv, ms # NoMessage, ~hung, NEW i \in Asked(ms), i \notin Tried(ms), Hang(i),
         UNCHANGED <<stored, todo, ms, faults>>
  PROVE  Accounts' /\ DOMAIN sent' = Messages
           /\ \A m \in Messages : sent'[m] \in [Sends(m) -> 0..SentCap]
  <1>1. PICK accepted \in BOOLEAN : Handed(i, accepted)
    BY DEF Hang
  <1>2. hung' = TRUE /\ UNCHANGED <<pc, idx, failed, dropped>>
    BY DEF Hang
  <1>3. /\ ms \in Messages /\ sent[ms][i] \in Nat
        /\ DOMAIN sent' = Messages
        /\ \A m \in Messages : sent'[m] \in [Sends(m) -> 0..SentCap]
        /\ \A m \in Messages : \A j \in Sends(m) : m # ms \/ j # i => sent'[m][j] = sent[m][j]
        /\ sent'[ms][i] \in {sent[ms][i], sent[ms][i] + 1}
    BY <1>1, HandedCounts
  <1>4. /\ ProcessedIsAccountedFor' /\ NoneProcessedTwice'
        /\ \A j \in Tried(ms) : j # i => AccountedFor(ms, j, failed)'
    BY <1>1, <1>2, StaysAccountedFor
  <1>5. \A m \in Messages : Tried(m)' = Tried(m)
    BY <1>2 DEF Tried
  <1>6. TriedIsAccountedFor'
    <2>1. \A j \in Tried(ms)' : AccountedFor(ms, j, failed)'
      BY <1>3, <1>4, <1>5
    <2> QED
      BY <2>1 DEF TriedIsAccountedFor
  <1>7. SentCounted'
    <2> SUFFICES ASSUME NEW m \in Messages, ~IsSkipped(m), NEW j \in Sends(m)
                 PROVE  \/ sent'[m][j] <= faults[m]
                        \/ sent'[m][j] = faults[m] + 1 /\ (m \in processed \/ j \in Tried(m) \/ m = ms)
      BY <1>2, <1>5 DEF SentCounted, stored
    <2>1. \/ sent[m][j] <= faults[m]
          \/ sent[m][j] = faults[m] + 1 /\ (m \in processed \/ j \in Tried(m))
      BY DEF IInv, SentCounted
    <2>2. CASE m = ms /\ j = i
      <3>1. faults[m] \in Nat /\ m \notin processed
        BY <2>2 DEF IInv, TypeOK, NoneProcessedTwice
      <3>2. sent[m][j] <= faults[m]
        BY <2>1, <2>2, <3>1
      <3> QED
        BY <2>2, <3>1, <3>2, <1>3
    <2>3. CASE m # ms \/ j # i
      BY <2>1, <2>3, <1>3
    <2> QED
      BY <2>2, <2>3
  <1> QED
    BY <1>3, <1>4, <1>6, <1>7 DEF Accounts

\* Creating and reading messages, a start, and the end of a wait or a round.
LEMMA BetweenMessagesIInv ==
  ASSUME IInv,
         \/ \E m \in Messages : Create(m) \/ Read(m)
         \/ Restart \/ CloseStopChan \/ TickerStop \/ EndRound
         \/ \E a \in Addresses : PushRoom(a)
  PROVE  IInv'
  <1> USE DEF stored, round, handed
  <1>1. TypeOK /\ NoneProcessedTwice /\ FaultsPaid /\ NoMessage \notin Messages
    BY DEF IInv, Messages, NoMessage
  <1>2. ASSUME NEW m \in Messages, Create(m) \/ Read(m) PROVE IInv'
    <2>1. TypeOK'
      BY <1>1, <1>2 DEF TypeOK, Create, Read
    <2>2. FaultsPaid'
      BY <1>1, <1>2 DEF FaultsPaid, Create, Read
    <2>3. Accounts'
      <3>1. /\ UNCHANGED <<ms, processed, processedResult, sent, dropped, failed, faults>>
            /\ UNCHANGED <<pc, idx, todo, hung>>
        BY <1>2 DEF Create, Read
      <3> QED
        BY <1>1, <3>1, AccountsKept DEF NoneProcessedTwice
    <2> QED
      BY <2>1, <2>2, <2>3 DEF IInv, Accounts
  <1>3. CASE CloseStopChan
    <2>1. TypeOK'
      BY <1>1, <1>3 DEF TypeOK, CloseStopChan
    <2>2. FaultsPaid'
      BY <1>1, <1>3 DEF FaultsPaid, CloseStopChan
    <2>3. Accounts'
      <3>1. /\ UNCHANGED <<ms, processed, processedResult, sent, dropped, failed, faults>>
            /\ UNCHANGED <<pc, idx, todo, hung>>
        BY <1>3 DEF CloseStopChan
      <3> QED
        BY <1>1, <3>1, AccountsKept DEF NoneProcessedTwice
    <2> QED
      BY <2>1, <2>2, <2>3 DEF IInv, Accounts
  <1>4. CASE Restart \/ TickerStop \/ EndRound
    <2>1. TypeOK'
      <3>1. CASE Restart \/ TickerStop
        BY <1>1, <3>1 DEF TypeOK, Restart, TickerStop, Busy
      <3>2. CASE EndRound
        <4>1. /\ pc' = "select" /\ todo' = {} /\ ms' = NoMessage /\ idx' = 1 /\ failed' = {}
              /\ scg' = [a \in Addresses |-> <<>>] /\ collected' = {} /\ hung' = FALSE
              /\ UNCHANGED <<stored, main, handed, faults, faultsLeft>>
          BY <3>2 DEF EndRound, Idle
        <4>2. scg' \in [Addresses -> Seq(SocketMessages)]
          BY <4>1
        <4> QED
          BY <1>1, <4>1, <4>2 DEF TypeOK, Busy
      <3> QED
        BY <1>4, <3>1, <3>2
    <2>2. FaultsPaid'
      BY <1>1, <1>4 DEF FaultsPaid, Restart, TickerStop, EndRound
    <2>3. Accounts'
      <3>1. ms = NoMessage /\ UNCHANGED <<ms, processed, processedResult, sent, dropped, faults>>
        BY <1>1, <1>4 DEF TypeOK, Restart, TickerStop, EndRound, Idle, Busy
      <3>2. todo' \cap processed = {} /\ ms \notin todo'
        BY <1>1, <1>4 DEF NoneProcessedTwice, Restart, TickerStop, EndRound, Idle
      <3>3. \A m \in Messages : Tried(m)' = Tried(m)
        BY <1>1, <3>1 DEF Tried
      <3>4. ProcessedIsAccountedFor' /\ NoneProcessedTwice' /\ TriedIsAccountedFor' /\ SentCounted'
        <4>1. ProcessedIsAccountedFor'
          BY <3>1, <1>4 DEF IInv, ProcessedIsAccountedFor, AccountedFor, Restart, TickerStop, EndRound
        <4>2. NoneProcessedTwice' /\ TriedIsAccountedFor'
          BY <1>1, <3>1, <3>2 DEF NoneProcessedTwice, TriedIsAccountedFor
        <4>3. SentCounted'
          BY <1>1, <3>1, <3>3 DEF IInv, SentCounted
        <4> QED
          BY <4>1, <4>2, <4>3
      <3> QED
        BY <3>4 DEF Accounts
    <2> QED
      BY <2>1, <2>2, <2>3 DEF IInv, Accounts
  <1>5. ASSUME NEW a \in Addresses, PushRoom(a) PROVE IInv'
    <2>1. TypeOK'
      BY <1>1, <1>5 DEF TypeOK, PushRoom
    <2>2. FaultsPaid'
      BY <1>1, <1>5 DEF FaultsPaid, PushRoom
    <2>3. Accounts'
      BY <1>1, <1>5, AccountsKept DEF NoneProcessedTwice, PushRoom
    <2> QED
      BY <2>1, <2>2, <2>3 DEF IInv, Accounts
  <1> QED
    BY <1>2, <1>3, <1>4, <1>5

\* A crash and an exit end the process; so does a tick after the database
\* session was closed.
LEMMA CrashIInv == IInv /\ (Crash \/ Exit) => IInv'
  <1> SUFFICES ASSUME IInv, Crash \/ Exit PROVE IInv'
    OBVIOUS
  <1>1. ProcessEnds
    BY DEF Crash, Exit
  <1>2. \/ faultsLeft' = faultsLeft /\ main # "running"
        \/ faultsLeft > 0 /\ faultsLeft' = faultsLeft - 1
    BY DEF Crash, Exit
  <1> QED
    BY <1>1, <1>2, EndIInv

\* Closing the database neither sends nor stores anything.
LEMMA CloseDatabaseIInv == IInv /\ CloseDatabase => IInv'
  <1> SUFFICES ASSUME IInv, CloseDatabase PROVE IInv'
    OBVIOUS
  <1> USE DEF CloseDatabase, stored, round, handed
  <1>1. TypeOK'
    BY ProcessAssumption DEF IInv, TypeOK, ProcessAssumption
  <1>2. FaultsPaid'
    <2> SUFFICES ASSUME NEW m \in Messages PROVE faults[m] + (faultsLeft - 1) + 1 <= MaxFaults
      BY DEF FaultsPaid
    <2>1. faults[m] + faultsLeft + 0 <= MaxFaults
      BY DEF IInv, FaultsPaid
    <2>2. faults[m] \in Nat /\ faultsLeft \in Nat /\ MaxFaults \in Nat
      BY ProcessAssumption DEF IInv, TypeOK, ProcessAssumption
    <2> QED
      BY <2>1, <2>2
  <1>3. Accounts'
    BY AccountsKept DEF IInv, NoneProcessedTwice
  <1> QED
    BY <1>1, <1>2, <1>3 DEF IInv, Accounts

\* A round starts with messages that are not stored as processed.
LEMMA StartRoundIInv == IInv /\ StartRound => IInv'
  <1> SUFFICES ASSUME IInv, StartRound PROVE IInv'
    OBVIOUS
  <1>1. /\ TypeOK /\ NoneProcessedTwice /\ pc = "select" /\ ms = NoMessage
        /\ NoMessage \notin Messages
    BY DEF IInv, TypeOK, StartRound, Busy, Messages, NoMessage
  <1>2. CASE main # "running"
    BY <1>1, <1>2, EndIInv DEF StartRound
  <1>3. CASE main = "running"
    <2>1. /\ UNCHANGED <<stored, ms, idx, failed, scg, collected, hung, main, handed, faults>>
          /\ \/ todo' = Unprocessed /\ pc' = "next" /\ UNCHANGED faultsLeft
             \/ faultsLeft > 0 /\ faultsLeft' = faultsLeft - 1 /\ UNCHANGED <<pc, todo>>
      BY <1>3 DEF StartRound
    <2>2. /\ todo' \subseteq Messages /\ todo' \cap processed = {}
          /\ pc' \in {"select", "next"}
      BY <1>1, <2>1 DEF TypeOK, NoneProcessedTwice, Unprocessed
    <2>3. faultsLeft' \in 0..MaxFaults /\ faultsLeft' <= faultsLeft
      BY <1>1, <2>1, ProcessAssumption DEF TypeOK, ProcessAssumption
    <2>4. TypeOK'
      BY <1>1, <2>1, <2>2, <2>3 DEF TypeOK, Busy, stored, handed
    <2>5. FaultsPaid'
      <3> SUFFICES ASSUME NEW m \in Messages PROVE faults[m] + faultsLeft' + 0 <= MaxFaults
        BY <1>3, <2>1 DEF FaultsPaid
      <3>1. faults[m] + faultsLeft + 0 <= MaxFaults
        BY <1>3 DEF IInv, FaultsPaid
      <3>2. faults[m] \in Nat /\ faultsLeft \in Nat /\ MaxFaults \in Nat
        BY <1>1, ProcessAssumption DEF TypeOK, ProcessAssumption
      <3> QED
        BY <3>1, <3>2, <2>3
    <2>6. Accounts'
      <3>1. ms \notin todo'
        BY <1>1, <2>2
      <3>2. UNCHANGED <<ms, processed, processedResult, sent, dropped, failed, faults>>
        BY <2>1 DEF stored, handed
      <3> QED
        BY <1>1, <2>2, <3>1, <3>2, AccountsKept
    <2> QED
      BY <2>4, <2>5, <2>6 DEF IInv, Accounts
  <1> QED
    BY <1>2, <1>3

\* Steps with a message in hand that try no further send of it.
LEMMA TriedKept ==
  ASSUME IInv, UNCHANGED <<stored, todo, ms, handed, failed, faults, hung>>,
         Tried(ms)' = Tried(ms)
  PROVE  Accounts'
  <1> USE DEF stored, handed, AccountedFor
  <1>1. \A m \in Messages : Tried(m)' = Tried(m)
    BY DEF Tried
  <1>2. ProcessedIsAccountedFor' /\ NoneProcessedTwice'
    BY DEF IInv, ProcessedIsAccountedFor, NoneProcessedTwice
  <1>3. TriedIsAccountedFor' /\ SentCounted'
    BY <1>1 DEF IInv, TriedIsAccountedFor, SentCounted
  <1> QED
    BY <1>2, <1>3 DEF Accounts

\* A mail is one more send accounted for, or the end of the sends by mail.
LEMMA SendEmailsIInv == IInv /\ SendEmails => IInv'
  <1> SUFFICES ASSUME IInv, SendEmails PROVE IInv'
    OBVIOUS
  <1>1. /\ TypeOK /\ pc = "email" /\ ~hung /\ ms # NoMessage /\ ms \in Messages
        /\ UNCHANGED <<stored, todo, ms, scg, collected, main, faults, faultsLeft>>
    BY DEF IInv, TypeOK, SendEmails, Busy
  <1>2. /\ Emails[ms] \in Seq(Addresses) /\ Len(Emails[ms]) \in Nat
        /\ Positions(ms) = 1..Len(Emails[ms]) /\ idx \in Nat \ {0}
        /\ idx <= Len(Emails[ms]) + 1 /\ Mq = 0
    BY <1>1, ProcessAssumption DEF ProcessAssumption, TypeOK, Positions, Mq
  <1>3. FaultsPaid'
    BY <1>1 DEF IInv, FaultsPaid
  <1>4. CASE "email" \in Channel[ms] /\ idx <= Len(Emails[ms])
    <2>1. idx \in Asked(ms) /\ idx \notin Tried(ms)
      BY <1>1, <1>2, <1>4 DEF Asked, Tried
    <2>2. ASSUME NEW outcome \in SendEmail,
                 Record(idx, outcome), idx' = idx + 1, UNCHANGED <<pc, hung, dropped>>
          PROVE  IInv'
      <3>1. Tried(ms)' = Tried(ms) \cup {idx}
        <4>1. Asked(ms) \subseteq Nat
          BY <1>1, AskedIsSends
        <4>2. /\ Tried(ms) = {i \in Asked(ms) : 1 <= i /\ i < idx}
              /\ Tried(ms)' = {i \in Asked(ms) : 1 <= i /\ i < idx + 1}
          BY <1>1, <2>2 DEF Tried, Asked, Positions
        <4>3. \A i \in Nat : 1 <= i /\ i < idx + 1 <=> (1 <= i /\ i < idx) \/ i = idx
          BY <1>2
        <4> QED
          BY <2>1, <4>1, <4>2, <4>3
      <3>2. outcome.accepted \/ outcome.err
        BY MailsNotSilent
      <3>3. /\ Accounts' /\ failed' \subseteq Nat /\ DOMAIN sent' = Messages
            /\ \A m \in Messages : sent'[m] \in [Sends(m) -> 0..SentCap]
        BY <1>1, <2>1, <2>2, <3>1, <3>2, SendIInv
      <3>4. TypeOK'
        BY <1>1, <1>2, <1>4, <2>2, <3>3 DEF TypeOK, stored
      <3> QED
        BY <1>3, <3>3, <3>4 DEF IInv, Accounts
    <2>3. CASE Hang(idx)
      <3>1. /\ Accounts' /\ DOMAIN sent' = Messages
            /\ \A m \in Messages : sent'[m] \in [Sends(m) -> 0..SentCap]
        BY <1>1, <2>1, <2>3, HangIInv
      <3>2. TypeOK'
        BY <1>1, <2>3, <3>1 DEF TypeOK, stored, Hang
      <3> QED
        BY <1>3, <3>1, <3>2 DEF IInv, Accounts
    <2> QED
      BY <1>4, <2>2, <2>3 DEF SendEmails, AfterAddress
  <1>5. CASE ~("email" \in Channel[ms] /\ idx <= Len(Emails[ms]))
    <2>1. pc' = "mq" /\ idx' = 1 /\ UNCHANGED <<failed, hung, handed>>
      BY <1>5 DEF SendEmails
    <2>2. Tried(ms)' = Tried(ms)
      <3>1. /\ Tried(ms) = {i \in Asked(ms) : 1 <= i /\ i < idx}
            /\ Tried(ms)' = Asked(ms) \ {Mq}
        BY <1>1, <2>1 DEF Tried, Asked, Positions
      <3>2. \A i \in Asked(ms) : 1 <= i /\ i < idx <=> i # Mq
        BY <1>2, <1>5 DEF Asked
      <3> QED
        BY <3>1, <3>2
    <2>3. Accounts'
      BY <1>1, <2>1, <2>2, TriedKept
    <2>4. TypeOK'
      BY <1>1, <1>2, <2>1 DEF TypeOK, stored, handed, Busy
    <2> QED
      BY <1>3, <2>3, <2>4 DEF IInv, Accounts
  <1> QED
    BY <1>4, <1>5

\* The queue is one more send.
LEMMA SendMqIInv == IInv /\ SendMq => IInv'
  <1> SUFFICES ASSUME IInv, SendMq PROVE IInv'
    OBVIOUS
  <1>1. /\ TypeOK /\ pc = "mq" /\ ~hung /\ ms # NoMessage /\ ms \in Messages
        /\ UNCHANGED <<stored, todo, ms, scg, collected, main, faults, faultsLeft>>
    BY DEF IInv, TypeOK, SendMq, Busy
  <1>2. FaultsPaid'
    BY <1>1 DEF IInv, FaultsPaid
  <1>3. Tried(ms) = Asked(ms) \ {Mq} /\ (pc' = "message" => Tried(ms)' = Asked(ms))
    BY <1>1 DEF Tried, Asked, Positions
  <1>4. CASE "mq" \in Channel[ms]
    <2>1. Mq \in Asked(ms) /\ Mq \notin Tried(ms)
      BY <1>3, <1>4 DEF Asked
    <2>2. ASSUME NEW outcome \in SendMessage, Record(Mq, outcome),
                 dropped' = IF outcome.accepted \/ outcome.err
                            THEN dropped ELSE dropped \cup {ms},
                 pc' = "message", UNCHANGED <<idx, hung>>
          PROVE  IInv'
      <3>1. /\ outcome.accepted \/ outcome.err \/ ms \in dropped'
            /\ dropped \subseteq dropped' /\ dropped' \subseteq Messages
        BY <1>1, <2>2 DEF TypeOK
      <3>2. /\ Accounts' /\ failed' \subseteq Nat /\ DOMAIN sent' = Messages
            /\ \A m \in Messages : sent'[m] \in [Sends(m) -> 0..SentCap]
        BY <1>1, <1>3, <2>1, <2>2, <3>1, SendIInv
      <3>3. TypeOK'
        BY <1>1, <2>2, <3>1, <3>2 DEF TypeOK, stored, Busy
      <3> QED
        BY <1>2, <3>2, <3>3 DEF IInv, Accounts
    <2>3. CASE Hang(Mq)
      <3>1. /\ Accounts' /\ DOMAIN sent' = Messages
            /\ \A m \in Messages : sent'[m] \in [Sends(m) -> 0..SentCap]
        BY <1>1, <2>1, <2>3, HangIInv
      <3>2. TypeOK'
        BY <1>1, <2>3, <3>1 DEF TypeOK, stored, Hang
      <3> QED
        BY <1>2, <3>1, <3>2 DEF IInv, Accounts
    <2> QED
      BY <1>4, <2>2, <2>3 DEF SendMq
  <1>5. CASE "mq" \notin Channel[ms]
    <2>1. pc' = "message" /\ UNCHANGED <<idx, failed, hung, handed>>
      BY <1>5 DEF SendMq
    <2>2. Mq \notin Asked(ms)
      BY <1>1, <1>5, ProcessAssumption DEF Asked, Positions, Mq, ProcessAssumption
    <2>3. Accounts'
      BY <1>1, <1>3, <2>1, <2>2, TriedKept
    <2>4. TypeOK'
      BY <1>1, <2>1 DEF TypeOK, stored, handed, Busy
    <2> QED
      BY <1>2, <2>3, <2>4 DEF IInv, Accounts
  <1> QED
    BY <1>4, <1>5

\* What Collect makes of the entries of an address.
LEMMA MergedType ==
  ASSUME NEW entries \in Seq(SocketMessages), NEW m \in Messages
  PROVE  Merged(entries, m) \in Seq(SocketMessages)
  <1>1. Source[m] \in Range(Source)
    BY ProcessAssumption DEF ProcessAssumption, Range
  <1>2. CASE entries = <<>>
    <2>1. [name |-> Source[m], count |-> 1, data |-> <<m>>] \in SocketMessages
      BY <1>1 DEF SocketMessages
    <2> QED
      BY <1>2, <2>1 DEF Merged
  <1>3. CASE entries # <<>>
    <2> DEFINE entry(i) ==
          IF entries[i].name = Source[m]
          THEN [entries[i] EXCEPT !.count = @ + 1,
                                  !.data = IF Len(@) >= 2 THEN @ ELSE Append(@, m)]
          ELSE entries[i]
    <2>1. Merged(entries, m) = [i \in 1..Len(entries) |-> entry(i)]
      BY <1>3 DEF Merged
    <2>2. \A i \in 1..Len(entries) : entry(i) \in SocketMessages
      <3> SUFFICES ASSUME NEW i \in 1..Len(entries) PROVE entry(i) \in SocketMessages
        OBVIOUS
      <3>1. entries[i] \in SocketMessages
        OBVIOUS
      <3>2. /\ entries[i].count + 1 \in Nat
            /\ Append(entries[i].data, m) \in Seq(Messages)
        BY <3>1 DEF SocketMessages
      <3> QED
        BY <3>1, <3>2 DEF SocketMessages
    <2> HIDE DEF entry
    <2>3. Len(entries) \in Nat
      OBVIOUS
    <2> QED
      BY <2>1, <2>2, <2>3
  <1> QED
    BY <1>2, <1>3

\* Collecting sends nothing.
LEMMA CollectIInv == IInv /\ Collect => IInv'
  <1> SUFFICES ASSUME IInv, Collect PROVE IInv'
    OBVIOUS
  <1>1. /\ TypeOK /\ pc = "message" /\ ms # NoMessage /\ ms \in Messages
        /\ UNCHANGED <<stored, todo, failed, hung, main, handed, faults, faultsLeft>>
        /\ NoMessage \notin Messages
    BY DEF IInv, TypeOK, Collect, Busy, Messages, NoMessage
  <1>2. FaultsPaid'
    BY <1>1 DEF IInv, FaultsPaid
  <1>3. /\ Emails[ms] \in Seq(Addresses) /\ Len(Emails[ms]) \in Nat
        /\ idx \in Nat \ {0}
    BY <1>1, ProcessAssumption DEF ProcessAssumption, TypeOK
  <1>4. CASE "message" \notin Channel[ms]
    <2>1. pc' = "update" /\ UNCHANGED <<ms, idx, scg, collected>>
      BY <1>4 DEF Collect
    <2>2. Accounts'
      BY <1>1, <2>1, TriedKept DEF Tried, Asked, Positions
    <2>3. TypeOK'
      BY <1>1, <2>1 DEF TypeOK, stored, handed, Busy
    <2> QED
      BY <1>2, <2>2, <2>3 DEF IInv, Accounts
  <1>5. CASE "message" \in Channel[ms] /\ Emails[ms] = <<>>
    <2>1. pc' = "next" /\ ms' = NoMessage /\ UNCHANGED <<idx, scg, collected>>
      BY <1>5 DEF Collect, AfterSkip
    <2>2. TypeOK'
      BY <1>1, <2>1 DEF TypeOK, stored, handed, Busy
    <2>3. ProcessedIsAccountedFor' /\ NoneProcessedTwice' /\ TriedIsAccountedFor'
      BY <1>1, <2>1 DEF IInv, TypeOK, ProcessedIsAccountedFor, AccountedFor,
                        NoneProcessedTwice, TriedIsAccountedFor, stored, handed
    <2>4. SentCounted'
      <3> SUFFICES ASSUME NEW m \in Messages, ~IsSkipped(m), NEW i \in Sends(m)
                   PROVE  \/ sent[m][i] <= faults[m]
                          \/ sent[m][i] = faults[m] + 1 /\ m \in processed
        BY <1>1 DEF SentCounted, stored, handed
      <3>1. m # ms
        BY <1>5 DEF IsSkipped
      <3> QED
        BY <3>1 DEF IInv, SentCounted, Tried
    <2> QED
      BY <1>2, <2>2, <2>3, <2>4 DEF IInv
  <1>6. CASE "message" \in Channel[ms] /\ Emails[ms] # <<>> /\ idx <= Len(Emails[ms])
    <2>1. /\ scg' = [scg EXCEPT ![Emails[ms][idx]] = Merged(@, ms)]
          /\ idx' = idx + 1
          /\ UNCHANGED <<pc, ms, collected>>
      BY <1>6 DEF Collect
    <2>2. Accounts'
      BY <1>1, <2>1, TriedKept DEF Tried, Asked, Positions
    <2>3. scg' \in [Addresses -> Seq(SocketMessages)]
      BY <1>1, <1>3, <1>6, <2>1, MergedType DEF TypeOK
    <2>4. TypeOK'
      <3>1. UNCHANGED <<known, processed, processedResult, pc, todo, ms, failed, collected,
                        hung, main, sent, dropped, faults, faultsLeft>>
        BY <1>1, <2>1 DEF stored, handed
      <3>2. idx' \in Nat \ {0} /\ idx' <= Len(Emails[ms]) + 1
        BY <1>3, <1>6, <2>1
      <3> QED
        BY <1>1, <2>3, <3>1, <3>2 DEF TypeOK
    <2> QED
      BY <1>2, <2>2, <2>4 DEF IInv, Accounts
  <1>7. CASE "message" \in Channel[ms] /\ Emails[ms] # <<>> /\ ~(idx <= Len(Emails[ms]))
    <2>1. pc' = "update" /\ collected' = collected \cup {ms} /\ UNCHANGED <<ms, idx, scg>>
      BY <1>7 DEF Collect
    <2>2. Accounts'
      BY <1>1, <2>1, TriedKept DEF Tried, Asked, Positions
    <2>3. TypeOK'
      BY <1>1, <2>1 DEF TypeOK, stored, handed, Busy
    <2> QED
      BY <1>2, <2>2, <2>3 DEF IInv, Accounts
  <1> QED
    BY <1>4, <1>5, <1>6, <1>7

\* A message is stored when all its sends have been tried; when that is not
\* confirmed the message may be sent once more.
LEMMA UpdateIInv == IInv /\ Update => IInv'
  <1> SUFFICES ASSUME IInv, Update PROVE IInv'
    OBVIOUS
  <1>1. /\ TypeOK /\ pc = "update" /\ pc' = "next" /\ ms' = NoMessage
        /\ ms # NoMessage /\ ms \in Messages /\ NoMessage \notin Messages
        /\ UNCHANGED <<todo, idx, failed, scg, collected, hung, main, sent, dropped>>
        /\ faults \in [Messages -> Nat] /\ faultsLeft \in Nat /\ MaxFaults \in Nat
    <2>1. TypeOK /\ NoMessage \notin Messages /\ MaxFaults \in Nat
      BY ProcessAssumption DEF IInv, Messages, NoMessage, ProcessAssumption
    <2>2. ms # NoMessage /\ ms \in Messages
      BY <2>1 DEF TypeOK, Update, Busy
    <2>3. faults \in [Messages -> Nat] /\ faultsLeft \in Nat
      BY <2>1 DEF TypeOK
    <2> QED
      BY <2>1, <2>2, <2>3 DEF Update, handed
  <1>2. Store \/ UNCHANGED stored
    BY DEF Update
  <1>3. \/ UNCHANGED <<faults, faultsLeft>> /\ Store
        \/ /\ faultsLeft > 0 /\ faultsLeft' = faultsLeft - 1
           /\ faults' = [faults EXCEPT ![ms] = @ + 1]
    BY DEF Update
  <1>4. FaultsPaid'
    <2> SUFFICES ASSUME NEW m \in Messages
                 PROVE  faults'[m] + faultsLeft' + (IF main = "running" THEN 0 ELSE 1) <= MaxFaults
      BY <1>1 DEF FaultsPaid
    <2>1. faults[m] + faultsLeft + (IF main = "running" THEN 0 ELSE 1) <= MaxFaults
      BY DEF IInv, FaultsPaid
    <2>2. CASE UNCHANGED <<faults, faultsLeft>>
      BY <2>1, <2>2
    <2>3. CASE faultsLeft > 0 /\ faultsLeft' = faultsLeft - 1 /\ faults' = [faults EXCEPT ![ms] = @ + 1]
      <3>1. faults'[m] \in {faults[m], faults[m] + 1}
        BY <1>1, <2>3
      <3> QED
        BY <1>1, <2>1, <2>3, <3>1
    <2> QED
      BY <1>3, <2>2, <2>3
  <1>5. TypeOK'
    <2>1. faultsLeft' \in 0..MaxFaults /\ faults' \in [Messages -> 0..MaxFaults]
      <3>1. faultsLeft' \in Nat /\ faults' \in [Messages -> Nat]
        BY <1>1, <1>3
      <3>2. \A m \in Messages : faults'[m] + faultsLeft' <= MaxFaults
        BY <1>1, <1>4, <3>1 DEF FaultsPaid
      <3>3. faultsLeft' \in 0..MaxFaults
        BY <1>1, <1>3 DEF TypeOK
      <3> QED
        BY <1>1, <3>1, <3>2, <3>3
    <2>2. /\ known' \in [Messages -> {"absent", "unread", "read"}]
          /\ processed' \subseteq Messages
          /\ processedResult' \in [Messages -> SUBSET Nat]
      BY <1>1, <1>2 DEF TypeOK, Store, stored
    <2> QED
      BY <1>1, <2>1, <2>2 DEF TypeOK, Busy
  <1>6. ProcessedIsAccountedFor'
    <2> SUFFICES ASSUME NEW m \in processed', NEW i \in Asked(m)
                 PROVE  AccountedFor(m, i, processedResult[m])'
      BY <1>1 DEF ProcessedIsAccountedFor, Asked, Positions
    <2>1. ms \notin processed
      BY DEF IInv, NoneProcessedTwice
    <2>2. CASE m # ms
      <3>1. m \in processed /\ processedResult'[m] = processedResult[m]
        BY <1>1, <1>2, <2>2 DEF Store, stored, TypeOK
      <3> QED
        BY <1>1, <3>1 DEF IInv, ProcessedIsAccountedFor, AccountedFor
    <2>3. CASE m = ms
      <3>1. processedResult'[m] = failed
        BY <1>1, <1>2, <2>1, <2>3 DEF Store, stored, TypeOK
      <3>2. i \in Tried(ms)
        BY <1>1, <2>3 DEF Tried
      <3> QED
        BY <1>1, <2>3, <3>1, <3>2 DEF IInv, TriedIsAccountedFor, AccountedFor
    <2> QED
      BY <2>2, <2>3
  <1>7. NoneProcessedTwice' /\ TriedIsAccountedFor'
    <2>1. processed' \subseteq processed \cup {ms}
      BY <1>2 DEF Store, stored
    <2> QED
      BY <1>1, <2>1, <1>5 DEF IInv, NoneProcessedTwice, TriedIsAccountedFor, TypeOK
  <1>8. SentCounted'
    <2> SUFFICES ASSUME NEW m \in Messages, ~IsSkipped(m), NEW i \in Sends(m)
                 PROVE  \/ sent[m][i] <= faults'[m]
                        \/ sent[m][i] = faults'[m] + 1 /\ m \in processed'
      BY <1>1 DEF SentCounted
    <2>1. \/ sent[m][i] <= faults[m]
          \/ sent[m][i] = faults[m] + 1 /\ (m \in processed \/ i \in Tried(m) \/ m = ms)
      BY DEF IInv, SentCounted
    <2>2. processed \subseteq processed'
      BY <1>2 DEF Store, stored
    <2>3. sent[m][i] \in Nat
      BY <1>1 DEF TypeOK, SentCap
    <2>4. CASE m # ms
      <3>1. faults'[m] = faults[m] /\ Tried(m) = {}
        BY <1>1, <1>3, <2>4 DEF Tried
      <3> QED
        BY <2>1, <2>2, <2>4, <3>1
    <2>5. CASE m = ms
      <3>1. \/ faults'[m] = faults[m] /\ m \in processed'
            \/ faults'[m] = faults[m] + 1
        BY <1>1, <1>3, <2>5 DEF Store
      <3> QED
        BY <1>1, <2>1, <2>3, <3>1
    <2> QED
      BY <2>4, <2>5
  <1> QED
    BY <1>4, <1>5, <1>6, <1>7, <1>8 DEF IInv

\* Each action preserves the invariant.
LEMMA Inductive == IInv /\ [Next]_vars => IInv'
  <1> SUFFICES ASSUME IInv, [Next]_vars PROVE IInv'
    OBVIOUS
  <1>1. CASE UNCHANGED vars
    <2>1. UNCHANGED <<stored, round, main, handed, faults, faultsLeft>>
      BY <1>1 DEF vars
    <2>2. TypeOK' /\ FaultsPaid'
      BY <2>1 DEF IInv, TypeOK, FaultsPaid, stored, round, handed
    <2>3. Accounts'
      BY <2>1 DEF IInv, Accounts, ProcessedIsAccountedFor, AccountedFor, NoneProcessedTwice,
                  TriedIsAccountedFor, SentCounted, Tried, stored, round, handed
    <2> QED
      BY <2>2, <2>3 DEF IInv, Accounts
  <1>2. CASE Next
    BY <1>2, BetweenMessagesIInv, CrashIInv, CloseDatabaseIInv, StartRoundIInv,
       NextMessageIInv, SendEmailsIInv, SendMqIInv, CollectIInv, UpdateIInv
    DEF Next, Ticker, Shutdown
  <1> QED
    BY <1>1, <1>2

\* The invariant that the theorems below rest on holds in every reachable state.
THEOREM InvariantHolds == Spec => []IInv
  BY InitIInv, Inductive, PTL DEF Spec

\* Type correctness, for any messages and any number of faults: what is stored,
\* what the ticker goroutine holds (process.go:36-159) and the counts of what was
\* sent stay within their ranges.
THEOREM TypeCorrect == Spec => []TypeOK
  <1>1. IInv => TypeOK
    BY DEF IInv
  <1> QED
    BY <1>1, InvariantHolds, PTL

\* A message that process.go:133 has stored as processed has had each of its
\* e-mails and its queue message handed over or noted as failed, but for a queue
\* message that mq_controller.go:59-66 lost without an error, for any messages,
\* channels and number of crashes and failures.
THEOREM ProcessedAccountedFor == Spec => []ProcessedIsAccountedFor
  <1>1. IInv => ProcessedIsAccountedFor
    BY DEF IInv
  <1> QED
    BY <1>1, InvariantHolds, PTL

\* Each e-mail and queue message is handed over at most once more than the
\* message was begun by process.go:74 without process.go:133 confirming it.
THEOREM RepeatedOnlyAfterFaults == Spec => []RepeatedOnlyAfterFault
  <1>1. IInv => RepeatedOnlyAfterFault
    <2> SUFFICES ASSUME IInv, NEW m \in Messages, ~IsSkipped(m), NEW i \in Sends(m)
                 PROVE  sent[m][i] <= faults[m] + 1
      BY DEF RepeatedOnlyAfterFault
    <2>1. \/ sent[m][i] <= faults[m]
          \/ sent[m][i] = faults[m] + 1
      BY DEF IInv, SentCounted
    <2>2. sent[m][i] \in Nat /\ faults[m] \in Nat
      BY ProcessAssumption DEF IInv, TypeOK, SentCap, ProcessAssumption
    <2> QED
      BY <2>1, <2>2
  <1> QED
    BY <1>1, InvariantHolds, PTL
-----------------------------------------------------------------------------
(* What is collected for the sockets.  A place is a message and the number of *)
(* one of its addresses; G are the places that have been added for an address.*)

From(G, source) == {p \in G : Source[p[1]] = source}

\* The entry is of the source of the newest message, counts the places of that
\* source, and keeps the newest two of their messages.
Describes(entry, G) ==
  /\ entry \in SocketMessages
  /\ \E p \in G : entry.name = Source[p[1]] /\ \A q \in G : q[1] <= p[1]
  /\ IsFiniteSet(From(G, entry.name)) /\ entry.count = Cardinality(From(G, entry.name))
  /\ Len(entry.data) = IF entry.count >= 2 THEN 2 ELSE 1
  /\ \A i \in 1..Len(entry.data) : \E p \in From(G, entry.name) : p[1] = entry.data[i]
  /\ \A p \in From(G, entry.name) :
       \/ \E i \in 1..Len(entry.data) : entry.data[i] = p[1]
       \/ Len(entry.data) = 2 /\ \A i \in 1..Len(entry.data) : p[1] < entry.data[i]

Lists(entries, G) ==
  IF G = {} THEN entries = <<>> ELSE Len(entries) = 1 /\ Describes(entries[1], G)

\* The places of the messages of this round that name address a, as far as the
\* loop of Collect has come.
Gathered(a) ==
  {p \in UNION {{m} \X Positions(m) : m \in Messages} :
     /\ Emails[p[1]][p[2]] = a
     /\ p[1] \in collected \/ (pc = "message" /\ p[1] = ms /\ p[2] < idx)}

Collecting == {"next"} \cup Busy

\* Between the rounds nothing is collected.
RoundIdle ==
  pc \in {"select", "down", "stopped"} =>
    collected = {} /\ \A a \in Addresses : scg[a] = <<>>

\* The round goes from the newest message to the oldest, and comes to the loop
\* over the addresses with the first of them.
RoundOrdered ==
  pc \in Collecting =>
    /\ \A n \in todo, m \in collected : n < m
    /\ ms # NoMessage => \A n \in todo : n < ms
    /\ ms # NoMessage /\ pc # "update" => \A m \in collected : ms < m
    /\ pc = "mq" => idx = 1
    /\ pc = "message" /\ "message" \notin Channel[ms] => idx = 1

RoundGathered == pc \in Collecting => \A a \in Addresses : Lists(scg[a], Gathered(a))

RoundInv == RoundIdle /\ RoundOrdered /\ RoundGathered

\* Collect adds the oldest message so far, at one more place.
LEMMA MergedDescribes ==
  ASSUME NEW G \in SUBSET (Messages \X Nat), NEW m \in Messages, NEW i \in Nat,
         <<m, i>> \notin G, \A q \in G : m <= q[1],
         NEW entries \in Seq(SocketMessages), Lists(entries, G)
  PROVE  Lists(Merged(entries, m), G \cup {<<m, i>>})
  <1> DEFINE H == G \cup {<<m, i>>}
  <1>1. /\ Messages \in SUBSET Nat /\ DOMAIN Source = Messages
        /\ <<m, i>>[1] = m /\ H # {}
        /\ \A p \in H : p[1] \in Messages
    BY ProcessAssumption DEF ProcessAssumption, Messages
  <1>2. CASE G = {}
    <2> DEFINE e == [name |-> Source[m], count |-> 1, data |-> <<m>>]
    <2>1. Merged(entries, m) = <<e>>
      BY <1>2 DEF Lists, Merged
    <2>2. H = {<<m, i>>} /\ From(H, Source[m]) = {<<m, i>>}
      BY <1>1, <1>2 DEF From
    <2>3. e \in SocketMessages
      BY <1>1 DEF SocketMessages, Range
    <2>4. e.name = Source[m] /\ e.count = 1 /\ e.data = <<m>> /\ Len(e.data) = 1 /\ e.data[1] = m
      OBVIOUS
    <2> HIDE DEF e
    <2>5. IsFiniteSet({<<m, i>>}) /\ Cardinality({<<m, i>>}) = 1
      BY FS_Singleton
    <2>6. Describes(e, H)
      <3>1. /\ <<m, i>> \in H /\ e.name = Source[<<m, i>>[1]]
            /\ \A q \in H : q[1] <= <<m, i>>[1]
        BY <1>1, <2>2, <2>4
      <3>2. \A k \in 1..Len(e.data) : k = 1
        BY <2>4
      <3>3. 1 \in 1..Len(e.data)
        BY <2>4
      <3>4. Len(e.data) = IF e.count >= 2 THEN 2 ELSE 1
        BY <2>4
      <3>5. From(H, e.name) = {<<m, i>>}
        BY <2>2, <2>4
      <3> QED
        BY <1>1, <2>3, <2>4, <2>5, <3>1, <3>2, <3>3, <3>4, <3>5 DEF Describes
    <2>7. <<e>>[1] = e /\ Len(<<e>>) = 1
      OBVIOUS
    <2> QED
      BY <1>1, <2>1, <2>6, <2>7 DEF Lists
  <1>3. CASE G # {}
    <2> DEFINE entry == entries[1]
               more == [entry EXCEPT !.count = @ + 1,
                                     !.data = IF Len(@) >= 2 THEN @ ELSE Append(@, m)]
               e == IF entry.name = Source[m] THEN more ELSE entry
    <2>1. Len(entries) = 1 /\ Describes(entry, G) /\ entries # <<>> /\ DOMAIN entries = 1..1
      BY <1>3 DEF Lists
    <2>2. /\ Len(Merged(entries, m)) = 1 /\ Merged(entries, m)[1] = e
      <3>1. Merged(entries, m) =
              [k \in 1..1 |->
                 IF entries[k].name = Source[m]
                 THEN [entries[k] EXCEPT !.count = @ + 1,
                                         !.data = IF Len(@) >= 2 THEN @ ELSE Append(@, m)]
                 ELSE entries[k]]
        BY <2>1 DEF Merged
      <3> QED
        BY <3>1
    <2>3. /\ entry \in SocketMessages /\ entry.count \in Nat /\ entry.data \in Seq(Messages)
          /\ entry.name \in Range(Source)
      BY <2>1 DEF Describes, SocketMessages
    <2>4. PICK p \in G : entry.name = Source[p[1]] /\ \A q \in G : q[1] <= p[1]
      BY <2>1 DEF Describes
    <2>5. p \in H /\ \A q \in H : q[1] <= p[1]
      BY <1>1, <2>4
    <2>6. CASE entry.name # Source[m]
      <3>1. From(H, entry.name) = From(G, entry.name)
        BY <1>1, <2>6 DEF From
      <3>2. Describes(entry, H)
        BY <2>1, <2>4, <2>5, <3>1 DEF Describes
      <3> QED
        BY <1>1, <2>2, <2>6, <3>2 DEF Lists
    <2>7. CASE entry.name = Source[m]
      <3> DEFINE F == From(G, entry.name)
                 K == From(H, entry.name)
                 n == Len(entry.data)
      <3>1. K = F \cup {<<m, i>>} /\ <<m, i>> \notin F
        BY <1>1, <2>7 DEF From
      <3>2. IsFiniteSet(F) /\ entry.count = Cardinality(F)
        BY <2>1 DEF Describes
      <3>3. IsFiniteSet(K) /\ Cardinality(K) = entry.count + 1
        <4> HIDE DEF F, K
        <4>1. /\ IsFiniteSet(F \cup {<<m, i>>})
              /\ Cardinality(F \cup {<<m, i>>}) = Cardinality(F) + 1
          BY <3>1, <3>2, FS_AddElement
        <4> QED
          BY <3>1, <3>2, <4>1
      <3>4. /\ more.name = entry.name /\ more.count = entry.count + 1
            /\ more.data = IF n >= 2 THEN entry.data ELSE Append(entry.data, m)
        BY <2>3 DEF SocketMessages
      <3>5. /\ n \in Nat /\ n = IF entry.count >= 2 THEN 2 ELSE 1
            /\ \A k \in 1..n : \E q \in F : q[1] = entry.data[k]
            /\ \A q \in F : \/ \E k \in 1..n : entry.data[k] = q[1]
                            \/ n = 2 /\ \A k \in 1..n : q[1] < entry.data[k]
        <4>1. n \in Nat
          BY <2>3
        <4>2. n = IF entry.count >= 2 THEN 2 ELSE 1
          BY <2>1 DEF Describes
        <4>3. \A k \in 1..n : \E q \in F : q[1] = entry.data[k]
          BY <2>1 DEF Describes
        <4>4. \A q \in F : \/ \E k \in 1..n : entry.data[k] = q[1]
                           \/ n = 2 /\ \A k \in 1..n : q[1] < entry.data[k]
          BY <2>1 DEF Describes
        <4> QED
          BY <4>1, <4>2, <4>3, <4>4
      <3>6. more \in SocketMessages
        <4>1. entry.count + 1 \in Nat /\ Append(entry.data, m) \in Seq(Messages)
          BY <2>3
        <4> HIDE DEF entry
        <4> QED
          BY <2>3, <4>1 DEF SocketMessages
      <3>7. entry.count >= 1
        <4>1. p \in F
          BY <2>4 DEF From
        <4>2. Cardinality(F) # 0
          BY <3>2, <4>1, FS_EmptySet
        <4> QED
          BY <2>3, <3>2, <4>2
      <3>8. \A q \in F : q \in G /\ m <= q[1] /\ q[1] \in Nat
        BY <1>1 DEF From
      <3> HIDE DEF F, K, n, entry, more
      <3>9. /\ Len(more.data) = 2
            /\ \A k \in 1..2 : \E q \in K : q[1] = more.data[k]
            /\ \A q \in K : \/ \E k \in 1..2 : more.data[k] = q[1]
                            \/ \A k \in 1..2 : q[1] < more.data[k]
        <4>1. CASE n = 2
          <5>1. more.data = entry.data
            BY <3>4, <4>1
          <5>2. \A k \in 1..2 : entry.data[k] # m => m < entry.data[k]
            <6> SUFFICES ASSUME NEW k \in 1..2, entry.data[k] # m PROVE m < entry.data[k]
              OBVIOUS
            <6>1. PICK q \in F : q[1] = entry.data[k]
              BY <3>5, <4>1
            <6> QED
              BY <1>1, <3>8, <6>1
          <5>3. \A k \in 1..2 : \E q \in K : q[1] = entry.data[k]
            BY <3>1, <3>5, <4>1
          <5>4. ASSUME NEW q \in K
                PROVE  \/ \E k \in 1..2 : entry.data[k] = q[1]
                       \/ \A k \in 1..2 : q[1] < entry.data[k]
            <6>1. CASE q \in F
              BY <3>5, <4>1, <6>1
            <6>2. CASE q = <<m, i>>
              BY <1>1, <5>2, <6>2
            <6> QED
              BY <3>1, <6>1, <6>2
          <5> QED
            BY <4>1, <5>1, <5>3, <5>4 DEF n
        <4>2. CASE n = 1
          <5>1. more.data = Append(entry.data, m)
            BY <3>4, <4>2
          <5>2. Len(more.data) = 2 /\ more.data[1] = entry.data[1] /\ more.data[2] = m
            <6>1. entry.data \in Seq(Messages) /\ Len(entry.data) = 1
              BY <2>3, <4>2 DEF n
            <6>2. PICK s \in Seq(Messages) : s = entry.data
              BY <6>1
            <6>3. /\ Len(Append(s, m)) = Len(s) + 1
                  /\ \A k \in 1..Len(s) : Append(s, m)[k] = s[k]
                  /\ Append(s, m)[Len(s) + 1] = m
              BY AppendProperties
            <6>4. 1 \in 1..1 /\ 1 + 1 = 2
              OBVIOUS
            <6> QED
              BY <5>1, <6>1, <6>2, <6>3, <6>4
          <5>3. \A q \in F : q[1] = entry.data[1]
            BY <3>5, <4>2
          <5>4. \E q \in F : q[1] = entry.data[1]
            BY <3>5, <4>2
          <5>5. \A k \in 1..2 : k = 1 \/ k = 2
            OBVIOUS
          <5>6. 1 \in 1..2 /\ 2 \in 1..2
            OBVIOUS
          <5> QED
            BY <1>1, <3>1, <5>2, <5>3, <5>4, <5>5, <5>6
        <4> QED
          BY <3>5, <4>1, <4>2
      <3>10. Len(more.data) = IF more.count >= 2 THEN 2 ELSE 1
        <4>1. more.count \in Nat /\ more.count >= 2
          BY <2>3, <3>4, <3>7
        <4> QED
          BY <3>9, <4>1
      <3>11. more.name = Source[p[1]]
        BY <2>4, <3>4 DEF entry
      <3>12. K = From(H, more.name)
        BY <3>4 DEF K
      <3>13. Describes(more, H)
        BY <2>5, <3>3, <3>4, <3>6, <3>9, <3>10, <3>11, <3>12 DEF Describes
      <3>14. e = more
        BY <2>7 DEF entry, more
      <3> QED
        BY <1>1, <2>2, <3>13, <3>14 DEF Lists
    <2> QED
      BY <2>6, <2>7
  <1> QED
    BY <1>2, <1>3

\* The places are pairs of a message and a number.
LEMMA GatheredPlaces ==
  ASSUME NEW a
  PROVE  /\ Gathered(a) \in SUBSET (Messages \X Nat)
         /\ \A m \in Messages, i \in Nat :
              <<m, i>> \in Gathered(a) <=>
                /\ i \in Positions(m) /\ Emails[m][i] = a
                /\ m \in collected \/ (pc = "message" /\ m = ms /\ i < idx)
  <1>1. \A m \in Messages : Positions(m) \subseteq Nat
    BY ProcessAssumption DEF ProcessAssumption, Positions
  <1> QED
    BY <1>1 DEF Gathered

\* A step that changes nothing of the round gathers nothing.
LEMMA GatheredKept ==
  ASSUME UNCHANGED collected,
         UNCHANGED <<pc, ms, idx>> \/ (pc # "message" /\ pc' # "message")
  PROVE  \A a : Gathered(a)' = Gathered(a)
  BY DEF Gathered

\* At the start there is no round.
LEMMA RoundInit == Init => RoundInv
  BY DEF Init, RoundInv, RoundIdle, RoundOrdered, RoundGathered, Collecting, Busy

\* The end of a round or of the process.
LEMMA RoundEnds ==
  ASSUME Idle(pc'), pc' \in {"select", "down"} PROVE RoundInv'
  BY DEF Idle, RoundInv, RoundIdle, RoundOrdered, RoundGathered, Collecting, Busy

\* The steps of others.
LEMMA RoundKept ==
  ASSUME RoundInv, UNCHANGED <<pc, todo, ms, idx, scg, collected>> PROVE RoundInv'
  <1>1. \A a : Gathered(a)' = Gathered(a)
    BY GatheredKept
  <1> QED
    BY <1>1 DEF RoundInv, RoundIdle, RoundOrdered, RoundGathered

\* A round starts with nothing gathered.
LEMMA RoundStarts ==
  ASSUME IInv, RoundInv, Restart \/ TickerStop \/ StartRound PROVE RoundInv'
  <1>1. CASE Restart \/ TickerStop
    BY <1>1 DEF Restart, TickerStop, RoundInv, RoundIdle, RoundOrdered, RoundGathered, Collecting, Busy
  <1>2. CASE StartRound
    <2>1. CASE main # "running"
      <3>1. Idle("down")
        BY <1>2, <2>1 DEF StartRound, ProcessEnds
      <3> QED
        BY <3>1, RoundEnds DEF Idle
    <2>2. CASE main = "running"
      <3>1. pc = "select" /\ UNCHANGED <<ms, idx, scg, collected>>
            /\ (pc' = "next" \/ UNCHANGED <<pc, todo>>)
        BY <1>2, <2>2 DEF StartRound
      <3>2. CASE UNCHANGED <<pc, todo>>
        BY <3>1, <3>2, RoundKept
      <3>3. CASE pc' = "next"
        <4>1. ms = NoMessage /\ collected = {} /\ \A a \in Addresses : scg[a] = <<>>
          BY <3>1 DEF IInv, TypeOK, Busy, RoundInv, RoundIdle
        <4>2. \A a : Gathered(a)' = {}
          BY <3>1, <3>3, <4>1 DEF Gathered
        <4>3. RoundGathered'
          BY <3>1, <4>1, <4>2 DEF RoundGathered, Lists
        <4>4. RoundIdle' /\ RoundOrdered'
          BY <3>1, <3>3, <4>1 DEF RoundIdle, RoundOrdered
        <4> QED
          BY <4>3, <4>4 DEF RoundInv
      <3> QED
        BY <3>1, <3>2, <3>3
    <2> QED
      BY <2>1, <2>2
  <1> QED
    BY <1>1, <1>2

\* The newest message that is left is older than those that were collected.
LEMMA RoundGoesOn ==
  ASSUME IInv, RoundInv, NextMessage PROVE RoundInv'
  <1>1. /\ pc = "next" /\ UNCHANGED <<scg, collected>>
        /\ todo \subseteq Messages /\ collected \subseteq Messages
        /\ Messages \subseteq Nat
    BY ProcessAssumption DEF NextMessage, IInv, TypeOK, Messages, ProcessAssumption
  <1>2. CASE todo = {}
    BY <1>1, <1>2 DEF NextMessage, RoundInv, RoundIdle, RoundOrdered, RoundGathered, Collecting, Busy
  <1>3. CASE todo # {}
    <2>1. /\ pc' = "email" /\ ms' \in todo /\ \A n \in todo : n <= ms'
          /\ todo' = todo \ {ms'}
      BY <1>3 DEF NextMessage
    <2>2. \A n \in todo, m \in collected : n < m
      BY <1>1 DEF RoundInv, RoundOrdered, Collecting
    <2>3. \A n \in todo' : n < ms'
      BY <1>1, <2>1
    <2>4. RoundOrdered'
      BY <1>1, <2>1, <2>2, <2>3 DEF RoundOrdered
    <2>5. RoundGathered'
      <3>1. \A a : Gathered(a)' = Gathered(a)
        BY <1>1, <2>1, GatheredKept
      <3>2. \A a \in Addresses : Lists(scg[a], Gathered(a))
        BY <1>1 DEF RoundInv, RoundGathered, Collecting
      <3> QED
        BY <1>1, <3>1, <3>2 DEF RoundGathered
    <2>6. RoundIdle'
      BY <2>1 DEF RoundIdle
    <2> QED
      BY <2>4, <2>5, <2>6 DEF RoundInv
  <1> QED
    BY <1>2, <1>3

\* The mails and the queue message of the message in hand, and its storing.
LEMMA RoundSends ==
  ASSUME IInv, RoundInv, SendEmails \/ SendMq \/ Update PROVE RoundInv'
  <1>1. /\ pc \in {"email", "mq", "update"} /\ UNCHANGED <<todo, scg, collected>>
        /\ \/ pc = "email" /\ pc' = "email" /\ ms' = ms
           \/ pc = "email" /\ pc' = "mq" /\ idx' = 1 /\ ms' = ms
           \/ pc = "mq" /\ pc' \in {"mq", "message"} /\ idx' = idx /\ ms' = ms
           \/ pc = "update" /\ pc' = "next" /\ ms' = NoMessage
    BY DEF SendEmails, SendMq, Hang, Update
  <1>2. /\ ms # NoMessage /\ ms \in Messages
        /\ \A n \in todo, m \in collected : n < m
        /\ \A n \in todo : n < ms
        /\ pc # "update" => \A m \in collected : ms < m
        /\ pc = "mq" => idx = 1
        /\ \A a \in Addresses : Lists(scg[a], Gathered(a))
    BY <1>1 DEF IInv, TypeOK, Busy, Collecting, RoundInv, RoundOrdered, RoundGathered
  <1>3. \A a : Gathered(a)' = Gathered(a)
    <2>1. CASE pc' # "message"
      BY <1>1, <2>1, GatheredKept
    <2>2. CASE pc' = "message"
      <3>1. idx' = 1 /\ \A i \in Positions(ms) : ~(i < 1)
        BY <1>1, <1>2, <2>2, ProcessAssumption DEF ProcessAssumption, Positions
      <3> QED
        BY <1>1, <2>2, <3>1 DEF Gathered
    <2> QED
      BY <2>1, <2>2
  <1>4. RoundOrdered'
    BY <1>1, <1>2 DEF RoundOrdered
  <1>5. RoundGathered' /\ RoundIdle'
    BY <1>1, <1>2, <1>3 DEF RoundGathered, RoundIdle
  <1> QED
    BY <1>4, <1>5 DEF RoundInv

\* The loop over the addresses.
LEMMA RoundCollects ==
  ASSUME IInv, RoundInv, Collect PROVE RoundInv'
  <1>1. /\ pc = "message" /\ UNCHANGED todo /\ idx \in Nat \ {0}
        /\ ms \in Messages /\ ms # NoMessage /\ Messages \subseteq Nat
        /\ collected \subseteq Messages /\ todo \subseteq Messages
        /\ scg \in [Addresses -> Seq(SocketMessages)]
    <2>1. pc = "message" /\ UNCHANGED todo
      BY DEF Collect
    <2>2. Messages \subseteq Nat
      BY ProcessAssumption DEF Messages, ProcessAssumption
    <2> QED
      BY <2>1, <2>2 DEF IInv, TypeOK, Busy
  <1>2. /\ \A n \in todo, m \in collected : n < m
        /\ \A n \in todo : n < ms
        /\ \A m \in collected : ms < m
        /\ "message" \notin Channel[ms] => idx = 1
        /\ \A a \in Addresses : Lists(scg[a], Gathered(a))
    BY <1>1 DEF Busy, Collecting, RoundInv, RoundOrdered, RoundGathered
  <1>3. /\ Emails[ms] \in Seq(Addresses) /\ Len(Emails[ms]) \in Nat
        /\ Positions(ms) = 1..Len(Emails[ms])
    BY <1>1, ProcessAssumption DEF ProcessAssumption, Positions
  <1>4. ASSUME NEW a
        PROVE  /\ Gathered(a) \in SUBSET (Messages \X Nat)
               /\ \A m \in Messages, i \in Nat :
                    <<m, i>> \in Gathered(a) <=>
                      /\ i \in Positions(m) /\ Emails[m][i] = a
                      /\ m \in collected \/ (m = ms /\ i < idx)
    BY <1>1, GatheredPlaces
  <1>6. CASE "message" \notin Channel[ms] \/ Emails[ms] = <<>>
    <2>1. /\ (pc' = "update" /\ ms' = ms) \/ (pc' = "next" /\ ms' = NoMessage)
          /\ UNCHANGED <<idx, scg, collected>>
      BY <1>6 DEF Collect, AfterSkip
    <2>2. \A i \in Positions(ms) : ~(i < idx)
      BY <1>2, <1>3, <1>6
    <2>3. \A a : Gathered(a)' = Gathered(a)
      BY <1>1, <2>1, <2>2 DEF Gathered
    <2> QED
      BY <1>1, <1>2, <2>1, <2>3 DEF RoundInv, RoundOrdered, RoundGathered, RoundIdle
  <1>7. CASE "message" \in Channel[ms] /\ Emails[ms] # <<>> /\ idx <= Len(Emails[ms])
    <2> DEFINE b == Emails[ms][idx]
    <2>1. /\ scg' = [scg EXCEPT ![b] = Merged(@, ms)] /\ idx' = idx + 1
          /\ UNCHANGED <<pc, ms, collected>>
      BY <1>7 DEF Collect
    <2>2. b \in Addresses /\ idx \in Positions(ms)
      BY <1>1, <1>3, <1>7
    <2>3. \A i \in Positions(ms) : i < idx + 1 <=> i < idx \/ i = idx
      BY <1>1, <1>3
    <2>4. \A a : Gathered(a)' = IF a = b THEN Gathered(a) \cup {<<ms, idx>>} ELSE Gathered(a)
      <3>1. ms \in Messages /\ idx \in Nat
        BY <1>1
      <3> SUFFICES ASSUME NEW a
                   PROVE  Gathered(a)' = IF a = b THEN Gathered(a) \cup {<<ms, idx>>} ELSE Gathered(a)
        OBVIOUS
      <3>2. \A m \in Messages : Positions(m) \subseteq Nat
        BY ProcessAssumption DEF ProcessAssumption, Positions
      <3>3. /\ Gathered(a)' \in SUBSET (Messages \X Nat)
            /\ \A m \in Messages, i \in Nat :
                 <<m, i>> \in Gathered(a)' <=>
                   /\ i \in Positions(m) /\ Emails[m][i] = a
                   /\ m \in collected \/ (m = ms /\ i < idx + 1)
        BY <1>1, <2>1, <3>2 DEF Gathered
      <3>4. \A m \in Messages, i \in Nat :
              <<m, i>> \in Gathered(a)' <=>
                <<m, i>> \in Gathered(a) \/ (a = b /\ m = ms /\ i = idx)
        <4> SUFFICES ASSUME NEW m \in Messages, NEW i \in Nat
                     PROVE  <<m, i>> \in Gathered(a)' <=>
                              <<m, i>> \in Gathered(a) \/ (a = b /\ m = ms /\ i = idx)
          OBVIOUS
        <4>1. CASE m = ms /\ i \in Positions(ms)
          BY <1>4, <2>2, <2>3, <3>3, <4>1
        <4>2. CASE ~(m = ms /\ i \in Positions(ms))
          BY <1>4, <2>2, <3>3, <4>2
        <4> QED
          BY <4>1, <4>2
      <3> HIDE DEF b
      <3>5. \A p \in Messages \X Nat :
              p \in Gathered(a)' <=> p \in Gathered(a) \/ (a = b /\ p = <<ms, idx>>)
        BY <3>4
      <3> QED
        BY <1>4, <3>1, <3>3, <3>5
    <2>5. <<ms, idx>> \notin Gathered(b)
      BY <1>1, <1>2, <1>4
    <2>6. \A q \in Gathered(b) : ms <= q[1]
      <3> SUFFICES ASSUME NEW m \in Messages, NEW i \in Nat, <<m, i>> \in Gathered(b)
                   PROVE  ms <= m
        BY <1>4
      <3>1. m \in collected \/ m = ms
        BY <1>4
      <3> QED
        BY <1>1, <1>2, <3>1
    <2> HIDE DEF b
    <2>7. Lists(Merged(scg[b], ms), Gathered(b) \cup {<<ms, idx>>})
      <3>1. scg[b] \in Seq(SocketMessages) /\ Lists(scg[b], Gathered(b))
        BY <1>1, <1>2, <2>2
      <3>2. idx \in Nat
        BY <1>1
      <3> QED
        BY <1>1, <1>4, <2>5, <2>6, <3>1, <3>2, MergedDescribes
    <2>8. \A a \in Addresses : scg'[a] = IF a = b THEN Merged(scg[b], ms) ELSE scg[a]
      BY <1>1, <2>1, <2>2
    <2>9. RoundGathered'
      BY <1>2, <2>4, <2>7, <2>8 DEF RoundGathered
    <2>10. RoundOrdered' /\ RoundIdle'
      BY <1>1, <1>2, <1>7, <2>1 DEF RoundOrdered, RoundIdle
    <2> QED
      BY <2>9, <2>10 DEF RoundInv
  <1>8. CASE "message" \in Channel[ms] /\ Emails[ms] # <<>> /\ ~(idx <= Len(Emails[ms]))
    <2>1. pc' = "update" /\ collected' = collected \cup {ms} /\ UNCHANGED <<ms, idx, scg>>
      BY <1>8 DEF Collect
    <2>2. \A i \in Positions(ms) : i < idx
      BY <1>1, <1>3, <1>8
    <2>3. \A a : Gathered(a)' = Gathered(a)
      BY <1>1, <2>1, <2>2 DEF Gathered
    <2>4. \A n \in todo, m \in collected' : n < m
      BY <1>2, <2>1
    <2> QED
      BY <1>1, <1>2, <2>1, <2>3, <2>4 DEF RoundInv, RoundOrdered, RoundGathered, RoundIdle
  <1> QED
    BY <1>6, <1>7, <1>8

\* Each action preserves what is known of the round.
LEMMA RoundInductive ==
  ASSUME IInv, RoundInv, [Next]_vars PROVE RoundInv'
  <1>1. CASE UNCHANGED vars
    BY <1>1, RoundKept DEF vars, round
  <1>2. ASSUME NEW m \in Messages, Create(m) \/ Read(m) PROVE RoundInv'
    BY <1>2, RoundKept DEF Create, Read, round
  <1>3. CASE CloseDatabase \/ CloseStopChan
    BY <1>3, RoundKept DEF CloseDatabase, CloseStopChan, round
  <1>4. CASE Crash \/ Exit
    <2>1. Idle("down")
      BY <1>4 DEF Crash, Exit, ProcessEnds
    <2> QED
      BY <2>1, RoundEnds DEF Idle
  <1>5. CASE EndRound
    <2>1. Idle("select")
      BY <1>5 DEF EndRound
    <2> QED
      BY <2>1, RoundEnds DEF Idle
  <1>6. ASSUME NEW a \in Addresses, PushRoom(a) PROVE RoundInv'
    BY <1>6 DEF PushRoom, RoundInv, RoundIdle, RoundOrdered, RoundGathered, Collecting, Busy
  <1> QED
    BY <1>1, <1>2, <1>3, <1>4, <1>5, <1>6, RoundStarts, RoundGoesOn, RoundSends, RoundCollects
    DEF Next, Ticker, Shutdown

\* What the ticker pushes to an address at the end of a round is about the source
\* of its newest message (process.go:103-129), counts the messages of that source
\* and keeps the newest two, for any messages, addresses and sources.
THEOREM NewestSourceCollected == Spec => []NewestSourceIsCollected
  <1>1. IInv /\ RoundInv => NewestSourceIsCollected
    <2> SUFFICES ASSUME IInv, RoundInv, pc = "next", todo = {},
                        NEW a \in Addresses, CollectedFor(a) # {}
                 PROVE  \E first \in CollectedFor(a) :
        LET same == {m \in CollectedFor(a) : Source[m] = Source[first]}
            places == UNION {{m} \X {i \in Positions(m) : Emails[m][i] = a} : m \in same}
            entry == scg[a][1]
        IN  /\ \A m \in CollectedFor(a) : m <= first
            /\ Len(scg[a]) = 1
            /\ entry.name = Source[first]
            /\ entry.count = Cardinality(places)
            /\ Len(entry.data) = IF Cardinality(places) >= 2 THEN 2 ELSE 1
            /\ \A i \in DOMAIN entry.data : entry.data[i] \in same
            /\ \A m \in same \ Range(entry.data), i \in DOMAIN entry.data : m < entry.data[i]
      BY DEF NewestSourceIsCollected
    <2> DEFINE G == Gathered(a)
               entry == scg[a][1]
    <2>1. /\ Lists(scg[a], G) /\ collected \subseteq Messages
      BY DEF RoundInv, RoundGathered, Collecting, IInv, TypeOK
    <2>2. /\ G \in SUBSET (Messages \X Nat)
          /\ \A m \in Messages, i \in Nat :
               <<m, i>> \in G <=> m \in collected /\ i \in Positions(m) /\ Emails[m][i] = a
      BY GatheredPlaces
    <2>3. /\ \A m \in Messages : Positions(m) \subseteq Nat
          /\ CollectedFor(a) \subseteq Messages
      BY <2>1, ProcessAssumption DEF ProcessAssumption, Positions, CollectedFor
    <2>4. /\ \A m \in Messages : m \in CollectedFor(a) <=> \E i \in Nat : <<m, i>> \in G
          /\ G # {}
      <3> HIDE DEF G
      <3>1. \A m \in Messages : m \in CollectedFor(a) <=> \E i \in Nat : <<m, i>> \in G
        BY <2>2, <2>3 DEF CollectedFor, Range, Positions
      <3> QED
        BY <2>3, <3>1
    <2> HIDE DEF G
    <2>5. Len(scg[a]) = 1 /\ Describes(entry, G)
      BY <2>1, <2>4 DEF Lists
    <2>6. PICK p \in G : entry.name = Source[p[1]] /\ \A q \in G : q[1] <= p[1]
      BY <2>5 DEF Describes
    <2> DEFINE first == p[1]
               same == {m \in CollectedFor(a) : Source[m] = Source[first]}
               places == UNION {{m} \X {i \in Positions(m) : Emails[m][i] = a} : m \in same}
    <2>7. first \in CollectedFor(a) /\ \A m \in CollectedFor(a) : m <= first
      <3>1. p = <<p[1], p[2]>> /\ p[1] \in Messages /\ p[2] \in Nat
        BY <2>2
      <3>2. ASSUME NEW m \in CollectedFor(a) PROVE m <= p[1]
        <4>1. PICK i \in Nat : <<m, i>> \in G
          BY <2>3, <2>4
        <4> QED
          BY <2>6, <4>1
      <3>3. p[1] \in CollectedFor(a)
        BY <2>4, <3>1
      <3> QED
        BY <3>2, <3>3
    <2>8. places = From(G, entry.name)
      <3> DEFINE cells(m) == {m} \X {i \in Positions(m) : Emails[m][i] = a}
      <3>1. places = UNION {cells(m) : m \in same}
        OBVIOUS
      <3>2. \A m \in Messages : \A x : x \in cells(m) <=>
              \E i \in Nat : x = <<m, i>> /\ i \in Positions(m) /\ Emails[m][i] = a
        BY <2>3
      <3>3. \A m : m \in same => m \in Messages /\ m \in collected /\ Source[m] = entry.name
        BY <2>3, <2>6 DEF CollectedFor
      <3>4. \A m \in Messages : m \in CollectedFor(a) /\ Source[m] = entry.name => m \in same
        BY <2>6
      <3> HIDE DEF places, same, entry, cells
      <3>5. ASSUME NEW x \in places PROVE x \in From(G, entry.name)
        <4>1. PICK m \in same : x \in cells(m)
          BY <3>1
        <4>2. m \in Messages /\ m \in collected /\ Source[m] = entry.name
          BY <3>3
        <4>3. PICK i \in Nat : x = <<m, i>> /\ i \in Positions(m) /\ Emails[m][i] = a
          BY <3>2, <4>1, <4>2
        <4> QED
          BY <2>2, <4>2, <4>3 DEF From
      <3>6. ASSUME NEW x \in From(G, entry.name) PROVE x \in places
        <4>1. x \in G /\ Source[x[1]] = entry.name
          BY DEF From
        <4>2. PICK m \in Messages, i \in Nat : x = <<m, i>>
          BY <2>2, <4>1
        <4>3. /\ i \in Positions(m) /\ Emails[m][i] = a
              /\ m \in CollectedFor(a) /\ Source[m] = entry.name
          BY <2>2, <2>4, <4>1, <4>2
        <4>4. m \in same /\ x \in cells(m)
          BY <3>2, <3>4, <4>2, <4>3
        <4> QED
          BY <3>1, <4>4
      <3> QED
        BY <3>5, <3>6
    <2>9. \A m : m \in same <=> \E q \in From(G, entry.name) : q[1] = m
      <3>1. ASSUME NEW m \in same PROVE \E q \in From(G, entry.name) : q[1] = m
        <4>1. PICK i \in Nat : <<m, i>> \in G
          BY <2>3, <2>4
        <4>2. <<m, i>> \in From(G, entry.name) /\ <<m, i>>[1] = m
          BY <2>6, <4>1 DEF From
        <4> QED
          BY <4>2
      <3>2. ASSUME NEW q \in From(G, entry.name) PROVE q[1] \in same
        <4>1. q \in G /\ Source[q[1]] = entry.name
          BY DEF From
        <4>2. q = <<q[1], q[2]>> /\ q[1] \in Messages /\ q[2] \in Nat
          BY <2>2, <4>1
        <4>3. q[1] \in CollectedFor(a)
          BY <2>4, <4>1, <4>2
        <4> QED
          BY <2>6, <4>1, <4>3
      <3> QED
        BY <3>1, <3>2
    <2>10. entry.data \in Seq(Messages) /\ DOMAIN entry.data = 1..Len(entry.data)
      BY <2>5 DEF Describes, SocketMessages
    <2> HIDE DEF same, places
    <2>11. entry.count = Cardinality(places)
           /\ Len(entry.data) = IF Cardinality(places) >= 2 THEN 2 ELSE 1
      BY <2>5, <2>8 DEF Describes
    <2>12. \A i \in DOMAIN entry.data : entry.data[i] \in same
      BY <2>5, <2>9, <2>10 DEF Describes
    <2>13. \A m \in same \ Range(entry.data), i \in DOMAIN entry.data : m < entry.data[i]
      BY <2>5, <2>9, <2>10 DEF Describes, Range
    <2> QED
      BY <2>5, <2>6, <2>7, <2>11, <2>12, <2>13 DEF same, places
  <1>2. IInv /\ RoundInv /\ [Next]_vars => RoundInv'
    BY RoundInductive
  <1> QED
    BY <1>1, <1>2, RoundInit, InvariantHolds, PTL DEF Spec
=============================================================================
