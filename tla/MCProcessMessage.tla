-------------------------- MODULE MCProcessMessage --------------------------
(* TLC instances of ProcessMessage: the messages and what they ask for.      *)
EXTENDS ProcessMessage

CONSTANTS a1, a2

\* The oldest message goes to two rooms, the second has no address and is
\* skipped, the newest names one address twice.
MCAddresses == {a1, a2}
MCEmails == << <<a2, a1>>, <<>>, <<a1, a1>> >>
MCChannel == << {"message"}, {"message"}, {"email", "mq", "message"} >>
OneSource == <<"alarm", "alarm", "alarm">>
TwoSources == <<"alarm", "alarm", "pipeline">>
=============================================================================
