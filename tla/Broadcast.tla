----------------------------- MODULE Broadcast ------------------------------
(***************************************************************************)
(* What a message server promises to those who post to it and to its       *)
(* clients: what it has accepted for a topic is cut into batches, in the   *)
(* order of acceptance and without gap or overlap, and a client gets each  *)
(* batch of a topic it follows whole, at most once.  It promises neither   *)
(* that a client gets every batch nor, with several workers, an order of   *)
(* the batches.                                                            *)
(*                                                                         *)
(* An item is named by its topic and its place in the topic's order of     *)
(* acceptance, a batch by its place among all batches.                     *)
(***************************************************************************)
EXTENDS Naturals, Sequences, Functions

CONSTANTS Topics, Clients, Follows

VARIABLES
  published,  \* for each topic, the number of items accepted
  batches,    \* the batches [topic, items], in the order in which they were cut
  got         \* for each client, the batches it has got, in that order

broadcastVars == <<published, batches, got>>

\* The number of items of topic t that are in a batch.
CutUpTo(t) ==
  LET last == {batches[k].items[Len(batches[k].items)] :
                 k \in {b \in DOMAIN batches : batches[b].topic = t}}
  IN  CHOOSE n \in last \cup {0} : \A m \in last : m <= n

BroadcastInit ==
  /\ published = [t \in Topics |-> 0]
  /\ batches = <<>>
  /\ got = [c \in Clients |-> <<>>]

Publish(t) ==
  /\ published' = [published EXCEPT ![t] = @ + 1]
  /\ UNCHANGED <<batches, got>>

\* The n oldest items of topic t that are in no batch yet.
Cut(t, n) ==
  /\ CutUpTo(t) + n <= published[t]
  /\ batches' = Append(batches, [topic |-> t, items |-> [i \in 1..n |-> CutUpTo(t) + i]])
  /\ UNCHANGED <<published, got>>

\* Some of the clients get batch k, or none of them.
Deliver(k, clients) ==
  /\ \A c \in clients : batches[k].topic \in Follows[c] /\ k \notin Range(got[c])
  /\ got' = [c \in Clients |-> IF c \in clients THEN Append(got[c], k) ELSE got[c]]
  /\ UNCHANGED <<published, batches>>

BroadcastNext ==
  \/ \E t \in Topics :
       \/ Publish(t)
       \/ \E n \in 1..published[t] : Cut(t, n)
  \/ \E k \in DOMAIN batches, clients \in SUBSET Clients : Deliver(k, clients)

BroadcastSpec == BroadcastInit /\ [][BroadcastNext]_broadcastVars
=============================================================================
