---------------------------- MODULE SpvChannels ----------------------------
(***************************************************************************)
(* features/spv_channels.rs and its commands (commands/services.rs): mail  *)
(* boxes on a relay.  A sender posts; the recipient lists what is unread   *)
(* and marks it read.  Requests and answers get lost, and whoever has no   *)
(* answer asks again.                                                      *)
(***************************************************************************)
EXTENDS Naturals, FiniteSets

CONSTANTS
  Payloads,
  MaxMessages   \* bound on the messages the relay numbers

VARIABLES
  channel,      \* "none", "open" or "deleted"
  messages,     \* the relay: the payload and the read mark of each message id
  inbox,        \* the recipient: the ids listed and not yet marked read
  done,         \* history: the payloads the recipient has seen
  posted        \* history: the payloads whose post was answered

vars == <<channel, messages, inbox, done, posted>>

Ids == DOMAIN messages
NoMessages == [i \in {} |-> [payload |-> "none", read |-> FALSE]]

Init ==
  /\ channel = "none" /\ messages = NoMessages
  /\ inbox = {} /\ done = {} /\ posted = {}

create_channel ==
  /\ channel = "none"
  /\ channel' = "open"
  /\ UNCHANGED <<messages, inbox, done, posted>>

\* The relay gives each post an id, a repeated one too.
post_message(p, arrives, answered) ==
  /\ channel = "open" /\ p \notin posted /\ (answered => arrives)
  /\ arrives => Cardinality(Ids) < MaxMessages
  /\ messages' = IF arrives
                 THEN [i \in Ids \cup {Cardinality(Ids)} |->
                         IF i \in Ids THEN messages[i] ELSE [payload |-> p, read |-> FALSE]]
                 ELSE messages
  /\ posted' = IF answered THEN posted \cup {p} ELSE posted
  /\ UNCHANGED <<channel, inbox, done>>

\* spv_list_messages asks for the unread ones.
Listed == {i \in Ids : ~messages[i].read}
list_messages ==
  /\ channel = "open"
  /\ inbox' = Listed
  /\ done' = done \cup {messages[i].payload : i \in Listed}
  /\ UNCHANGED <<channel, messages, posted>>

\* One message, by its id; if the answer is lost it stays in the inbox.
Marked_All(i) == Ids
Marked(i) == {i}
mark_read(i, answered) ==
  /\ channel = "open" /\ i \in inbox
  /\ messages' = [j \in Ids |-> IF j \in Marked(i)
                               THEN [messages[j] EXCEPT !.read = TRUE] ELSE messages[j]]
  /\ inbox' = IF answered THEN inbox \ {i} ELSE inbox
  /\ UNCHANGED <<channel, done, posted>>

delete_channel ==
  /\ channel = "open"
  /\ channel' = "deleted" /\ messages' = NoMessages /\ inbox' = {}
  /\ UNCHANGED <<done, posted>>

Next ==
  \/ create_channel \/ list_messages \/ delete_channel
  \/ \E p \in Payloads, arrives, answered \in BOOLEAN : post_message(p, arrives, answered)
  \/ \E i \in Ids, answered \in BOOLEAN : mark_read(i, answered)
Spec == Init /\ [][Next]_vars

-----------------------------------------------------------------------------
TypeOK ==
  /\ messages \in [Ids -> [payload : Payloads, read : BOOLEAN]]
  /\ inbox \subseteq Ids
  /\ channel # "open" => Ids = {}

\* post_message, list_messages, mark_read: as long as there is a channel, what
\* the relay has taken has been seen or will be listed, whatever got lost.
NothingUnseen ==
  channel = "open" =>
    \A p \in posted : p \in done \/ \E i \in Listed : messages[i].payload = p

-----------------------------------------------------------------------------
(* What it rests on *)

\* The relay numbers messages from 0 and forgets none.
NumberedInv == \E n \in Nat : Ids = {i \in Nat : i < n}

\* What the recipient has in hand, and what is marked read, has been seen.
SeenInv ==
  /\ \A i \in inbox : messages[i].payload \in done
  /\ \A i \in Ids : messages[i].read => messages[i].payload \in done

\* Nothing is posted before there is a channel.
ChannelInv == channel \in {"none", "open", "deleted"} /\ (channel = "none" => posted = {})

IInv == TypeOK /\ NumberedInv /\ SeenInv /\ ChannelInv /\ NothingUnseen
=============================================================================
