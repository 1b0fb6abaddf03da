-------------------------- MODULE ElectrumXClient --------------------------
(* One ElectrumX connection: the calls of several commands, the reader task *)
(* that matches responses to them, disconnect, and the forwarder that turns *)
(* notifications into events (network/electrumx.rs, commands/events.rs).    *)
(*                                                                          *)
(* Commands share the client through an Arc; every `await` ends an action.  *)
(* A response is the task whose request it answers: its content, and the    *)
(* parsing of it, do not matter here.                                       *)
EXTENDS Naturals, FiniteSets

CONSTANTS
  Tasks,      \* invocations of commands that use the client
  Connector,  \* the one that runs connect()
  MaxId,      \* bound: requests
  MaxNotes,   \* bound: notifications
  Capacity,   \* of the broadcast channel (64 in the code)
  None

ASSUME ConnectorAssumption == Connector \in Tasks /\ IsFiniteSet(Tasks)
\* What a caller finds in its channel tells an answer from an error and from nothing.
ASSUME AnswersAssumption == {None, "error", "closed"} \cap Tasks = {}
\* The handshake is a request.
ASSUME BoundAssumption == /\ MaxId \in Nat \ {0} /\ MaxNotes \in Nat
                          /\ Capacity \in Nat \ {0}

VARIABLES
  connected,  \* Inner.connected
  writer,     \* Inner.writer holds the write half
  pending,    \* Inner.pending: the task that waits for a response id, or None
  next_id,    \* Inner.next_id
  reader,     \* the reader task
  aborted,    \* its handle was taken and aborted
  asked,      \* requests that reached the server
  shared,     \* NetworkState.client holds the client
  closing,    \* progress of disconnect()
  pc, id,     \* per task: where its call is suspended, its request id
  slot,       \* per task: what its oneshot channel holds
  left,       \* history: ids whose write failed, and left their entry
  sent,       \* notifications broadcast so far
  seen,       \* those the forwarder has taken or missed
  forwarder

inner == <<connected, writer, pending, next_id, asked>>
notes == <<sent, seen, forwarder>>
local == <<pc, id, slot, left>>
vars == <<inner, reader, aborted, shared, closing, local, notes>>

Ids == 1 .. MaxId
Answers == Tasks \cup {"error"}       \* what a response can carry

Init ==
  /\ connected = FALSE /\ writer = FALSE
  /\ pending = [i \in Ids |-> None]
  /\ next_id = 1
  /\ reader = "none" /\ aborted = FALSE
  /\ asked = {}
  /\ shared = FALSE /\ closing = "no"
  /\ pc = [t \in Tasks |-> "idle"]
  /\ id = [t \in Tasks |-> 0]
  /\ slot = [t \in Tasks |-> None]
  /\ left = {}
  /\ sent = 0 /\ seen = 0 /\ forwarder = "none"

Goto(t, l) == pc' = [pc EXCEPT ![t] = l]

-----------------------------------------------------------------------------
(* connect *)

\* TCP, TLS and the reader are up; a failure before that changes nothing.  The
\* handshake is a call like any other.
Dial(t) ==
  /\ t = Connector /\ reader = "none"
  /\ writer' = TRUE /\ reader' = "reading" /\ connected' = TRUE
  /\ Goto(t, "ready")
  /\ UNCHANGED <<pending, next_id, asked, aborted, shared, closing, id, slot, left, notes>>

\* connect_server stores the client and starts the forwarder; a handshake that
\* failed, or a protocol version out of range, drops the client and no more:
\* reader and connection stay.
Handshaken(t) ==
  /\ t = Connector /\ pc[t] = "done" /\ forwarder = "none"
  /\ \/ slot[t] \in Tasks /\ shared' = TRUE /\ forwarder' = "on" /\ seen' = sent
     \/ shared' = FALSE /\ forwarder' = "never" /\ seen' = seen
  /\ Goto(t, "idle")
  /\ UNCHANGED <<inner, reader, aborted, closing, id, slot, left, sent>>

-----------------------------------------------------------------------------
(* call *)

\* A command takes its own handle out of the session's lock.
Clone(t) ==
  /\ pc[t] = "idle" /\ shared
  /\ next_id + Cardinality({u \in Tasks : pc[u] = "ready"}) <= MaxId
  /\ slot' = [slot EXCEPT ![t] = None]
  /\ Goto(t, "ready")
  /\ UNCHANGED <<inner, reader, aborted, shared, closing, id, left, notes>>

NextId_Stale(t) == UNCHANGED next_id
NextId(t) == next_id' = next_id + 1

Begin(t) ==
  /\ pc[t] = "ready"
  /\ \/ ~connected /\ slot' = [slot EXCEPT ![t] = "error"] /\ Goto(t, "done")
        /\ UNCHANGED <<next_id, id>>
     \/ connected /\ id' = [id EXCEPT ![t] = next_id] /\ NextId(t) /\ Goto(t, "named")
        /\ UNCHANGED slot
  /\ UNCHANGED <<connected, writer, pending, asked, reader, aborted, shared, closing, left, notes>>

\* HashMap::insert; were the id in use, the other caller's sender would be dropped.
Register(t) ==
  /\ pc[t] = "named"
  /\ pending' = [pending EXCEPT ![id[t]] = t]
  /\ slot' = IF pending[id[t]] = None THEN slot ELSE [slot EXCEPT ![pending[id[t]]] = "closed"]
  /\ Goto(t, "registered")
  /\ UNCHANGED <<connected, writer, next_id, asked, reader, aborted, shared, closing, id, left, notes>>

\* Without a writer, or when writing fails, `?` returns at once: the pending
\* entry stays, whether the request arrived or not.
Write(t) ==
  /\ pc[t] = "registered"
  /\ \/ writer /\ Goto(t, "waiting") /\ UNCHANGED <<slot, left>>
     \/ /\ slot' = [slot EXCEPT ![t] = "error"] /\ Goto(t, "done")
        /\ left' = left \cup {id[t]}
  /\ IF writer THEN asked' \in {asked, asked \cup {[id |-> id[t], by |-> t]}}
               ELSE UNCHANGED asked
  /\ UNCHANGED <<connected, writer, pending, next_id, reader, aborted, shared, closing, id, notes>>

Receive(t) ==
  /\ pc[t] = "waiting" /\ slot[t] # None
  /\ Goto(t, IF slot[t] = "closed" THEN "expired" ELSE "done")
  /\ UNCHANGED <<inner, reader, aborted, shared, closing, id, slot, left, notes>>

\* REQUEST_TIMEOUT has passed with nothing in the channel.
TimeOut_Never(t) == FALSE
TimeOut(t) ==
  /\ pc[t] = "waiting" /\ slot[t] = None
  /\ Goto(t, "expired")
  /\ UNCHANGED <<inner, reader, aborted, shared, closing, id, slot, left, notes>>

\* The entry is removed under a lock of its own: an answer may come first.
Forget(t) ==
  /\ pc[t] = "expired"
  /\ pending' = [pending EXCEPT ![id[t]] = None]
  /\ slot' = [slot EXCEPT ![t] = "error"]
  /\ Goto(t, "done")
  /\ UNCHANGED <<connected, writer, next_id, asked, reader, aborted, shared, closing, id, left, notes>>

\* The command ends and drops its handle.
Return(t) ==
  /\ pc[t] = "done" /\ forwarder # "none"
  /\ Goto(t, "idle")
  /\ UNCHANGED <<inner, reader, aborted, shared, closing, id, slot, left, notes>>

-----------------------------------------------------------------------------
(* read_loop *)

\* What the channels hold once the senders of the entries S have sent a, or were
\* dropped: nobody listens any more to an entry that a call left behind.
Resolved(S, a) == [t \in Tasks |->
  IF pc[t] \in {"registered", "waiting"} /\ id[t] \in S /\ pending[id[t]] = t
  THEN a ELSE slot[t]]

\* A response to any request so far, at any time, possibly again; responses
\* nobody waits for, lines too long and malformed ones change nothing.
Dispatch(r, a) ==
  /\ reader = "reading" /\ r \in asked /\ pending[r.id] # None
  /\ a \in {r.by, "error"}
  /\ slot' = Resolved({r.id}, a)
  /\ pending' = [pending EXCEPT ![r.id] = None]
  /\ UNCHANGED <<connected, writer, next_id, asked, reader, aborted, shared, closing, pc, id, left, notes>>

Notify ==
  /\ reader = "reading" /\ sent < MaxNotes
  /\ sent' = sent + 1
  /\ seen' = IF forwarder = "on" THEN seen ELSE sent + 1   \* dropped: no subscriber
  /\ UNCHANGED <<inner, reader, aborted, shared, closing, local, forwarder>>

\* The server closed the connection, or reading failed.
Eof ==
  /\ reader = "reading"
  /\ reader' = "ended"
  /\ connected' = FALSE
  /\ UNCHANGED <<writer, pending, next_id, asked, aborted, shared, closing, local, notes>>

\* The callers whose entries are there now are told; who registers later is not.
Drain ==
  /\ reader = "ended"
  /\ reader' = "done"
  /\ slot' = Resolved(Ids, "error")
  /\ pending' = [i \in Ids |-> None]
  /\ UNCHANGED <<connected, writer, next_id, asked, aborted, shared, closing, pc, id, left, notes>>

\* An aborted task ends at an await, not at once.
Stop ==
  /\ aborted /\ reader \in {"reading", "ended"}
  /\ reader' = "done"
  /\ UNCHANGED <<inner, aborted, shared, closing, local, notes>>

-----------------------------------------------------------------------------
(* disconnect, and other ways to lose the session's handle *)

\* disconnect_server takes the client and calls disconnect().
Take ==
  /\ shared
  /\ shared' = FALSE
  /\ connected' = FALSE
  /\ closing' = "flagged"
  /\ UNCHANGED <<writer, pending, next_id, asked, reader, aborted, local, notes>>

CloseWriter ==
  /\ closing = "flagged"
  /\ writer' = FALSE
  /\ closing' = "unwritable"
  /\ UNCHANGED <<connected, pending, next_id, asked, reader, aborted, shared, local, notes>>

Abort_Omitted ==
  /\ closing = "unwritable"
  /\ closing' = "aborted"
  /\ UNCHANGED <<inner, reader, aborted, shared, local, notes>>
Abort ==
  /\ closing = "unwritable"
  /\ aborted' = TRUE
  /\ closing' = "aborted"
  /\ UNCHANGED <<inner, reader, shared, local, notes>>

\* Clearing the map drops the senders: their callers wake with an error.
Clear ==
  /\ closing = "aborted"
  /\ pending' = [i \in Ids |-> None]
  /\ slot' = Resolved(Ids, "closed")
  /\ closing' = "closed"
  /\ UNCHANGED <<connected, writer, next_id, asked, reader, aborted, shared, pc, id, left, notes>>

\* set_network_backend("whatsonchain"), or a second connect_server: the handle
\* is dropped or replaced and nobody disconnects.
Drop ==
  /\ shared
  /\ shared' = FALSE
  /\ UNCHANGED <<inner, reader, aborted, closing, local, notes>>

-----------------------------------------------------------------------------
(* start_notification_forwarder *)

\* Inner, and the channel's sender with it, lives while anybody has a handle.
Alive == \/ shared
         \/ reader \in {"reading", "ended"}
         \/ closing \in {"flagged", "unwritable", "aborted"}
         \/ \E t \in Tasks : pc[t] # "idle"

Forward ==
  /\ forwarder = "on" /\ seen < sent /\ sent - seen <= Capacity
  /\ seen' = seen + 1
  /\ UNCHANGED <<inner, reader, aborted, shared, closing, local, sent, forwarder>>

\* RecvError::Lagged: go on with the oldest notification the channel still holds.
Lag_Stops ==
  /\ forwarder = "on" /\ sent - seen > Capacity
  /\ forwarder' = "off"
  /\ UNCHANGED <<inner, reader, aborted, shared, closing, local, sent, seen>>
Lag ==
  /\ forwarder = "on" /\ sent - seen > Capacity
  /\ seen' = sent - Capacity
  /\ UNCHANGED <<inner, reader, aborted, shared, closing, local, sent, forwarder>>

Closed ==
  /\ forwarder = "on" /\ ~Alive /\ seen = sent
  /\ forwarder' = "off"
  /\ UNCHANGED <<inner, reader, aborted, shared, closing, local, sent, seen>>

-----------------------------------------------------------------------------
Command(t) ==
  \/ Handshaken(t) \/ Begin(t) \/ Register(t) \/ Write(t) \/ Receive(t)
  \/ TimeOut(t) \/ Forget(t) \/ Return(t)

Cleanup == Drain \/ Stop \/ CloseWriter \/ Abort \/ Clear
Forwarding == Forward \/ Lag \/ Closed

Next ==
  \/ \E t \in Tasks : Dial(t) \/ Clone(t) \/ Command(t)
  \/ \E r \in asked : \E a \in Answers : Dispatch(r, a)
  \/ Notify \/ Eof \/ Take \/ Drop
  \/ Cleanup \/ Forwarding

Spec == Init /\ [][Next]_vars

\* The runtime runs every task that can run, and timers fire.  Nothing is asked
\* of the server or of the user.
FairSpec == /\ Spec
            /\ \A t \in Tasks : WF_vars(Command(t))
            /\ WF_vars(Drain) /\ WF_vars(Stop) /\ WF_vars(CloseWriter \/ Abort \/ Clear)
            /\ WF_vars(Forwarding)

-----------------------------------------------------------------------------
(* Properties *)

PCs == {"idle", "ready", "named", "registered", "waiting", "expired", "done"}

\* Who waits was named an id of its own before, and nobody's id is still to come.
TypeOK ==
  /\ connected \in BOOLEAN /\ writer \in BOOLEAN
  /\ pending \in [Ids -> Tasks \cup {None}]
  /\ next_id \in 1 .. MaxId + 1
  /\ reader \in {"none", "reading", "ended", "done"} /\ aborted \in BOOLEAN
  /\ asked \subseteq [id : Ids, by : Tasks]
  /\ shared \in BOOLEAN
  /\ closing \in {"no", "flagged", "unwritable", "aborted", "closed"}
  /\ pc \in [Tasks -> PCs]
  /\ id \in [Tasks -> 0 .. next_id - 1]
  /\ slot \in [Tasks -> Answers \cup {None, "closed"}]
  /\ left \subseteq Ids
  /\ sent \in 0 .. MaxNotes /\ seen \in 0 .. sent
  /\ forwarder \in {"none", "on", "never", "off"}

\* A caller gets the response to its own request or an error, though the server
\* answers in any order, late, or twice, and callers time out in between.
OwnAnswer == \A t \in Tasks : slot[t] \in Tasks => slot[t] = t

\* No entry outlives its call, but for those a failed write leaves behind until
\* the connection ends: `pending` does not grow with timeouts and late answers.
NoOrphans ==
  \A i \in Ids : pending[i] # None =>
    \/ id[pending[i]] = i /\ pc[pending[i]] \in {"registered", "waiting", "expired"}
    \/ i \in left

\* The table of pending requests and its callers fit together, in whatever order
\* responses, timeouts, failed writes and the end of the connection come.
CallsSound == TypeOK /\ OwnAnswer /\ NoOrphans

\* Every call returns, whatever the server does and whenever the client is
\* disconnected or its connection closed, also one that registers after the
\* reader failed all the others.
CallsReturn == \A t \in Tasks : pc[t] # "idle" ~> pc[t] = "idle"

\* "The task runs until the client disconnects (channel closes)" (events.rs:39):
\* after disconnect() the last handle goes away and the forwarder ends.
ForwarderEnds == closing = "closed" ~> forwarder = "off"

\* However far the forwarder lags behind the channel it catches up with the
\* newest notification: the balance shown is not stale for good.
NewestArrives == \A n \in 1 .. MaxNotes :
  forwarder = "on" /\ sent = n ~> seen >= n

-----------------------------------------------------------------------------
(* The inductive invariant behind CallsSound *)

Ready == {t \in Tasks : pc[t] = "ready"}
Numbered == {t \in Tasks : pc[t] \in {"named", "registered", "waiting", "expired"}}

\* Before connect() has dialled nobody has a handle to call with.
DialInv == reader = "none" =>
  ~shared /\ next_id = 1 /\ \A t \in Tasks : pc[t] = "idle" /\ slot[t] = None

\* Ids are given once: whoever has one shares it with nobody, and there is one
\* left for everybody who is about to take one.
IdInv ==
  /\ next_id + Cardinality(Ready) <= MaxId + 1
  /\ \A t \in Numbered : id[t] # 0
  /\ \A t, u \in Tasks : id[t] = id[u] /\ id[t] # 0 => t = u

\* A request the server has names the caller that has its id, if one still has.
AskedInv == \A r \in asked :
  r.id < next_id /\ \A t \in Tasks : id[t] = r.id => r.by = t

\* A channel holds an answer only after the entry has gone, and none before the
\* entry was made.
SlotInv == \A t \in Tasks :
  /\ pc[t] \in {"ready", "named"} => slot[t] \in {None, "closed"}
  /\ pc[t] \in {"registered", "waiting"} /\ slot[t] \notin {None, "closed"} =>
       pending[id[t]] # t

IInv == DialInv /\ IdInv /\ AskedInv /\ SlotInv /\ OwnAnswer /\ NoOrphans
=============================================================================
