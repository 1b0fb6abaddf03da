----------------------------- MODULE HeaderSync -----------------------------
(***************************************************************************)
(* commands/network.rs: sync_headers and the commands that borrow the      *)
(* header store.  The store's handle lives in NetworkState; a command      *)
(* takes it out to use it across awaits and puts it back, and              *)
(* ensure_header_store opens another one on the same file whenever the     *)
(* handle is not there.  So the handle does not keep two commands apart:   *)
(* each one is cut at every query of the table and at every request.       *)
(*                                                                         *)
(* The server follows a best block of its own and may answer a request for *)
(* headers with any prefix of what it has; Honest = FALSE lets it answer   *)
(* anything.                                                               *)
(***************************************************************************)
EXTENDS HeaderStore, Sequences

CONSTANTS
  Tasks,    \* command invocations in flight at the same time
  Syncers,  \* those a user keeps making, for liveness
  Honest    \* whether the server answers from its own chain

VARIABLES
  handle,   \* net.header_store is Some
  best,     \* the block the server has as its tip
  pc,       \* where each invocation is
  tip,      \* the tip it read: get_tip's row
  queue,    \* the headers it still has to connect, lowest first
  next,     \* the height of the first of them
  overlapped \* history: two commands have been in flight at the same time

vars == <<headers, handle, best, pc, tip, queue, next, overlapped>>
local == <<pc, tip, queue, next>>

NoTip == [height |-> 0, block |-> None]

Init ==
  /\ headers = Empty
  /\ handle = FALSE
  /\ best = Genesis
  /\ pc = [t \in Tasks |-> "idle"]
  /\ tip = [t \in Tasks |-> NoTip]
  /\ queue = [t \in Tasks |-> <<>>]
  /\ next = [t \in Tasks |-> 0]
  /\ overlapped = FALSE

Goto(t, where) == pc' = [pc EXCEPT ![t] = where]

Return(t) ==
  /\ Goto(t, "idle")
  /\ tip' = [tip EXCEPT ![t] = NoTip]
  /\ queue' = [queue EXCEPT ![t] = <<>>]
  /\ next' = [next EXCEPT ![t] = 0]

PutBack(t) == Return(t) /\ handle' = TRUE

-----------------------------------------------------------------------------
(* ensure_header_store, the first step of every command *)

\* The two callers: sync_headers and the commands that only read.
Opening == [sync |-> "sync_open", read |-> "read_open"]
Taking == [sync |-> "sync_take", read |-> "read_take"]

Ensure(t, for) ==
  /\ pc[t] = "idle"
  /\ Goto(t, IF handle THEN Taking[for] ELSE Opening[for])
  /\ overlapped' = (overlapped \/ \E u \in Tasks : pc[u] # "idle")
  /\ UNCHANGED <<headers, handle, best, tip, queue, next>>

\* Opens the file and stores the genesis header, then installs the new handle.
Open(t, for) ==
  /\ pc[t] = Opening[for]
  /\ InsertGenesis
  /\ handle' = TRUE
  /\ Goto(t, Taking[for])
  /\ UNCHANGED <<best, tip, queue, next, overlapped>>

-----------------------------------------------------------------------------
(* get_header_store_info, verify_transaction_proof *)

ReadTake(t) ==
  /\ pc[t] = "read_take"
  /\ handle' = FALSE
  /\ IF handle THEN Goto(t, "reading") /\ UNCHANGED <<tip, queue, next>> ELSE Return(t)
  /\ UNCHANGED <<headers, best, overlapped>>

ReadDone(t) ==
  /\ pc[t] = "reading"
  /\ PutBack(t)
  /\ UNCHANGED <<headers, best, overlapped>>

-----------------------------------------------------------------------------
(* sync_headers *)

SyncTake(t) ==
  /\ pc[t] = "sync_take"
  /\ handle' = FALSE
  /\ IF handle THEN Goto(t, "sync_tip") /\ UNCHANGED <<tip, queue, next>> ELSE Return(t)
  /\ UNCHANGED <<headers, best, overlapped>>

ReadTip(t, where) ==
  /\ \E h \in Heights : IsTip(h) /\ tip' = [tip EXCEPT ![t] = [height |-> h, block |-> headers[h]]]
  /\ Goto(t, where)
  /\ UNCHANGED <<headers, handle, best, queue, next, overlapped>>

SyncTip(t) == pc[t] = "sync_tip" /\ ReadTip(t, "sync_ask")

SyncAsk_OffByOne(t) ==
  /\ pc[t] = "sync_ask"
  /\ \/ (Height[best] <= tip[t].height + 1 \/ ~Honest) /\ PutBack(t)
     \/ /\ Height[best] > tip[t].height + 1 \/ ~Honest
        /\ Goto(t, "sync_fetch")
        /\ UNCHANGED <<handle, tip, queue, next>>
  /\ UNCHANGED <<headers, best, overlapped>>

\* get_tip_height; a server that lies may name any height.
SyncAsk(t) ==
  /\ pc[t] = "sync_ask"
  /\ \/ (Height[best] <= tip[t].height \/ ~Honest) /\ PutBack(t)
     \/ /\ Height[best] > tip[t].height \/ ~Honest
        /\ Goto(t, "sync_fetch")
        /\ UNCHANGED <<handle, tip, queue, next>>
  /\ UNCHANGED <<headers, best, overlapped>>

\* The chain that ends in a block: the block at each height.
ChainTo(b) == {chain \in [0 .. Height[b] -> Blocks] :
                 /\ chain[Height[b]] = b
                 /\ \A h \in 1 .. Height[b] :
                      chain[h] # Genesis /\ chain[h - 1] = Parent[chain[h]]}

\* What the server can answer to blockchain.block.headers from a height on.  A
\* second genesis links to nothing, so no answer that counts has one.
Answers(start) ==
  IF Honest
  THEN {[i \in 1 .. n |-> chain[start + i - 1]] :
          n \in 1 .. Height[best] - start + 1, chain \in ChainTo(best)}
  ELSE UNION {[1 .. n -> Blocks \ {Genesis}] : n \in 0 .. MaxHeight + 1 - start}

SyncFetch(t) ==
  /\ pc[t] = "sync_fetch"
  /\ \E blocks \in Answers(tip[t].height + 1) : queue' = [queue EXCEPT ![t] = blocks]
  /\ next' = [next EXCEPT ![t] = tip[t].height + 1]
  /\ Goto(t, "connect")
  /\ UNCHANGED <<headers, handle, best, tip, overlapped>>

\* No connection, or the proof to verify does not come: an error before the take.
Refused(t) ==
  /\ pc[t] \in {"sync_take", "read_take"}
  /\ Return(t)
  /\ UNCHANGED <<headers, handle, best, overlapped>>

\* A failed query or request before the loop: `?` returns and drops the handle.
SyncFails(t) ==
  /\ pc[t] \in {"sync_tip", "sync_ask", "sync_fetch"}
  /\ Return(t)
  /\ UNCHANGED <<headers, handle, best, overlapped>>

-----------------------------------------------------------------------------
(* connect_header, once for every header fetched *)

ConnectTip(t) ==
  /\ pc[t] = "connect" /\ queue[t] # <<>>
  /\ ReadTip(t, "check_tip")

ConnectDone(t) ==
  /\ pc[t] = "connect" /\ queue[t] = <<>>
  /\ PutBack(t)
  /\ UNCHANGED <<headers, best, overlapped>>

CheckTip(t) ==
  /\ pc[t] = "check_tip"
  /\ Goto(t, IF Extends(Head(queue[t]), next[t], tip[t]) THEN "insert" ELSE "check_same")
  /\ UNCHANGED <<headers, handle, best, tip, queue, next, overlapped>>

Advance_SkipsHeight(t) ==
  /\ queue' = [queue EXCEPT ![t] = Tail(@)]
  /\ next' = [next EXCEPT ![t] = @ + 2]
  /\ Goto(t, "connect")
Advance(t) ==
  /\ queue' = [queue EXCEPT ![t] = Tail(@)]
  /\ next' = [next EXCEPT ![t] = @ + 1]
  /\ Goto(t, "connect")

CheckSame(t) ==
  /\ pc[t] = "check_same"
  /\ IF next[t] \in Heights /\ headers[next[t]] = Head(queue[t])
     THEN Advance(t)                     \* AlreadyExists
     ELSE Goto(t, "check_prev") /\ UNCHANGED <<queue, next>>
  /\ UNCHANGED <<headers, handle, best, tip, overlapped>>

\* The first header that does not connect ends the loop; the handle is put back.
CheckPrev(t) ==
  /\ pc[t] = "check_prev"
  /\ IF Links(Head(queue[t]), next[t])
     THEN Goto(t, "insert") /\ UNCHANGED <<handle, tip, queue, next>>
     ELSE PutBack(t)
  /\ UNCHANGED <<headers, best, overlapped>>

ConnectInsert(t) ==
  /\ pc[t] = "insert"
  /\ Insert(Head(queue[t]), next[t])
  /\ Advance(t)
  /\ UNCHANGED <<handle, best, tip, overlapped>>

-----------------------------------------------------------------------------
\* The server's best block grows by a block or moves to a higher branch.
ServerMoves(b) ==
  /\ Height[b] > Height[best]
  /\ best' = b
  /\ UNCHANGED <<headers, handle, local, overlapped>>

\* The process ends or crashes; the table keeps the rows written so far.
Restart ==
  /\ handle' = FALSE
  /\ pc' = [t \in Tasks |-> "idle"]
  /\ tip' = [t \in Tasks |-> NoTip]
  /\ queue' = [t \in Tasks |-> <<>>]
  /\ next' = [t \in Tasks |-> 0]
  /\ UNCHANGED <<headers, best, overlapped>>

Sync(t) ==
  \/ Ensure(t, "sync") \/ Open(t, "sync") \/ SyncTake(t)
  \/ SyncTip(t) \/ SyncAsk(t) \/ SyncFetch(t)
  \/ ConnectTip(t) \/ ConnectDone(t) \/ CheckTip(t) \/ CheckSame(t) \/ CheckPrev(t)
  \/ ConnectInsert(t)

Read(t) == Ensure(t, "read") \/ Open(t, "read") \/ ReadTake(t) \/ ReadDone(t)

Running ==
  \/ \E t \in Tasks : Sync(t) \/ Read(t) \/ Refused(t) \/ SyncFails(t)
  \/ \E b \in Blocks : ServerMoves(b)

Next == Running \/ Restart

Spec == Init /\ [][Next]_vars

\* A session in which one user keeps asking for a sync.  The Tauri runtime runs
\* its command to the end (WF); again and again the user picks a sync and not
\* another command, finds the handle in place and gets the queries and requests
\* answered (SF).  Nothing is asked of the other commands in flight.
FairSpec ==
  /\ Init /\ [][Running]_vars
  /\ \A t \in Syncers : /\ WF_vars(Sync(t)) /\ WF_vars(Read(t))
                        /\ SF_vars(Ensure(t, "sync")) /\ SF_vars(SyncTake(t) /\ handle)
                        /\ SF_vars(SyncTip(t)) /\ SF_vars(SyncAsk(t)) /\ SF_vars(SyncFetch(t))

-----------------------------------------------------------------------------
(* Properties *)

PCs == {"idle", "sync_open", "sync_take", "sync_tip", "sync_ask", "sync_fetch", "connect",
        "check_tip", "check_same", "check_prev", "insert", "read_open", "read_take", "reading"}

TypeOK ==
  /\ headers \in [Heights -> Blocks \cup {None}]
  /\ handle \in BOOLEAN
  /\ best \in Blocks
  /\ pc \in [Tasks -> PCs]
  /\ tip \in [Tasks -> [height : Heights, block : Blocks \cup {None}]]
  /\ queue \in [Tasks -> Seq(Blocks \ {Genesis})]
  /\ next \in [Tasks -> 0 .. MaxHeight + 1]
  /\ \A t \in Tasks : pc[t] \in {"check_tip", "check_same", "check_prev", "insert"} =>
       queue[t] # <<>> /\ next[t] \in Heights /\ tip[t].block # None

\* Whatever the server answers and however syncs overlap, a header is only ever
\* stored at the height it really has: verify_spv_proof looks blocks up by height.
HeadersAtTheirHeight == \A h \in Stored : Height[headers[h]] = h

\* The table has no gap under its tip, also between the rows of a batch and
\* after a crash: get_tip's height tells where the next sync has to start.
NoGaps == \A h \in Stored : \A g \in 0 .. h : g \in Stored

\* "The store validates the PoW and chain linkage before accepting new headers"
\* (header_store.rs:279-280): as long as commands come one at a time the table is
\* one chain from the genesis on, whatever the server answers and wherever a
\* command fails or the process ends.  Two that overlap can break it.
LinkedWhenAlone == ~overlapped => Linked

\* "Fetches headers from the current tip up to the server's chain tip"
\* (network.rs:725): once the server's chain rests, syncs bring the table there.
CatchesUp == <>[](headers[Height[best]] = best)

-----------------------------------------------------------------------------
(* The inductive invariant behind the two properties of the table *)

Connecting == {"connect", "check_tip", "check_same", "check_prev", "insert"}

\* A tip that was read is still a stored height, though the row may be replaced.
TipInv == \A t \in Tasks :
  tip[t].block # None => tip[t].height \in Stored /\ Height[tip[t].block] = tip[t].height

\* A batch starts above the genesis and ends within the bound of the model.
BatchInv == \A t \in Tasks : /\ pc[t] \in Connecting => next[t] >= 1
                             /\ next[t] + Len(queue[t]) <= MaxHeight + 1

\* What the checks of connect_header found still holds when the row is written.
InsertInv == \A t \in Tasks :
  pc[t] = "insert" => next[t] - 1 \in Stored /\ Height[Head(queue[t])] = next[t]

IInv == HeadersAtTheirHeight /\ NoGaps /\ TipInv /\ BatchInv /\ InsertInv

\* As long as commands come one at a time, the batch goes on where the table
\* ends, and the tip and the row below are still what the checks saw.
UpToDate(t) ==
  /\ pc[t] \in {"sync_ask", "sync_fetch"} => IsTip(tip[t].height)
  /\ pc[t] \in Connecting => IsTip(next[t] - 1)
  /\ pc[t] = "check_tip" => headers[tip[t].height] = tip[t].block
  /\ pc[t] = "insert" => Parent[Head(queue[t])] = headers[next[t] - 1]
AloneInv ==
  ~overlapped => /\ \A t, u \in Tasks : pc[t] # "idle" /\ pc[u] # "idle" => t = u
                 /\ \A t \in Tasks : UpToDate(t)
=============================================================================
