-------------------------- MODULE HeaderSyncProofs --------------------------
(***************************************************************************)
(* Proofs about HeaderSync, for every tree of headers, any number of       *)
(* overlapping commands and a server that answers anything: each row of    *)
(* the headers table is at the height the header really has, and there is  *)
(* no gap under the tip.                                                   *)
(***************************************************************************)
EXTENDS HeaderSync, TLAPS

USE BlocksAssumption DEF Heights

\* The blocks that can be in a batch, which all have a parent.
Fetched == Blocks \ {Genesis}

LEMMA ParentBelow ==
  ASSUME NEW b \in Fetched
  PROVE  Parent[b] \in Blocks /\ Height[b] = Height[Parent[b]] + 1 /\ Height[b] \in Heights
  BY DEF Fetched

\* Whatever the server answers is a sequence of blocks that fits under the bound.
LEMMA AnswersFit ==
  ASSUME NEW start \in 1 .. MaxHeight + 1, best \in Blocks, NEW blocks \in Answers(start)
  PROVE  blocks \in Seq(Fetched) /\ start + Len(blocks) <= MaxHeight + 1
<1>1. CASE Honest
  <2>1. PICK n \in 1 .. Height[best] - start + 1, chain \in ChainTo(best) :
          blocks = [i \in 1 .. n |-> chain[start + i - 1]]
    BY <1>1 DEF Answers
  <2>2. Height[best] \in Heights /\ n \in Nat /\ start + n <= MaxHeight + 1
    BY <2>1
  <2>3. \A i \in 1 .. n : chain[start + i - 1] \in Fetched
    <3>1. \A i \in 1 .. n : start + i - 1 \in 1 .. Height[best]
      BY <2>1, <2>2
    <3>2. /\ chain \in [0 .. Height[best] -> Blocks]
          /\ \A h \in 1 .. Height[best] : chain[h] # Genesis
      BY <2>1 DEF ChainTo
    <3>3. \A h \in 1 .. Height[best] : chain[h] \in Fetched
      BY <2>2, <3>2 DEF Fetched
    <3> QED
      BY <3>1, <3>3
  <2>4. blocks \in [1 .. n -> Fetched]
    BY <2>1, <2>3
  <2>5. blocks \in Seq(Fetched) /\ Len(blocks) = n
    BY <2>2, <2>4
  <2> QED
    BY <2>2, <2>5
<1>2. CASE ~Honest
  BY <1>2 DEF Answers, Fetched
<1> QED
  BY <1>1, <1>2

-----------------------------------------------------------------------------
(* Types *)

LEMMA NoTypes ==
  /\ NoTip \in [height : Heights, block : Blocks \cup {None}]
  /\ <<>> \in Seq(Fetched)
  BY DEF NoTip

LEMMA TypeInit == Init => TypeOK
<1> SUFFICES ASSUME Init PROVE TypeOK
  OBVIOUS
<1>1. headers \in [Heights -> Blocks \cup {None}] /\ handle \in BOOLEAN /\ best \in Blocks
  BY DEF Init, Empty
<1>2. pc \in [Tasks -> PCs] /\ \A t \in Tasks : pc[t] = "idle"
  BY DEF Init, PCs
<1>3. tip \in [Tasks -> [height : Heights, block : Blocks \cup {None}]]
  BY NoTypes DEF Init
<1>4. queue \in [Tasks -> Seq(Blocks \ {Genesis})] /\ next \in [Tasks -> 0 .. MaxHeight + 1]
  BY NoTypes DEF Init, Fetched
<1> QED
  BY <1>1, <1>2, <1>3, <1>4 DEF TypeOK

\* A command that returns leaves no locals behind.
LEMMA ReturnTypes ==
  ASSUME TypeOK, NEW t \in Tasks, Return(t), headers' \in [Heights -> Blocks \cup {None}],
         handle' \in BOOLEAN, best' \in Blocks
  PROVE  TypeOK'
  BY SMTT(30) DEF Return, Goto, TypeOK, NoTip, PCs

\* A command that only moves on keeps its locals.
LEMMA GotoTypes ==
  ASSUME TypeOK, NEW t \in Tasks, NEW where \in PCs, Goto(t, where),
         UNCHANGED <<tip, queue, next>>,
         where \in {"check_tip", "check_same", "check_prev", "insert"} =>
           queue[t] # <<>> /\ next[t] \in Heights /\ tip[t].block # None,
         headers' \in [Heights -> Blocks \cup {None}], handle' \in BOOLEAN, best' \in Blocks
  PROVE  TypeOK'
  BY DEF Goto, TypeOK, PCs

LEMMA ReadTipTypes ==
  ASSUME TypeOK, NEW t \in Tasks, NEW where \in {"sync_ask", "check_tip"}, ReadTip(t, where),
         where = "check_tip" => queue[t] # <<>> /\ next[t] \in Heights
  PROVE  TypeOK'
<1>1. PICK h \in Heights :
        IsTip(h) /\ tip' = [tip EXCEPT ![t] = [height |-> h, block |-> headers[h]]]
  BY DEF ReadTip
<1>2. headers[h] \in Blocks /\ headers[h] # None
  BY <1>1 DEF IsTip, Stored, TypeOK
<1> QED
  BY <1>1, <1>2 DEF ReadTip, Goto, TypeOK, PCs

\* The next header of a batch.
LEMMA AdvanceTypes ==
  ASSUME TypeOK, NEW t \in Tasks, Advance(t), queue[t] # <<>>, next[t] \in Heights,
         UNCHANGED tip, headers' \in [Heights -> Blocks \cup {None}], UNCHANGED <<handle, best>>
  PROVE  TypeOK'
<1>1. queue[t] \in Seq(Fetched) /\ Tail(queue[t]) \in Seq(Fetched)
  BY DEF TypeOK, Fetched
<1> QED
  BY <1>1, SMTT(30) DEF Advance, Goto, TypeOK, PCs, Fetched

LEMMA TypeNext == TypeOK /\ BatchInv /\ [Next]_vars => TypeOK'
<1> SUFFICES ASSUME TypeOK, BatchInv, [Next]_vars PROVE TypeOK'
  OBVIOUS
<1>0. /\ headers \in [Heights -> Blocks \cup {None}] /\ handle \in BOOLEAN /\ best \in Blocks
      /\ [headers EXCEPT ![0] = Genesis] \in [Heights -> Blocks \cup {None}]
  BY DEF TypeOK
<1>1. ASSUME NEW t \in Tasks, NEW for \in {"sync", "read"}, Ensure(t, for) PROVE TypeOK'
  BY <1>0, <1>1, GotoTypes DEF Ensure, Opening, Taking, PCs
<1>2. ASSUME NEW t \in Tasks, NEW for \in {"sync", "read"}, Open(t, for) PROVE TypeOK'
  BY <1>0, <1>2, GotoTypes DEF Open, Opening, Taking, PCs, InsertGenesis
<1>3. ASSUME NEW t \in Tasks, SyncTake(t) \/ ReadTake(t) \/ Refused(t) \/ ReadDone(t) \/ SyncFails(t)
      PROVE TypeOK'
  <2>1. CASE Return(t)
    BY <1>0, <1>3, <2>1, ReturnTypes DEF SyncTake, ReadTake, Refused, ReadDone, SyncFails, PutBack
  <2>2. CASE ~Return(t)
    BY <1>0, <1>3, <2>2, GotoTypes
       DEF SyncTake, ReadTake, Refused, ReadDone, SyncFails, PutBack, PCs
  <2> QED
    BY <2>1, <2>2
<1>4. ASSUME NEW t \in Tasks, SyncTip(t) PROVE TypeOK'
  BY <1>4, ReadTipTypes DEF SyncTip
<1>5. ASSUME NEW t \in Tasks, SyncAsk(t) PROVE TypeOK'
  <2>1. CASE PutBack(t)
    BY <1>0, <1>5, <2>1, ReturnTypes DEF SyncAsk, PutBack
  <2>2. CASE ~PutBack(t)
    BY <1>0, <1>5, <2>2, GotoTypes DEF SyncAsk, PCs
  <2> QED
    BY <2>1, <2>2
<1>6. ASSUME NEW t \in Tasks, SyncFetch(t) PROVE TypeOK'
  <2>1. tip[t].height + 1 \in 1 .. MaxHeight + 1
    BY DEF TypeOK
  <2>2. PICK blocks \in Answers(tip[t].height + 1) : queue' = [queue EXCEPT ![t] = blocks]
    BY <1>6 DEF SyncFetch
  <2>3. blocks \in Seq(Fetched)
    BY <1>0, <2>1, AnswersFit
  <2>4. queue' \in [Tasks -> Seq(Fetched)]
    BY <2>2, <2>3 DEF TypeOK, Fetched
  <2>5. next' \in [Tasks -> 0 .. MaxHeight + 1] /\ pc' = [pc EXCEPT ![t] = "connect"]
    BY <1>6, <2>1 DEF SyncFetch, Goto, TypeOK
  <2>6. \A u \in Tasks : pc'[u] \in {"check_tip", "check_same", "check_prev", "insert"} =>
          u # t /\ pc'[u] = pc[u] /\ queue'[u] = queue[u] /\ next'[u] = next[u]
    BY <1>6, <2>2, <2>5 DEF SyncFetch, TypeOK
  <2> QED
    BY <1>6, <2>4, <2>5, <2>6, SMTT(30) DEF SyncFetch, TypeOK, PCs, Fetched
<1>7. ASSUME NEW t \in Tasks, ConnectTip(t) PROVE TypeOK'
  <2>1. queue[t] \in Seq(Fetched) /\ queue[t] # <<>> /\ next[t] \in 0 .. MaxHeight + 1
    BY <1>7 DEF ConnectTip, TypeOK, Fetched
  <2>2. Len(queue[t]) >= 1 /\ next[t] + Len(queue[t]) <= MaxHeight + 1
    BY <2>1 DEF BatchInv
  <2>3. Len(queue[t]) \in Nat
    BY <2>1
  <2>4. next[t] \in Heights
    BY <2>1, <2>2, <2>3
  <2> QED
    BY <1>7, <2>1, <2>4, ReadTipTypes DEF ConnectTip
<1>8. ASSUME NEW t \in Tasks, ConnectDone(t) PROVE TypeOK'
  BY <1>0, <1>8, ReturnTypes DEF ConnectDone, PutBack
<1>9. ASSUME NEW t \in Tasks, CheckTip(t) PROVE TypeOK'
  BY <1>0, <1>9, GotoTypes DEF CheckTip, PCs, TypeOK
<1>10. ASSUME NEW t \in Tasks, CheckSame(t) PROVE TypeOK'
  <2>1. CASE Advance(t)
    BY <1>0, <1>10, <2>1, AdvanceTypes DEF CheckSame, TypeOK
  <2>2. CASE ~Advance(t)
    BY <1>0, <1>10, <2>2, GotoTypes DEF CheckSame, TypeOK, PCs
  <2> QED
    BY <2>1, <2>2
<1>11. ASSUME NEW t \in Tasks, CheckPrev(t) PROVE TypeOK'
  <2>1. CASE PutBack(t)
    BY <1>0, <1>11, <2>1, ReturnTypes DEF CheckPrev, PutBack
  <2>2. CASE ~PutBack(t)
    BY <1>0, <1>11, <2>2, GotoTypes DEF CheckPrev, TypeOK, PCs
  <2> QED
    BY <2>1, <2>2
<1>12. ASSUME NEW t \in Tasks, ConnectInsert(t) PROVE TypeOK'
  <2>1. queue[t] \in Seq(Fetched) /\ queue[t] # <<>> /\ next[t] \in Heights
    BY <1>12 DEF ConnectInsert, TypeOK, Fetched
  <2>2. Head(queue[t]) \in Blocks
    BY <2>1 DEF Fetched
  <2>3. headers' \in [Heights -> Blocks \cup {None}]
    BY <1>0, <1>12, <2>1, <2>2 DEF ConnectInsert, Insert
  <2> QED
    BY <1>12, <2>1, <2>3, AdvanceTypes DEF ConnectInsert
<1>13. ASSUME NEW b \in Blocks, ServerMoves(b) PROVE TypeOK'
  BY <1>13 DEF ServerMoves, local, TypeOK
<1>14. CASE Restart
  <2>1. pc' \in [Tasks -> PCs] /\ \A t \in Tasks : pc'[t] = "idle"
    BY <1>14 DEF Restart, PCs
  <2>2. tip' \in [Tasks -> [height : Heights, block : Blocks \cup {None}]]
    BY <1>14, NoTypes DEF Restart
  <2>3. queue' \in [Tasks -> Seq(Blocks \ {Genesis})] /\ next' \in [Tasks -> 0 .. MaxHeight + 1]
    BY <1>14, NoTypes DEF Restart, Fetched
  <2> QED
    BY <1>0, <1>14, <2>1, <2>2, <2>3 DEF TypeOK, Restart
<1>15. CASE UNCHANGED vars
  BY <1>15 DEF vars, TypeOK
<1> QED
  BY <1>1, <1>2, <1>3, <1>4, <1>5, <1>6, <1>7, <1>8, <1>9, <1>10, <1>11, <1>12, <1>13, <1>14, <1>15
     DEF Next, Running, Sync, Read

-----------------------------------------------------------------------------
(* The table *)

LEMMA InitInv == Init => IInv
<1> SUFFICES ASSUME Init PROVE IInv
  OBVIOUS
<1>1. Stored = {}
  BY DEF Init, Empty, Stored
<1>2. TipInv /\ InsertInv
  BY DEF Init, TipInv, InsertInv, NoTip
<1>3. BatchInv
  <2>1. \A t \in Tasks : queue[t] = <<>> /\ next[t] = 0 /\ pc[t] = "idle"
    BY DEF Init
  <2> QED
    BY <2>1 DEF BatchInv, Connecting
<1> QED
  BY <1>1, <1>2, <1>3 DEF IInv, HeadersAtTheirHeight, NoGaps

\* A row that is never deleted stays stored: only its header may change.
LEMMA StoredGrows ==
  ASSUME TypeOK, IInv, [Next]_vars
  PROVE  Stored \subseteq Stored'
<1>1. ASSUME NEW t \in Tasks, ConnectInsert(t) PROVE Stored \subseteq Stored'
  <2>1. queue[t] \in Seq(Fetched) /\ queue[t] # <<>> /\ next[t] \in Heights
    BY <1>1 DEF ConnectInsert, TypeOK, Fetched
  <2>2. Head(queue[t]) \in Blocks
    BY <2>1 DEF Fetched
  <2> QED
    BY <1>1, <2>1, <2>2 DEF ConnectInsert, Insert, Stored, TypeOK
<1>2. ASSUME NEW t \in Tasks, NEW for \in {"sync", "read"}, Open(t, for)
      PROVE  Stored \subseteq Stored'
  BY <1>2 DEF Open, InsertGenesis, Stored, TypeOK
<1>3. ASSUME UNCHANGED headers PROVE Stored \subseteq Stored'
  BY <1>3 DEF Stored
<1>4. [Next]_vars => \/ UNCHANGED headers
                     \/ \E t \in Tasks : ConnectInsert(t) \/ Open(t, "sync") \/ Open(t, "read")
  BY DEF Next, Running, Sync, Read, Ensure, SyncTake, ReadTake, Refused, ReadDone, SyncFails,
     SyncTip, SyncAsk, SyncFetch, ConnectTip, ConnectDone, ReadTip, CheckTip, CheckSame,
     CheckPrev, ServerMoves, Restart, vars, PutBack
<1> QED
  BY <1>1, <1>2, <1>3, <1>4

\* A step that writes no row and at which a command returns or only moves on.
LEMMA QuietInv ==
  ASSUME TypeOK, IInv, Stored \subseteq Stored', UNCHANGED headers,
         NEW t \in Tasks,
         \/ Return(t)
         \/ /\ UNCHANGED <<tip, queue, next>>
            /\ \E where \in PCs : Goto(t, where) /\ where \notin {"insert"}
                                  /\ (where \in Connecting => next[t] >= 1)
  PROVE  IInv'
<1>1. HeadersAtTheirHeight' /\ NoGaps'
  BY DEF IInv, HeadersAtTheirHeight, NoGaps, Stored
<1>2. \A u \in Tasks \ {t} : /\ pc'[u] = pc[u] /\ tip'[u] = tip[u]
                             /\ queue'[u] = queue[u] /\ next'[u] = next[u]
  BY DEF Return, Goto, TypeOK
<1>3. CASE Return(t)
  <2>1. pc'[t] = "idle" /\ tip'[t].block = None /\ queue'[t] = <<>> /\ next'[t] = 0
    BY <1>3 DEF Return, Goto, TypeOK, NoTip
  <2>2. Len(queue'[t]) = 0
    BY <2>1
  <2>3. TipInv' /\ InsertInv'
    BY <1>2, <2>1 DEF IInv, TipInv, InsertInv, Stored
  <2>4. BatchInv'
    BY <1>2, <2>1, <2>2 DEF IInv, BatchInv, Connecting
  <2> QED
    BY <1>1, <2>3, <2>4 DEF IInv
<1>4. CASE ~Return(t)
  <2>1. /\ UNCHANGED <<tip, queue, next>> /\ pc'[t] # "insert"
        /\ (pc'[t] \in Connecting => next[t] >= 1)
    BY <1>4 DEF Goto, TypeOK
  <2>2. TipInv' /\ InsertInv' /\ BatchInv'
    BY <1>2, <2>1 DEF IInv, TipInv, InsertInv, BatchInv, Stored
  <2> QED
    BY <1>1, <2>2 DEF IInv
<1> QED
  BY <1>3, <1>4

LEMMA ReadTipInv ==
  ASSUME TypeOK, IInv, NEW t \in Tasks, NEW where \in {"sync_ask", "check_tip"},
         ReadTip(t, where), where = "check_tip" => next[t] >= 1
  PROVE  IInv'
<1>1. PICK h \in Heights :
        IsTip(h) /\ tip' = [tip EXCEPT ![t] = [height |-> h, block |-> headers[h]]]
  BY DEF ReadTip
<1>2. h \in Stored /\ Height[headers[h]] = h /\ Stored' = Stored
  BY <1>1 DEF IsTip, IInv, HeadersAtTheirHeight, ReadTip, Stored
<1>3. TipInv'
  BY <1>1, <1>2 DEF IInv, TipInv, TypeOK
<1>4. BatchInv' /\ InsertInv'
  BY <1>2 DEF IInv, BatchInv, InsertInv, ReadTip, Goto, TypeOK, Connecting
<1>5. HeadersAtTheirHeight' /\ NoGaps'
  BY <1>2 DEF IInv, HeadersAtTheirHeight, NoGaps, ReadTip
<1> QED
  BY <1>3, <1>4, <1>5 DEF IInv

LEMMA FetchInv ==
  ASSUME TypeOK, IInv, NEW t \in Tasks, SyncFetch(t)
  PROVE  IInv'
<1>1. tip[t].height + 1 \in 1 .. MaxHeight + 1 /\ best \in Blocks
  BY DEF TypeOK
<1>2. PICK blocks \in Answers(tip[t].height + 1) : queue' = [queue EXCEPT ![t] = blocks]
  BY DEF SyncFetch
<1>3. tip[t].height + 1 + Len(blocks) <= MaxHeight + 1
  BY <1>1, <1>2, AnswersFit
<1>4. queue'[t] = blocks /\ next'[t] = tip[t].height + 1 /\ pc'[t] = "connect"
  BY <1>2 DEF SyncFetch, Goto, TypeOK
<1>5. \A u \in Tasks \ {t} : pc'[u] = pc[u] /\ queue'[u] = queue[u] /\ next'[u] = next[u]
  BY <1>2 DEF SyncFetch, Goto, TypeOK
<1>6. Stored' = Stored /\ UNCHANGED <<headers, tip>>
  BY DEF SyncFetch, Stored
<1>7. BatchInv'
  BY <1>1, <1>3, <1>4, <1>5, SMTT(30) DEF IInv, BatchInv
<1>8. InsertInv'
  BY <1>4, <1>5, <1>6 DEF IInv, InsertInv
<1>9. HeadersAtTheirHeight' /\ NoGaps' /\ TipInv'
  BY <1>6 DEF IInv, HeadersAtTheirHeight, NoGaps, TipInv
<1> QED
  BY <1>7, <1>8, <1>9 DEF IInv

\* The rest of a batch starts one height further up.
LEMMA AdvanceInv ==
  ASSUME TypeOK, IInv, NEW t \in Tasks, Advance(t), queue[t] # <<>>, next[t] \in Heights,
         pc[t] \in Connecting, UNCHANGED tip, Stored \subseteq Stored'
  PROVE  TipInv' /\ BatchInv' /\ InsertInv'
<1>1. queue[t] \in Seq(Fetched)
  BY DEF TypeOK, Fetched
<1>2. Len(Tail(queue[t])) = Len(queue[t]) - 1 /\ Len(queue[t]) \in Nat
  BY <1>1
<1>3. queue'[t] = Tail(queue[t]) /\ next'[t] = next[t] + 1 /\ pc'[t] = "connect"
  BY DEF Advance, Goto, TypeOK
<1>4. \A u \in Tasks \ {t} : pc'[u] = pc[u] /\ queue'[u] = queue[u] /\ next'[u] = next[u]
  BY DEF Advance, Goto, TypeOK
<1>5. BatchInv'
  <2>1. next[t] + Len(queue[t]) <= MaxHeight + 1
    BY DEF IInv, BatchInv
  <2>2. next'[t] >= 1 /\ next'[t] + Len(queue'[t]) <= MaxHeight + 1
    BY <1>2, <1>3, <2>1
  <2> QED
    BY <1>4, <2>2 DEF IInv, BatchInv
<1>6. TipInv' /\ InsertInv'
  BY <1>3, <1>4 DEF IInv, TipInv, InsertInv
<1> QED
  BY <1>5, <1>6

LEMMA RowInv ==
  ASSUME TypeOK, IInv, NEW t \in Tasks, ConnectInsert(t)
  PROVE  IInv'
<1>1. queue[t] \in Seq(Fetched) /\ queue[t] # <<>> /\ next[t] \in Heights /\ pc[t] = "insert"
  BY DEF ConnectInsert, TypeOK, Fetched
<1> DEFINE b == Head(queue[t])
           h == next[t]
<1>2. b \in Fetched
  BY <1>1
<1>3. h - 1 \in Stored /\ Height[b] = h
  BY <1>1 DEF IInv, InsertInv
<1>4. headers' = [headers EXCEPT ![h] = b] /\ b # None
  BY <1>2 DEF ConnectInsert, Insert, Fetched
<1>5. Stored' = Stored \cup {h}
  BY <1>1, <1>4 DEF Stored, TypeOK
<1>6. HeadersAtTheirHeight'
  BY <1>1, <1>3, <1>4, <1>5 DEF IInv, HeadersAtTheirHeight, TypeOK, Stored
<1>7. NoGaps'
  <2>1. \A k \in 0 .. h : k = h \/ k \in 0 .. h - 1
    BY <1>1
  <2>2. \A k \in 0 .. h - 1 : k \in Stored
    BY <1>3 DEF IInv, NoGaps
  <2> QED
    BY <1>5, <2>1, <2>2 DEF IInv, NoGaps
<1>8. TipInv' /\ BatchInv' /\ InsertInv'
  <2>1. UNCHANGED tip /\ Advance(t) /\ pc[t] \in Connecting
    BY <1>1 DEF ConnectInsert, Connecting
  <2> QED
    BY <1>1, <1>5, <2>1, AdvanceInv
<1> QED
  BY <1>6, <1>7, <1>8 DEF IInv

\* A check of connect_header that lets the header through to the insert.
LEMMA LetThrough ==
  ASSUME TypeOK, IInv, NEW t \in Tasks, pc[t] \in {"check_tip", "check_prev"},
         Goto(t, "insert"), UNCHANGED <<headers, tip, queue, next>>,
         Extends(Head(queue[t]), next[t], tip[t]) \/ Links(Head(queue[t]), next[t])
  PROVE  IInv'
<1>1. queue[t] \in Seq(Fetched) /\ queue[t] # <<>> /\ next[t] \in Heights /\ next[t] >= 1
  BY DEF TypeOK, Fetched, IInv, BatchInv, Connecting
<1> DEFINE b == Head(queue[t])
<1>2. Parent[b] \in Blocks /\ Height[b] = Height[Parent[b]] + 1
  BY <1>1, ParentBelow
<1>3. next[t] - 1 \in Stored /\ Height[b] = next[t]
  <2>1. CASE Extends(b, next[t], tip[t])
    <3>1. tip[t].block # None
      BY DEF TypeOK
    <3>2. tip[t].height \in Stored /\ Height[tip[t].block] = tip[t].height
      BY <3>1 DEF IInv, TipInv
    <3> QED
      BY <1>2, <2>1, <3>2 DEF Extends, Stored
  <2>2. CASE Links(b, next[t])
    <3>1. next[t] - 1 \in Stored
      BY <1>1, <2>2 DEF Links, Stored
    <3>2. Height[headers[next[t] - 1]] = next[t] - 1
      BY <3>1 DEF IInv, HeadersAtTheirHeight
    <3> QED
      BY <1>1, <1>2, <2>2, <3>1, <3>2 DEF Links
  <2> QED
    BY <2>1, <2>2
<1>4. /\ \A u \in Tasks \ {t} : pc'[u] = pc[u]
      /\ Stored' = Stored /\ pc'[t] = "insert" /\ pc[t] \in Connecting
  BY DEF Goto, TypeOK, Stored, Connecting
<1>5. TipInv' /\ HeadersAtTheirHeight' /\ NoGaps'
  BY <1>4 DEF IInv, TipInv, HeadersAtTheirHeight, NoGaps
<1>6. BatchInv'
  BY <1>4 DEF IInv, BatchInv
<1>7. InsertInv'
  BY <1>3, <1>4 DEF IInv, InsertInv
<1> QED
  BY <1>5, <1>6, <1>7 DEF IInv

LEMMA TableNext == TypeOK /\ IInv /\ [Next]_vars => IInv'
<1> SUFFICES ASSUME TypeOK, IInv, [Next]_vars PROVE IInv'
  OBVIOUS
<1>0. Stored \subseteq Stored'
  BY StoredGrows
<1>1. ASSUME NEW t \in Tasks, NEW for \in {"sync", "read"}, Ensure(t, for) PROVE IInv'
  BY <1>0, <1>1, QuietInv DEF Ensure, Opening, Taking, PCs, Connecting
<1>2. ASSUME NEW t \in Tasks, NEW for \in {"sync", "read"}, Open(t, for) PROVE IInv'
  <2>1. CASE UNCHANGED headers
    BY <1>0, <1>2, <2>1, QuietInv DEF Open, Opening, Taking, PCs, Connecting
  <2>2. CASE ~UNCHANGED headers
    <3>1. Stored = {} /\ headers' = [headers EXCEPT ![0] = Genesis] /\ Stored' = {0}
      BY <1>2, <2>2 DEF Open, InsertGenesis, Stored, TypeOK
    <3>2. headers'[0] = Genesis
      <4>1. 0 \in DOMAIN headers
        BY DEF TypeOK
      <4> QED
        BY <3>1, <4>1
    <3>3. HeadersAtTheirHeight' /\ NoGaps'
      <4>1. Height[Genesis] = 0
        BY BlocksAssumption
      <4> QED
        BY <3>1, <3>2, <4>1 DEF HeadersAtTheirHeight, NoGaps
    <3>4. /\ \A u \in Tasks \ {t} : pc'[u] = pc[u]
          /\ pc'[t] \notin Connecting /\ pc'[t] # "insert" /\ UNCHANGED <<tip, queue, next>>
      BY <1>2 DEF Open, Goto, Taking, TypeOK, Connecting
    <3>5. TipInv' /\ BatchInv' /\ InsertInv'
      BY <3>1, <3>4 DEF IInv, TipInv, BatchInv, InsertInv
    <3> QED
      BY <3>3, <3>5 DEF IInv
  <2> QED
    BY <2>1, <2>2
<1>3. ASSUME NEW t \in Tasks, SyncTake(t) \/ ReadTake(t) \/ Refused(t) \/ ReadDone(t) \/ SyncFails(t)
                              \/ SyncAsk(t) \/ ConnectDone(t)
      PROVE IInv'
  BY <1>0, <1>3, QuietInv DEF SyncTake, ReadTake, Refused, ReadDone, SyncFails, SyncAsk,
     ConnectDone, PutBack, PCs, Connecting
<1>4. ASSUME NEW t \in Tasks, SyncTip(t) PROVE IInv'
  BY <1>4, ReadTipInv DEF SyncTip
<1>5. ASSUME NEW t \in Tasks, SyncFetch(t) PROVE IInv'
  BY <1>5, FetchInv
<1>6. ASSUME NEW t \in Tasks, ConnectTip(t) PROVE IInv'
  BY <1>6, ReadTipInv DEF ConnectTip, IInv, BatchInv, Connecting
<1>7. ASSUME NEW t \in Tasks, CheckTip(t) PROVE IInv'
  <2>1. next[t] >= 1
    BY <1>7 DEF CheckTip, IInv, BatchInv, Connecting
  <2>2. CASE Goto(t, "insert")
    BY <1>7, <2>2, LetThrough DEF CheckTip, Goto, TypeOK
  <2>3. CASE Goto(t, "check_same")
    BY <1>0, <1>7, <2>1, <2>3, QuietInv DEF CheckTip, PCs
  <2> QED
    BY <1>7, <2>2, <2>3 DEF CheckTip
<1>8. ASSUME NEW t \in Tasks, CheckSame(t) PROVE IInv'
  <2>1. next[t] >= 1 /\ pc[t] \in Connecting
    BY <1>8 DEF CheckSame, IInv, BatchInv, Connecting
  <2>2. CASE Advance(t)
    <3>1. TipInv' /\ BatchInv' /\ InsertInv'
      BY <1>0, <1>8, <2>1, <2>2, AdvanceInv DEF CheckSame, TypeOK
    <3>2. HeadersAtTheirHeight' /\ NoGaps'
      BY <1>8 DEF CheckSame, IInv, HeadersAtTheirHeight, NoGaps, Stored
    <3> QED
      BY <3>1, <3>2 DEF IInv
  <2>3. CASE ~Advance(t)
    BY <1>0, <1>8, <2>1, <2>3, QuietInv DEF CheckSame, PCs
  <2> QED
    BY <2>2, <2>3
<1>9. ASSUME NEW t \in Tasks, CheckPrev(t) PROVE IInv'
  <2>1. CASE PutBack(t)
    BY <1>0, <1>9, <2>1, QuietInv DEF CheckPrev, PutBack
  <2>2. CASE ~PutBack(t)
    BY <1>9, <2>2, LetThrough DEF CheckPrev
  <2> QED
    BY <2>1, <2>2
<1>10. ASSUME NEW t \in Tasks, ConnectInsert(t) PROVE IInv'
  BY <1>10, RowInv
<1>11. CASE (\E b \in Blocks : ServerMoves(b)) \/ UNCHANGED vars
  BY <1>11 DEF ServerMoves, local, vars, IInv, HeadersAtTheirHeight, NoGaps, TipInv, BatchInv,
     InsertInv, Stored
<1>12. CASE Restart
  <2>1. /\ UNCHANGED headers /\ Stored' = Stored
        /\ \A t \in Tasks : pc'[t] = "idle" /\ tip'[t].block = None
                            /\ queue'[t] = <<>> /\ next'[t] = 0
    BY <1>12 DEF Restart, Stored, NoTip
  <2>2. HeadersAtTheirHeight' /\ NoGaps' /\ TipInv' /\ InsertInv'
    BY <2>1 DEF IInv, HeadersAtTheirHeight, NoGaps, TipInv, InsertInv
  <2>3. BatchInv'
    BY <2>1 DEF BatchInv, Connecting
  <2> QED
    BY <2>2, <2>3 DEF IInv
<1> QED
  BY <1>1, <1>2, <1>3, <1>4, <1>5, <1>6, <1>7, <1>8, <1>9, <1>10, <1>11, <1>12
     DEF Next, Running, Sync, Read

-----------------------------------------------------------------------------
\* The types and the invariant are inductive together: the length of a batch,
\* in BatchInv, keeps the heights of its headers in range.
THEOREM TypesAndTable == Spec => [](TypeOK /\ IInv)
<1>1. Init => TypeOK /\ IInv
  BY TypeInit, InitInv
<1>2. TypeOK /\ IInv /\ [Next]_vars => TypeOK' /\ IInv'
  BY TypeNext, TableNext DEF IInv
<1> QED
  BY <1>1, <1>2, PTL DEF Spec

\* Every variable of the sync keeps its type.
THEOREM TypeCorrect == Spec => []TypeOK
  BY TypesAndTable, PTL

\* A stored header is at the height it really has: verify_spv_proof finds the
\* block it asks for, whatever servers answered and however syncs overlapped.
THEOREM RightHeights == Spec => []HeadersAtTheirHeight
<1>1. IInv => HeadersAtTheirHeight
  BY DEF IInv
<1> QED
  BY <1>1, TypesAndTable, PTL

\* No row is missing below the tip, also in the middle of a batch or after a crash.
THEOREM Gapless == Spec => []NoGaps
<1>1. IInv => NoGaps
  BY DEF IInv
<1> QED
  BY <1>1, TypesAndTable, PTL

-----------------------------------------------------------------------------
(* One command at a time *)

\* A step of the only command there is.
LEMMA AloneStep ==
  ASSUME NEW t \in Tasks, \A u \in Tasks \ {t} : pc[u] = "idle" /\ pc'[u] = "idle", UpToDate(t)'
  PROVE  AloneInv'
<1>1. \A u \in Tasks \ {t} : UpToDate(u)'
  BY DEF UpToDate, Connecting
<1> QED
  BY <1>1 DEF AloneInv

\* The row that is written is the new tip and links to the tip before.
LEMMA AloneInsert ==
  ASSUME TypeOK, IInv, Linked, NEW t \in Tasks, UpToDate(t), ConnectInsert(t)
  PROVE  Linked' /\ UpToDate(t)'
<1> DEFINE b == Head(queue[t])
           h == next[t]
<1>1. queue[t] \in Seq(Fetched) /\ queue[t] # <<>> /\ h \in Heights /\ h >= 1 /\ pc[t] = "insert"
  BY DEF ConnectInsert, TypeOK, Fetched, IInv, BatchInv, Connecting
<1>2. b \in Blocks /\ b # Genesis /\ b # None
  BY <1>1 DEF Fetched
<1>3. IsTip(h - 1) /\ Parent[b] = headers[h - 1]
  BY <1>1 DEF UpToDate, Connecting
<1>4. headers' = [headers EXCEPT ![h] = b]
  BY DEF ConnectInsert, Insert
<1>5. Stored' = Stored \cup {h}
  BY <1>1, <1>2, <1>4 DEF Stored, TypeOK
<1>6. \A g \in Stored : g \in Heights /\ g < h
  BY <1>1, <1>3 DEF IsTip, Stored
<1>7. headers'[h] = b /\ \A g \in Heights : g < h => headers'[g] = headers[g]
  BY <1>1, <1>4 DEF TypeOK
<1> HIDE DEF b, h
<1>8. Linked'
  <2> SUFFICES ASSUME NEW g \in Stored'
               PROVE  IF g = 0 THEN headers'[0] = Genesis
                      ELSE headers'[g] # Genesis /\ Parent[headers'[g]] = headers'[g - 1]
    BY DEF Linked
  <2>1. CASE g = h
    <3>1. h - 1 \in Heights /\ h - 1 < h /\ h # 0
      BY <1>1 DEF Heights
    <3> QED
      BY <1>2, <1>3, <1>7, <2>1, <3>1
  <2>2. CASE g # h
    <3>1. g \in Stored /\ g \in Heights /\ g < h
      BY <1>5, <1>6, <2>2
    <3>2. g # 0 => g - 1 \in Heights /\ g - 1 < h
      BY <1>1, <3>1 DEF Heights
    <3> QED
      BY <1>7, <3>1, <3>2 DEF Linked
  <2> QED
    BY <2>1, <2>2
<1>9. UpToDate(t)'
  <2>1. pc'[t] = "connect" /\ next'[t] = h + 1
    BY DEF ConnectInsert, Advance, Goto, TypeOK, h
  <2>2. h \in Stored' /\ \A g \in Stored' : g <= h
    BY <1>1, <1>5, <1>6 DEF Heights
  <2>3. next'[t] - 1 = h
    BY <1>1, <2>1 DEF Heights
  <2>4. IsTip(next[t] - 1)'
    BY <2>2, <2>3 DEF IsTip
  <2> QED
    BY <2>1, <2>4 DEF UpToDate, Connecting
<1> QED
  BY <1>8, <1>9

LEMMA AloneNext ==
  ASSUME TypeOK, IInv, LinkedWhenAlone, AloneInv, [Next]_vars
  PROVE  LinkedWhenAlone' /\ AloneInv'
<1> SUFFICES ASSUME ~overlapped' PROVE Linked' /\ AloneInv'
  BY DEF LinkedWhenAlone, AloneInv
<1>0. ~overlapped
  BY DEF Next, Running, Sync, Read, Ensure, Open, SyncTake, ReadTake, Refused, ReadDone, SyncFails,
     SyncTip, SyncAsk, SyncFetch, ConnectTip, ConnectDone, ReadTip, CheckTip, CheckSame,
     CheckPrev, ConnectInsert, ServerMoves, Restart, vars
<1>a. /\ Linked /\ \A t \in Tasks : UpToDate(t)
      /\ \A t, u \in Tasks : pc[t] # "idle" /\ pc[u] # "idle" => t = u
  BY <1>0 DEF LinkedWhenAlone, AloneInv
<1>b. UNCHANGED headers => Linked' /\ \A h : IsTip(h) => IsTip(h)'
  BY <1>a DEF Linked, IsTip, Stored
\* A command that is on its way is the only one, and stays so.
<1>c. ASSUME NEW t \in Tasks, NEW where \in PCs, Goto(t, where), UpToDate(t)',
             pc[t] # "idle" \/ \A u \in Tasks : pc[u] = "idle"
      PROVE  AloneInv'
  <2>1. \A u \in Tasks \ {t} : pc[u] = "idle" /\ pc'[u] = "idle"
    BY <1>a, <1>c DEF Goto, TypeOK
  <2> QED
    BY <1>c, <2>1, AloneStep
<1>d. ASSUME NEW t \in Tasks, NEW where \in PCs, Goto(t, where) PROVE pc'[t] = where
  BY <1>d DEF Goto, TypeOK
\* Where nothing is known of the table, nothing has to be shown.
<1>e. ASSUME NEW t \in Tasks,
             pc'[t] \in {"idle", "sync_open", "sync_take", "sync_tip", "read_open", "read_take", "reading"}
      PROVE  UpToDate(t)'
  BY <1>e DEF UpToDate, Connecting
<1>1. ASSUME NEW t \in Tasks, NEW for \in {"sync", "read"}, Ensure(t, for) PROVE Linked' /\ AloneInv'
  <2>1. \A u \in Tasks : pc[u] = "idle"
    BY <1>1 DEF Ensure
  <2>2. PICK where \in {"sync_open", "sync_take", "read_open", "read_take"} : Goto(t, where)
    BY <1>1 DEF Ensure, Opening, Taking
  <2>3. UNCHANGED headers /\ where \in PCs
    BY <1>1 DEF Ensure, PCs
  <2> QED
    BY <1>b, <1>c, <1>d, <1>e, <2>1, <2>2, <2>3
<1>2. ASSUME NEW t \in Tasks, NEW for \in {"sync", "read"}, Open(t, for) PROVE Linked' /\ AloneInv'
  <2>1. pc[t] # "idle" /\ Goto(t, Taking[for]) /\ Taking[for] \in {"sync_take", "read_take"}
    BY <1>2 DEF Open, Opening, Taking
  <2>2. AloneInv'
    BY <1>c, <1>d, <1>e, <2>1 DEF PCs
  <2>3. CASE UNCHANGED headers
    BY <1>b, <2>2, <2>3
  <2>4. CASE ~UNCHANGED headers
    <3>1. headers' = [headers EXCEPT ![0] = Genesis] /\ Stored' = {0} /\ 0 \in Heights
      BY <1>2, <2>4, BlocksAssumption DEF Open, InsertGenesis, Stored, TypeOK, Heights
    <3>2. headers'[0] = Genesis
      BY <3>1 DEF TypeOK
    <3> QED
      BY <2>2, <3>1, <3>2 DEF Linked
  <2> QED
    BY <2>3, <2>4
<1>3. ASSUME NEW t \in Tasks, \/ SyncTake(t) \/ ReadTake(t) \/ Refused(t) \/ ReadDone(t) \/ SyncFails(t)
                              \/ ConnectDone(t)
      PROVE  Linked' /\ AloneInv'
  <2>1. PICK where \in {"idle", "sync_tip", "reading"} : Goto(t, where)
    BY <1>3 DEF SyncTake, ReadTake, Refused, ReadDone, SyncFails, ConnectDone, PutBack, Return
  <2>2. UNCHANGED headers /\ pc[t] # "idle" /\ where \in PCs
    BY <1>3 DEF SyncTake, ReadTake, Refused, ReadDone, SyncFails, ConnectDone, PCs
  <2> QED
    BY <1>b, <1>c, <1>d, <1>e, <2>1, <2>2
<1>4. ASSUME NEW t \in Tasks, NEW where \in {"sync_ask", "check_tip"}, ReadTip(t, where), pc[t] # "idle",
             where = "check_tip" => IsTip(next[t] - 1)
      PROVE  Linked' /\ AloneInv'
  <2>1. PICK h \in Heights : IsTip(h) /\ tip' = [tip EXCEPT ![t] = [height |-> h, block |-> headers[h]]]
    BY <1>4 DEF ReadTip
  <2>2. /\ tip'[t].height = h /\ tip'[t].block = headers[h]
        /\ pc'[t] = where /\ Goto(t, where) /\ UNCHANGED <<headers, next>> /\ where \in PCs
    BY <1>4, <2>1 DEF ReadTip, Goto, TypeOK, PCs
  <2>3. UpToDate(t)'
    BY <1>4, <1>b, <2>1, <2>2 DEF UpToDate, Connecting
  <2> QED
    BY <1>4, <1>b, <1>c, <2>2, <2>3
<1>5. ASSUME NEW t \in Tasks, SyncAsk(t) PROVE Linked' /\ AloneInv'
  <2>1. UNCHANGED headers /\ pc[t] = "sync_ask" /\ IsTip(tip[t].height)
    BY <1>5, <1>a DEF SyncAsk, UpToDate
  <2>2. CASE PutBack(t)
    BY <1>b, <1>c, <1>d, <1>e, <2>1, <2>2 DEF PutBack, Return, PCs
  <2>3. CASE ~PutBack(t)
    <3>1. Goto(t, "sync_fetch") /\ UNCHANGED tip /\ "sync_fetch" \in PCs
      BY <1>5, <2>3 DEF SyncAsk, PCs
    <3>2. UpToDate(t)'
      BY <1>b, <1>d, <2>1, <3>1 DEF UpToDate, Connecting
    <3> QED
      BY <1>b, <1>c, <2>1, <3>1, <3>2
  <2> QED
    BY <2>2, <2>3
<1>6. ASSUME NEW t \in Tasks, SyncFetch(t) PROVE Linked' /\ AloneInv'
  <2>1. UNCHANGED headers /\ pc[t] = "sync_fetch" /\ IsTip(tip[t].height) /\ tip[t].height \in Int
    BY <1>6, <1>a DEF SyncFetch, UpToDate, TypeOK, Heights
  <2>2. Goto(t, "connect") /\ next'[t] = tip[t].height + 1 /\ "connect" \in PCs
    BY <1>6 DEF SyncFetch, TypeOK, PCs
  <2>3. Stored' = Stored /\ next'[t] - 1 = tip[t].height
    BY <2>1, <2>2 DEF Stored
  <2>4. UpToDate(t)'
    BY <1>d, <2>1, <2>2, <2>3 DEF UpToDate, Connecting, IsTip
  <2> QED
    BY <1>b, <1>c, <2>1, <2>2, <2>4
<1>7. ASSUME NEW t \in Tasks, CheckTip(t) PROVE Linked' /\ AloneInv'
  <2>1. /\ UNCHANGED <<headers, tip, queue, next>> /\ pc[t] = "check_tip" /\ tip[t].height \in Int
        /\ IsTip(next[t] - 1) /\ headers[tip[t].height] = tip[t].block
    BY <1>7, <1>a DEF CheckTip, UpToDate, Connecting, TypeOK, Heights
  <2>2. CASE Extends(Head(queue[t]), next[t], tip[t])
    <3>1. Goto(t, "insert") /\ "insert" \in PCs
      BY <1>7, <2>2 DEF CheckTip, PCs
    <3>2. Parent[Head(queue[t])] = headers[next[t] - 1]
      BY <2>1, <2>2 DEF Extends
    <3>3. UpToDate(t)'
      BY <1>b, <1>d, <2>1, <3>1, <3>2 DEF UpToDate, Connecting
    <3> QED
      BY <1>b, <1>c, <2>1, <3>1, <3>3
  <2>3. CASE ~Extends(Head(queue[t]), next[t], tip[t])
    <3>1. Goto(t, "check_same") /\ "check_same" \in PCs
      BY <1>7, <2>3 DEF CheckTip, PCs
    <3>2. UpToDate(t)'
      BY <1>b, <1>d, <2>1, <3>1 DEF UpToDate, Connecting
    <3> QED
      BY <1>b, <1>c, <2>1, <3>1, <3>2
  <2> QED
    BY <2>2, <2>3
\* The row of the header's own height cannot be there: it would be above the tip.
<1>8. ASSUME NEW t \in Tasks, CheckSame(t) PROVE Linked' /\ AloneInv'
  <2>1. /\ UNCHANGED headers /\ pc[t] = "check_same" /\ IsTip(next[t] - 1)
        /\ queue[t] \in Seq(Fetched) /\ queue[t] # <<>> /\ next[t] \in Heights
    BY <1>8, <1>a DEF CheckSame, UpToDate, Connecting, TypeOK, Fetched
  <2>2. next[t] \notin Stored
    BY <2>1 DEF IsTip, Heights
  <2>3. headers[next[t]] # Head(queue[t])
    BY <2>1, <2>2, BlocksAssumption DEF Stored, Fetched
  <2>4. Goto(t, "check_prev") /\ UNCHANGED <<queue, next>> /\ "check_prev" \in PCs
    BY <1>8, <2>3 DEF CheckSame, PCs
  <2>5. UpToDate(t)'
    BY <1>b, <1>d, <2>1, <2>4 DEF UpToDate, Connecting
  <2> QED
    BY <1>b, <1>c, <2>1, <2>4, <2>5
<1>9. ASSUME NEW t \in Tasks, CheckPrev(t) PROVE Linked' /\ AloneInv'
  <2>1. UNCHANGED headers /\ pc[t] = "check_prev" /\ IsTip(next[t] - 1)
    BY <1>9, <1>a DEF CheckPrev, UpToDate, Connecting
  <2>2. CASE Links(Head(queue[t]), next[t])
    <3>1. Goto(t, "insert") /\ UNCHANGED <<queue, next>> /\ "insert" \in PCs
      BY <1>9, <2>2 DEF CheckPrev, PCs
    <3>2. UpToDate(t)'
      BY <1>b, <1>d, <2>1, <2>2, <3>1 DEF UpToDate, Connecting, Links
    <3> QED
      BY <1>b, <1>c, <2>1, <3>1, <3>2
  <2>3. CASE ~Links(Head(queue[t]), next[t])
    BY <1>9, <1>b, <1>c, <1>d, <1>e, <2>1, <2>3 DEF CheckPrev, PutBack, Return, PCs
  <2> QED
    BY <2>2, <2>3
<1>10. ASSUME NEW t \in Tasks, ConnectInsert(t) PROVE Linked' /\ AloneInv'
  <2>1. Linked' /\ UpToDate(t)'
    BY <1>10, <1>a, AloneInsert
  <2>2. pc[t] # "idle" /\ Goto(t, "connect") /\ "connect" \in PCs
    BY <1>10 DEF ConnectInsert, Advance, PCs
  <2> QED
    BY <1>c, <2>1, <2>2
<1>11. CASE (\E b \in Blocks : ServerMoves(b)) \/ UNCHANGED vars
  <2>1. UNCHANGED <<headers, tip, queue, next, pc>>
    BY <1>11 DEF ServerMoves, local, vars
  <2> QED
    BY <1>a, <1>b, <2>1 DEF AloneInv, UpToDate
<1>12. CASE Restart
  <2>1. UNCHANGED headers /\ \A t \in Tasks : pc'[t] = "idle"
    BY <1>12 DEF Restart
  <2> QED
    BY <1>b, <2>1 DEF AloneInv, UpToDate, Connecting
<1>13. ASSUME NEW t \in Tasks, SyncTip(t) \/ ConnectTip(t) PROVE Linked' /\ AloneInv'
  <2>1. pc[t] # "idle" /\ (ReadTip(t, "sync_ask") \/ (ReadTip(t, "check_tip") /\ IsTip(next[t] - 1)))
    BY <1>13, <1>a DEF SyncTip, ConnectTip, UpToDate, Connecting
  <2> QED
    BY <1>4, <2>1
<1> QED
  BY <1>1, <1>2, <1>3, <1>5, <1>6, <1>7, <1>8, <1>9, <1>10, <1>11, <1>12, <1>13
     DEF Next, Running, Sync, Read

\* As long as commands come one at a time the table is one chain from the genesis
\* on, whatever servers answer and wherever a command fails or the process ends.
THEOREM OneChain == Spec => []LinkedWhenAlone
<1>1. Init => LinkedWhenAlone /\ AloneInv
  <2> SUFFICES ASSUME Init PROVE Linked /\ AloneInv
    BY DEF LinkedWhenAlone
  <2>1. Stored = {} /\ \A t \in Tasks : pc[t] = "idle"
    BY DEF Init, Empty, Stored
  <2> QED
    BY <2>1 DEF Linked, AloneInv, UpToDate, Connecting
<1>2. TypeOK /\ IInv /\ LinkedWhenAlone /\ AloneInv /\ [Next]_vars => LinkedWhenAlone' /\ AloneInv'
  BY AloneNext
<1> QED
  BY <1>1, <1>2, TypesAndTable, PTL DEF Spec
=============================================================================
