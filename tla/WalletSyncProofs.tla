-------------------------- MODULE WalletSyncProofs --------------------------
(* Theorems about WalletSync, for any number of keys, coins and overlapping *)
(* syncs: no row dangles, no coin is lost, and a sync that runs alone       *)
(* leaves exactly what the server has.                                      *)
EXTENDS WalletSync, TLAPS

USE KeysAssumption, NoneAssumption

LEMMA InitInv == Init => IInv
<1> SUFFICES ASSUME Init PROVE IInv
  OBVIOUS
<1>1. TypeOK
  BY DEF Init, TypeOK
<1>2. SyncTypes
  BY DEF Init, SyncTypes, PCs
<1> QED
  BY <1>1, <1>2 DEF Init, IInv, PlaceInv, RowInv, NothingDangles, FetchedInv, CoverInv

-----------------------------------------------------------------------------
(* Types and places *)

LEMMA KeyAt ==
  ASSUME PlaceInv, NEW s \in Syncs, pc[s] # "idle"
  PROVE  at[s] \in 1 .. Len(Keys) /\ Keys[at[s]] \in KeySet /\ Keys[at[s]] # None
  BY DEF PlaceInv, KeySet

\* What the server answers is written as rows of the tables.
LEMMA AnswerTypes ==
  ASSUME SyncTypes
  PROVE  /\ \A t \in Txs : Height(t) \in {"null", "height"}
         /\ \A k : {[tx |-> t, coin |-> None, height |-> Height(t)] : t \in get_history(k)} \subseteq Entries
         /\ \A k : {[tx |-> TxOf[c], coin |-> c, height |-> Height(TxOf[c])] : c \in get_utxos(k)} \subseteq Entries
<1>1. \A t \in Txs : Height(t) \in {"null", "height"}
  BY DEF Height
<1>2. \A c \in Coins : TxOf[c] \in Txs
  BY DEF Txs
<1> QED
  BY <1>1, <1>2 DEF Entries, get_history, get_utxos, Owned

LEMMA TypesNext == IInv /\ [Next]_vars => (TypeOK /\ SyncTypes /\ PlaceInv)'
<1> SUFFICES ASSUME TypeOK, SyncTypes, PlaceInv, [Next]_vars PROVE (TypeOK /\ SyncTypes /\ PlaceInv)'
  BY DEF IInv
<1> USE DEF server, db, task, ghost, TypeOK, SyncTypes, PlaceInv, PCs
<1>u. steady \subseteq Unspent /\ UNCHANGED <<chain, spent, steady>> => (steady \subseteq Unspent)'
  BY DEF Unspent
<1>1. ASSUME NEW ch \in [Txs -> {"absent", "mempool", "mined"}], NEW sp \in SUBSET Coins, Change(ch, sp)
      PROVE  (TypeOK /\ SyncTypes /\ PlaceInv)'
  <2>1. steady' \subseteq Unspent'
    BY <1>1 DEF Change, Unspent
  <2> QED
    BY <1>1, <2>1 DEF Change
<1>2. ASSUME NEW t \in Txs, Advance(t) PROVE (TypeOK /\ SyncTypes /\ PlaceInv)'
  <2>1. chain[t] \in {"absent", "mempool", "mined"}
    OBVIOUS
  <2>2. PICK to \in {"absent", "mempool", "mined"} :
          Change([chain EXCEPT ![t] = to], IF to = "absent" THEN {c \in spent : TxOf[c] # t} ELSE spent)
    BY <1>2, <2>1 DEF Advance
  <2>3. (IF to = "absent" THEN {c \in spent : TxOf[c] # t} ELSE spent) \in SUBSET Coins
    OBVIOUS
  <2> QED
    BY <1>1, <2>2, <2>3
<1>3. ASSUME NEW c \in Coins, Broadcast(c) PROVE (TypeOK /\ SyncTypes /\ PlaceInv)'
  BY <1>1, <1>3 DEF Broadcast
<1>4. ASSUME NEW s \in Syncs, Start(s) PROVE (TypeOK /\ SyncTypes /\ PlaceInv)'
  <2>1. steady' \subseteq Unspent'
    <3>1. Unspent' = Unspent
      BY <1>4 DEF Start, Unspent
    <3> QED
      BY <1>4, <3>1 DEF Start
  <2>2. calm' \in [Syncs -> BOOLEAN] /\ skipped' \in [Syncs -> BOOLEAN] /\ whole' \in BOOLEAN
    BY <1>4 DEF Start
  <2> QED
    BY <1>4, <2>1, <2>2 DEF Start, Goto
<1>5. ASSUME NEW s \in Syncs, Skip(s) PROVE (TypeOK /\ SyncTypes /\ PlaceInv)'
  <2>1. at[s] \in 1 .. Len(Keys) /\ utxos[s] = {} /\ half[s] = None
    BY <1>5 DEF Skip
  <2>2. PlaceInv'
    BY <1>5, <2>1 DEF Skip, NextKey, Goto
  <2>3. TypeOK'
    BY <1>5, <2>1 DEF Skip, NextKey
  <2>4. pc' \in [Syncs -> PCs] /\ (steady \subseteq Unspent)'
    BY <1>5, <1>u DEF Skip, NextKey, Goto
  <2>5. SyncTypes'
    BY <1>5, <2>4 DEF Skip
  <2> QED
    BY <2>2, <2>3, <2>5
<1>6. ASSUME NEW s \in Syncs, Malformed(s) PROVE (TypeOK /\ SyncTypes /\ PlaceInv)'
  BY <1>6, <1>u DEF Malformed, Goto
<1>7. ASSUME NEW s \in Syncs, FetchHistory(s) PROVE (TypeOK /\ SyncTypes /\ PlaceInv)'
  BY <1>7, <1>u, AnswerTypes DEF FetchHistory, Goto
<1>8. ASSUME NEW s \in Syncs, FetchUtxos(s) PROVE (TypeOK /\ SyncTypes /\ PlaceInv)'
  BY <1>8, <1>u, AnswerTypes DEF FetchUtxos, Goto
<1>9. ASSUME NEW s \in Syncs, ClearOutputs(s) PROVE (TypeOK /\ SyncTypes /\ PlaceInv)'
  BY <1>9, <1>u DEF ClearOutputs, Goto
<1>10. ASSUME NEW s \in Syncs, ClearDeltas(s) PROVE (TypeOK /\ SyncTypes /\ PlaceInv)'
  BY <1>10, <1>u DEF ClearDeltas, Goto
<1>11. ASSUME NEW s \in Syncs, WriteTx(s) PROVE (TypeOK /\ SyncTypes /\ PlaceInv)'
  <2>1. PICK e \in history[s] \cup utxos[s] :
          /\ tx_rows' = [tx_rows EXCEPT ![e.tx] = e.height]
          /\ half' = [half EXCEPT ![s] = e]
          /\ history' = [history EXCEPT ![s] = @ \ {e}]
          /\ utxos' = [utxos EXCEPT ![s] = @ \ {e}]
    BY <1>11 DEF WriteTx, UpsertTx
  <2>2. e \in Entries /\ e.tx \in Txs /\ e.height \in {"null", "height"}
    BY DEF Entries
  <2> QED
    BY <1>11, <1>u, <2>1, <2>2 DEF WriteTx
<1>12. ASSUME NEW s \in Syncs, WriteDelta(s) PROVE (TypeOK /\ SyncTypes /\ PlaceInv)'
  <2>1. Keys[at[s]] \in KeySet /\ half[s] \in Entries /\ half[s].tx \in Txs
    BY <1>12, KeyAt DEF WriteDelta, Entries
  <2> QED
    BY <1>12, <1>u, <2>1 DEF WriteDelta
<1>13. ASSUME NEW s \in Syncs, WriteOutput(s) PROVE (TypeOK /\ SyncTypes /\ PlaceInv)'
  <2>1. Keys[at[s]] \in KeySet
    BY <1>13, KeyAt DEF WriteOutput
  <2> QED
    BY <1>13, <1>u, <2>1 DEF WriteOutput, Upsert
<1>14. ASSUME NEW s \in Syncs, KeyDone(s) PROVE (TypeOK /\ SyncTypes /\ PlaceInv)'
  BY <1>14, <1>u DEF KeyDone, NextKey, Goto
<1>15. ASSUME NEW S \in SUBSET Syncs, Stop(S) PROVE (TypeOK /\ SyncTypes /\ PlaceInv)'
  BY <1>15, <1>u DEF Stop
<1>16. CASE UNCHANGED vars
  BY <1>16, <1>u DEF vars
<1>17. \A s \in Syncs : Fail(s) => (TypeOK /\ SyncTypes /\ PlaceInv)'
  BY <1>15 DEF Fail
<1>18. CASE Crash
  BY <1>15, <1>18 DEF Crash
<1> QED
  BY <1>2, <1>3, <1>4, <1>5, <1>6, <1>7, <1>8, <1>9, <1>10, <1>11, <1>12, <1>13, <1>14, <1>16,
     <1>17, <1>18 DEF Next
-----------------------------------------------------------------------------
(* What the steps do, for the parts that only look at rows and answers *)

\* A step of the chain, and of a sync that ends or goes on to the next key, leaves
\* the rows alone; a sync that moves to another key has nothing left to write.
LEMMA QuietRows ==
  ASSUME SyncTypes, PlaceInv, RowInv, NothingDangles, UNCHANGED <<addr, db>>,
         \A s \in Syncs :
           \/ history'[s] = history[s] /\ utxos'[s] = utxos[s] /\ half'[s] = half[s] /\ at'[s] = at[s]
           \/ history'[s] = {} /\ utxos'[s] = {} /\ half'[s] = None
  PROVE  (RowInv /\ NothingDangles)'
  BY DEF db, RowInv, NothingDangles, PaysKey

LEMMA RowsNext == IInv /\ [Next]_vars => (RowInv /\ NothingDangles)'
<1> SUFFICES ASSUME TypeOK, SyncTypes, PlaceInv, RowInv, NothingDangles, [Next]_vars
             PROVE (RowInv /\ NothingDangles)'
  BY DEF IInv
<1>t. /\ tx_rows \in [Txs -> {"none", "null", "height"}] /\ outputs \in [Coins -> KeySet \cup {None}]
      /\ history \in [Syncs -> SUBSET Entries] /\ utxos \in [Syncs -> SUBSET Entries]
      /\ half \in [Syncs -> Entries \cup {None}] /\ at \in [Syncs -> 0 .. Len(Keys) + 1]
      /\ \A c \in Coins : TxOf[c] \in Txs
      /\ \A e \in Entries : e.tx \in Txs /\ e.coin \in Coins \cup {None} /\ e.height \in {"null", "height"}
  BY DEF TypeOK, SyncTypes, Txs, Entries
<1>1. CASE \/ \E t \in Txs : Advance(t)
           \/ \E c \in Coins : Broadcast(c)
           \/ Crash \/ \E s \in Syncs : Fail(s)
           \/ UNCHANGED vars
  <2>1. UNCHANGED <<addr, db>>
    BY <1>1 DEF Advance, Broadcast, Change, Crash, Fail, Stop, vars, db
  <2>2. \A s \in Syncs :
          \/ history'[s] = history[s] /\ utxos'[s] = utxos[s] /\ half'[s] = half[s] /\ at'[s] = at[s]
          \/ history'[s] = {} /\ utxos'[s] = {} /\ half'[s] = None
    BY <1>1 DEF Advance, Broadcast, Change, Crash, Fail, Stop, vars, task
  <2> QED
    BY <2>1, <2>2, QuietRows
<1>2. ASSUME NEW s \in Syncs, Start(s) \/ Skip(s) \/ Malformed(s) \/ KeyDone(s)
      PROVE  (RowInv /\ NothingDangles)'
  <2>1. UNCHANGED <<addr, db, utxos, half>> /\ utxos[s] = {} /\ half[s] = None /\ history'[s] = {}
    BY <1>2, <1>t DEF Start, Skip, Malformed, KeyDone, PlaceInv
  <2>2. \A r \in Syncs : r # s => history'[r] = history[r] /\ at'[r] = at[r]
    BY <1>2, <1>t DEF Start, Skip, Malformed, KeyDone, NextKey
  <2> QED
    BY <2>1, <2>2, QuietRows
<1>3. ASSUME NEW s \in Syncs, FetchHistory(s) PROVE (RowInv /\ NothingDangles)'
  BY <1>3, <1>t DEF FetchHistory, db, RowInv, NothingDangles, PaysKey
<1>4. ASSUME NEW s \in Syncs, FetchUtxos(s) PROVE (RowInv /\ NothingDangles)'
  <2> DEFINE U == {[tx |-> TxOf[c], coin |-> c, height |-> Height(TxOf[c])] : c \in get_utxos(Keys[at[s]])}
  <2>1. utxos' = [utxos EXCEPT ![s] = U] /\ UNCHANGED <<addr, db, at, history, half>>
    BY <1>4 DEF FetchUtxos
  <2>2. \A e \in U : e.coin # None /\ e.tx = TxOf[e.coin] /\ PaysTo[e.coin] = addr[Keys[at[s]]]
    BY DEF get_utxos, Owned
  <2> HIDE DEF U
  <2> QED
    BY <1>t, <2>1, <2>2 DEF db, RowInv, NothingDangles, PaysKey
<1>5. ASSUME NEW s \in Syncs, ClearOutputs(s) PROVE (RowInv /\ NothingDangles)'
  BY <1>5, <1>t DEF ClearOutputs, RowInv, NothingDangles, PaysKey
<1>6. ASSUME NEW s \in Syncs, ClearDeltas(s) PROVE (RowInv /\ NothingDangles)'
  BY <1>6, <1>t DEF ClearDeltas, RowInv, NothingDangles, PaysKey
<1>7. ASSUME NEW s \in Syncs, WriteTx(s) PROVE (RowInv /\ NothingDangles)'
  <2>1. PICK e \in history[s] \cup utxos[s] :
          /\ tx_rows' = [tx_rows EXCEPT ![e.tx] = e.height]
          /\ half' = [half EXCEPT ![s] = e]
          /\ history' = [history EXCEPT ![s] = @ \ {e}]
          /\ utxos' = [utxos EXCEPT ![s] = @ \ {e}]
    BY <1>7 DEF WriteTx, UpsertTx
  <2>2. UNCHANGED <<addr, outputs, deltas, at>>
    BY <1>7 DEF WriteTx
  <2>3. e \in Entries /\ e # None /\ (e.coin # None => PaysKey(s, e))
    BY <1>t DEF RowInv
  <2>4. \A t \in Txs : tx_rows[t] # "none" => tx_rows'[t] # "none"
    BY <1>t, <2>1, <2>3
  <2>5. tx_rows'[e.tx] # "none"
    BY <1>t, <2>1, <2>3
  <2>6. NothingDangles'
    BY <1>t, <2>2, <2>4 DEF NothingDangles, TypeOK
  <2>7. RowInv'
    <3>2. ASSUME NEW r \in Syncs, half'[r] # None
          PROVE  /\ tx_rows'[half'[r].tx] # "none"
                 /\ (half'[r].coin # None => /\ half'[r].tx = TxOf[half'[r].coin]
                                          /\ PaysTo[half'[r].coin] = addr[Keys[at[r]]])
      <4>1. CASE r = s
        BY <1>t, <2>1, <2>3, <2>5, <4>1 DEF PaysKey
      <4>2. CASE r # s
        <5>1. half'[r] = half[r] /\ half[r] \in Entries
          BY <1>t, <2>1, <3>2, <4>2
        <5> QED
          BY <1>t, <2>4, <3>2, <5>1 DEF RowInv, PaysKey
      <4> QED
        BY <4>1, <4>2
    <3>3. \A r \in Syncs : history'[r] \subseteq history[r] /\ utxos'[r] \subseteq utxos[r]
      BY <1>t, <2>1
    <3>4. \A r \in Syncs : /\ \A f \in history'[r] : f.coin = None
                           /\ \A f \in utxos'[r] : /\ f.coin # None /\ f.tx = TxOf[f.coin]
                                                   /\ PaysTo[f.coin] = addr[Keys[at[r]]]
      BY <3>3 DEF RowInv, PaysKey
    <3>5. \A c \in Coins : outputs'[c] # None => PaysTo[c] = addr'[outputs'[c]]
      BY <2>2 DEF RowInv
    <3> QED
      <4>1. \A r \in Syncs : half'[r] # None =>
              /\ tx_rows'[half'[r].tx] # "none"
              /\ half'[r].coin # None => PaysKey(r, half[r])'
        BY <2>2, <3>2 DEF PaysKey
      <4>2. \A r \in Syncs : /\ \A f \in history'[r] : f.coin = None
                             /\ \A f \in utxos'[r] : f.coin # None /\ PaysKey(r, f)'
        BY <2>2, <3>4 DEF PaysKey
      <4> QED
        BY <3>5, <4>1, <4>2 DEF RowInv, PaysKey
  <2> QED
    BY <2>6, <2>7
<1>8. ASSUME NEW s \in Syncs, WriteDelta(s) PROVE (RowInv /\ NothingDangles)'
  <2>1. half[s] \in Entries /\ tx_rows[half[s].tx] # "none"
    BY <1>8, <1>t DEF WriteDelta, RowInv
  <2> QED
    BY <1>8, <1>t, <2>1 DEF WriteDelta, RowInv, NothingDangles, PaysKey
<1>9. ASSUME NEW s \in Syncs, WriteOutput(s) PROVE (RowInv /\ NothingDangles)'
  <2>1. /\ half[s] \in Entries /\ half[s].coin \in Coins /\ tx_rows[TxOf[half[s].coin]] # "none"
        /\ PaysTo[half[s].coin] = addr[Keys[at[s]]]
    BY <1>9, <1>t, SMTT(30) DEF WriteOutput, RowInv, PaysKey
  <2> QED
    BY <1>9, <1>t, <2>1 DEF WriteOutput, Upsert, RowInv, NothingDangles, PaysKey
<1> QED
  BY <1>1, <1>2, <1>3, <1>4, <1>5, <1>6, <1>7, <1>8, <1>9 DEF Next
-----------------------------------------------------------------------------
(* No coin is lost *)

\* Coins that were there all the time are no more than before, as long as some
\* sync runs: only one that starts alone makes the set anew.
LEMMA SteadyShrinks ==
  ASSUME IInv, [Next]_vars
  PROVE  \/ steady' \subseteq steady
         \/ Running = {} /\ \E s \in Syncs : Start(s)
<1>1. ASSUME NEW ch, NEW sp, Change(ch, sp) PROVE steady' \subseteq steady
  BY <1>1 DEF Change
<1>2. \A s \in Syncs : Start(s) => Running = {} \/ steady' = steady
  BY DEF Start
<1> QED
  BY <1>1, <1>2 DEF Next, Advance, Broadcast, Skip, Malformed, FetchHistory, FetchUtxos, ClearOutputs,
     ClearDeltas, WriteTx, WriteDelta, WriteOutput, KeyDone, Fail, Crash, Stop, vars, ghost

LEMMA AddrStill == [Next]_vars => addr' = addr /\ Tracked' = Tracked
<1>1. [Next]_vars => addr' = addr
  BY DEF Next, Advance, Broadcast, Change, Start, Skip, Malformed, FetchHistory, FetchUtxos, ClearOutputs,
     ClearDeltas, WriteTx, WriteDelta, WriteOutput, KeyDone, Fail, Crash, Stop, vars
<1>2. addr' = addr => \A k : Owned(k)' = Owned(k)
  BY DEF Owned
<1> QED
  BY <1>1, <1>2 DEF Tracked

LEMMA FetchedNext == IInv /\ [Next]_vars => FetchedInv'
<1> SUFFICES ASSUME IInv, [Next]_vars,
                    NEW s \in Syncs, pc'[s] = "clear_outputs",
                    NEW c \in (steady \cap Owned(Keys[at[s]]))'
             PROVE  \E e \in utxos'[s] : e.coin = c
  BY DEF FetchedInv
<1>t. /\ pc \in [Syncs -> PCs] /\ at \in [Syncs -> 0 .. Len(Keys) + 1]
      /\ utxos \in [Syncs -> SUBSET Entries] /\ steady \subseteq Unspent
  BY DEF IInv, TypeOK, SyncTypes
<1>a. addr' = addr
  BY AddrStill
<1>1. CASE FetchUtxos(s)
  <2>1. /\ utxos'[s] = {[tx |-> TxOf[d], coin |-> d, height |-> Height(TxOf[d])] : d \in get_utxos(Keys[at[s]])}
        /\ at' = at /\ steady' = steady
    BY <1>t, <1>1 DEF FetchUtxos, ghost
  <2>2. c \in get_utxos(Keys[at[s]])
    BY <1>t, <1>a, <2>1 DEF get_utxos, Owned
  <2>3. [tx |-> TxOf[c], coin |-> c, height |-> Height(TxOf[c])] \in utxos'[s]
    BY <2>1, <2>2
  <2> QED
    BY <2>3
<1>2. CASE ~FetchUtxos(s)
  <2>1. pc[s] = "clear_outputs" /\ utxos'[s] = utxos[s] /\ at'[s] = at[s]
    <3>1. ASSUME NEW r \in Syncs, Start(r) \/ Skip(r) \/ Malformed(r) \/ KeyDone(r)
          PROVE  r # s /\ pc'[s] = pc[s] /\ utxos' = utxos /\ at'[s] = at[s]
      BY <1>t, <3>1 DEF Start, Skip, Malformed, KeyDone, NextKey, Goto
    <3>2. ASSUME NEW r \in Syncs, FetchHistory(r) \/ ClearOutputs(r) \/ ClearDeltas(r)
          PROVE  r # s /\ pc'[s] = pc[s] /\ utxos' = utxos /\ at' = at
      BY <1>t, <3>2 DEF FetchHistory, ClearOutputs, ClearDeltas, Goto
    <3>3. ASSUME NEW r \in Syncs, FetchUtxos(r)
          PROVE  pc'[s] = pc[s] /\ utxos'[s] = utxos[s] /\ at' = at
      BY <1>2, <1>t, <3>3 DEF FetchUtxos, Goto
    <3>4. ASSUME NEW r \in Syncs, WriteTx(r)
          PROVE  pc'[s] = pc[s] /\ utxos'[s] = utxos[s] /\ at' = at
      BY <1>t, <3>4 DEF WriteTx
    <3>5. ASSUME NEW r \in Syncs, WriteDelta(r) \/ WriteOutput(r)
          PROVE  UNCHANGED <<pc, utxos, at>>
      BY <3>5 DEF WriteDelta, WriteOutput
    <3>6. ASSUME NEW S, Stop(S)
          PROVE  pc'[s] = pc[s] /\ utxos'[s] = utxos[s] /\ at' = at
      BY <3>6 DEF Stop
    <3>7. ASSUME NEW ch, NEW sp, Change(ch, sp)
          PROVE  UNCHANGED <<pc, utxos, at>>
      BY <3>7 DEF Change, task
    <3> QED
      BY <3>1, <3>2, <3>3, <3>4, <3>5, <3>6, <3>7 DEF Next, Advance, Broadcast, Fail, Crash, vars, task
  <2>2. steady' \subseteq steady
    BY <1>t, <2>1, SteadyShrinks DEF Running
  <2> QED
    BY <1>a, <2>1, <2>2 DEF IInv, FetchedInv, Owned
<1> QED
  BY <1>1, <1>2

\* Whoever is on the way to a coin still is when nothing of his changes.
LEMMA WritesStill ==
  ASSUME NEW w \in Syncs, NEW c \in Coins, Writes(w, c), addr' = addr, pc'[w] = pc[w],
         at'[w] = at[w], utxos'[w] = utxos[w], half'[w] = half[w]
  PROVE  Writes(w, c)'
  BY DEF Writes

LEMMA CoverNext == IInv /\ [Next]_vars => CoverInv'
<1> SUFFICES ASSUME IInv, [Next]_vars, whole', NEW c \in steady', c \in Tracked'
             PROVE  outputs'[c] # None \/ \E r \in Syncs : Writes(r, c)'
  BY DEF CoverInv
<1> DEFINE Covered == outputs'[c] # None \/ \E r \in Syncs : Writes(r, c)'
<1>a. addr' = addr /\ Tracked' = Tracked
  BY AddrStill
<1>t. /\ pc \in [Syncs -> PCs] /\ at \in [Syncs -> 0 .. Len(Keys) + 1]
      /\ utxos \in [Syncs -> SUBSET Entries] /\ half \in [Syncs -> Entries \cup {None}]
      /\ outputs \in [Coins -> KeySet \cup {None}]
      /\ c \in Coins /\ c # None
      /\ \E i \in 1 .. Len(Keys) : PaysTo[c] = addr[Keys[i]]
  BY <1>a DEF IInv, TypeOK, SyncTypes, Tracked, Owned, KeySet
<1>p. \A s \in Syncs : pc[s] # "idle" => at[s] \in 1 .. Len(Keys)
  BY DEF IInv, PlaceInv
<1>1. ASSUME NEW s \in Syncs, Start(s), Running = {} PROVE Covered
  <2>1. at'[s] = 1 /\ pc'[s] = "history"
    BY <1>1, <1>t DEF Start, Goto
  <2>2. \A i \in 1 .. Len(Keys) : i > 1 \/ i = 1
    OBVIOUS
  <2> QED
    BY <1>a, <1>t, <2>1, <2>2 DEF Writes
<1> SUFFICES ASSUME ~\E s \in Syncs : Start(s) /\ Running = {} PROVE Covered
  BY <1>1
<1>2. steady' \subseteq steady
  BY SteadyShrinks
<1>3. whole
  BY DEF Next, Advance, Broadcast, Change, Start, Skip, Malformed, FetchHistory, FetchUtxos, ClearOutputs,
     ClearDeltas, WriteTx, WriteDelta, WriteOutput, KeyDone, Fail, Crash, Stop, vars, ghost
<1>4. outputs[c] # None \/ \E w \in Syncs : Writes(w, c)
  BY <1>2, <1>3, <1>a DEF IInv, CoverInv
<1>5. c \in Unspent
  BY <1>2 DEF IInv, SyncTypes
<1>6. ASSUME NEW s \in Syncs,
             \A w \in Syncs \ {s} : pc'[w] = pc[w] /\ at'[w] = at[w] /\ utxos'[w] = utxos[w] /\ half'[w] = half[w],
             outputs[c] # None => outputs'[c] # None \/ Writes(s, c)',
             Writes(s, c) => outputs'[c] # None \/ Writes(s, c)'
      PROVE  Covered
  BY <1>4, <1>6, <1>a, <1>t, WritesStill
<1>7. CASE \/ \E t \in Txs : Advance(t)
           \/ \E d \in Coins : Broadcast(d)
           \/ UNCHANGED vars
  BY <1>4, <1>7, <1>a, <1>t, WritesStill DEF Advance, Broadcast, Change, vars, task, db
<1>8. ASSUME NEW s \in Syncs, Start(s) PROVE Covered
  <2>1. ~Writes(s, c) /\ outputs' = outputs
    BY <1>8 DEF Start, Writes, db
  <2> QED
    BY <1>6, <1>8, <1>t, <2>1 DEF Start, Goto
<1>9. ASSUME NEW s \in Syncs, FetchHistory(s) PROVE Covered
  <2>1. Writes(s, c) => Writes(s, c)'
    BY <1>9, <1>a, <1>t DEF FetchHistory, Goto, Writes
  <2> QED
    BY <1>6, <1>9, <1>t, <2>1 DEF FetchHistory, Goto, db
<1>10. ASSUME NEW s \in Syncs, FetchUtxos(s) PROVE Covered
  <2> DEFINE e == [tx |-> TxOf[c], coin |-> c, height |-> Height(TxOf[c])]
  <2>1. utxos[s] = {} /\ half[s] = None /\ half' = half /\ at' = at /\ pc'[s] # "idle" /\ outputs' = outputs
    BY <1>10, <1>t DEF FetchUtxos, Goto, db, IInv, PlaceInv
  <2>2. PaysTo[c] = addr[Keys[at[s]]] => e \in utxos'[s] /\ e \in Entries
    <3>1. PaysTo[c] = addr[Keys[at[s]]] => c \in get_utxos(Keys[at[s]])
      BY <1>5, <1>t DEF get_utxos, Owned
    <3>2. e \in Entries
      BY <1>t, AnswerTypes DEF IInv, Entries, Txs
    <3> QED
      BY <1>10, <1>t, <3>1, <3>2 DEF FetchUtxos
  <2>3. Writes(s, c) => Writes(s, c)'
    <3>1. PaysTo[c] = addr[Keys[at[s]]] => \E f \in utxos'[s] \cup {half'[s]} : f # None /\ f.coin = c
      BY <2>2
    <3> QED
      BY <1>a, <2>1, <3>1 DEF Writes
  <2> QED
    BY <1>6, <1>10, <1>t, <2>1, <2>3 DEF FetchUtxos, Goto
<1>11. ASSUME NEW s \in Syncs, ClearOutputs(s) PROVE Covered
  <2>1. pc[s] = "clear_outputs" /\ pc'[s] = "clear_deltas" /\ UNCHANGED <<at, utxos, half>>
    BY <1>11, <1>t DEF ClearOutputs, Goto
  <2>2. Writes(s, c) => Writes(s, c)'
    BY <1>a, <2>1 DEF Writes
  <2>3. outputs[c] = Keys[at[s]] /\ outputs[c] # None => Writes(s, c)'
    <3>1. SUFFICES ASSUME outputs[c] = Keys[at[s]], outputs[c] # None PROVE Writes(s, c)'
      OBVIOUS
    <3>2. c \in steady \cap Owned(Keys[at[s]])
      BY <1>2, <1>t, <3>1 DEF IInv, RowInv, Owned
    <3>3. PICK e \in utxos[s] : e.coin = c
      BY <2>1, <3>2 DEF IInv, FetchedInv
    <3>4. e # None
      BY <1>t
    <3> QED
      BY <2>1, <3>3, <3>4 DEF Writes
  <2>4. outputs[c] # None => outputs'[c] # None \/ Writes(s, c)'
    BY <1>11, <1>t, <2>3 DEF ClearOutputs
  <2> QED
    BY <1>6, <1>11, <1>t, <2>1, <2>2, <2>4 DEF ClearOutputs, Goto
<1>12. ASSUME NEW s \in Syncs, ClearDeltas(s) PROVE Covered
  <2>1. Writes(s, c) => Writes(s, c)'
    BY <1>12, <1>a, <1>t DEF ClearDeltas, Goto, Writes
  <2> QED
    BY <1>6, <1>12, <1>t, <2>1 DEF ClearDeltas, Goto
<1>13. ASSUME NEW s \in Syncs, WriteTx(s) PROVE Covered
  <2>1. PICK e \in history[s] \cup utxos[s] :
          /\ half' = [half EXCEPT ![s] = e]
          /\ utxos' = [utxos EXCEPT ![s] = @ \ {e}]
    BY <1>13 DEF WriteTx
  <2>2. half[s] = None /\ UNCHANGED <<pc, at, outputs>>
    BY <1>13 DEF WriteTx
  <2>3. utxos[s] \cup {half[s]} \subseteq utxos'[s] \cup {half'[s], None}
    BY <1>t, <2>1, <2>2
  <2>4. Writes(s, c) => Writes(s, c)'
    BY <1>a, <2>2, <2>3 DEF Writes
  <2> QED
    BY <1>6, <1>t, <2>1, <2>2, <2>4
<1>14. ASSUME NEW s \in Syncs, WriteDelta(s) PROVE Covered
  <2>1. half[s].coin # c /\ half' = [half EXCEPT ![s] = None] /\ UNCHANGED <<pc, at, utxos, outputs>>
    BY <1>14, <1>t DEF WriteDelta
  <2>2. Writes(s, c) => Writes(s, c)'
    BY <1>a, <1>t, <2>1 DEF Writes
  <2> QED
    BY <1>6, <1>t, <2>1, <2>2
<1>15. ASSUME NEW s \in Syncs, WriteOutput(s) PROVE Covered
  <2>1. /\ half' = [half EXCEPT ![s] = None] /\ UNCHANGED <<pc, at, utxos>>
        /\ outputs' = [outputs EXCEPT ![half[s].coin] = Keys[at[s]]]
    BY <1>15 DEF WriteOutput, Upsert
  <2>2. pc[s] # "idle" /\ Keys[at[s]] # None
    BY <1>15, <1>t, KeyAt DEF IInv, PlaceInv, WriteOutput
  <2>3. half[s].coin = c => outputs'[c] # None
    BY <1>t, <2>1, <2>2
  <2>4. half[s].coin # c => (Writes(s, c) => Writes(s, c)')
    BY <1>a, <1>t, <2>1 DEF Writes
  <2>5. outputs[c] # None => outputs'[c] # None
    BY <1>t, <2>1, <2>2
  <2> QED
    BY <1>6, <1>t, <2>1, <2>3, <2>4, <2>5
<1>16. ASSUME NEW s \in Syncs, KeyDone(s) PROVE Covered
  <2>1. /\ pc[s] = "write" /\ utxos[s] = {} /\ half[s] = None
        /\ at' = [at EXCEPT ![s] = @ + 1] /\ UNCHANGED <<utxos, half, outputs>>
        /\ pc' = [pc EXCEPT ![s] = IF at[s] = Len(Keys) THEN "idle" ELSE "history"]
    BY <1>16 DEF KeyDone, NextKey, Goto, db
  <2>2. Writes(s, c) => \E i \in 1 .. Len(Keys) : PaysTo[c] = addr[Keys[i]] /\ i > at[s]
    BY <2>1 DEF Writes
  <2>3. Writes(s, c) => Writes(s, c)'
    <3>1. SUFFICES ASSUME NEW i \in 1 .. Len(Keys), PaysTo[c] = addr[Keys[i]], i > at[s] PROVE Writes(s, c)'
      BY <2>2
    <3>2. at[s] # Len(Keys) /\ at[s] \in Nat
      BY <1>t, <3>1
    <3>3. at'[s] = at[s] + 1 /\ pc'[s] = "history"
      BY <1>t, <2>1, <3>2
    <3>4. i > at'[s] \/ i = at'[s]
      BY <3>1, <3>2, <3>3
    <3> QED
      BY <1>a, <3>1, <3>3, <3>4 DEF Writes
  <2> QED
    BY <1>6, <1>t, <2>1, <2>3
<1> QED
  BY <1>7, <1>8, <1>9, <1>10, <1>11, <1>12, <1>13, <1>14, <1>15, <1>16 DEF Next, Skip, Malformed, Fail, Crash, Stop
-----------------------------------------------------------------------------
(* A sync that runs alone *)

\* While s is alone the chain stands still, and nobody but s does anything.
LEMMA OnlyMine ==
  ASSUME IInv, AloneInv, [Next]_vars, NEW s \in Syncs, calm'[s] = TRUE, pc'[s] # "idle",
         ~(Start(s) /\ Running = {})
  PROVE  /\ pc[s] # "idle" /\ calm[s] /\ Running = {s}
         /\ \/ Skip(s) \/ FetchHistory(s) \/ FetchUtxos(s) \/ ClearOutputs(s) \/ ClearDeltas(s)
            \/ WriteTx(s) \/ WriteDelta(s) \/ WriteOutput(s) \/ KeyDone(s) \/ UNCHANGED vars
<1>t. pc \in [Syncs -> PCs] /\ calm \in [Syncs -> BOOLEAN]
  BY DEF IInv, SyncTypes
<1>1. ASSUME NEW ch, NEW sp, Change(ch, sp) PROVE FALSE
  BY <1>1 DEF Change
<1>2. ASSUME NEW r \in Syncs, Start(r) PROVE FALSE
  <2>1. Running = {}
    BY <1>2 DEF Start
  <2>2. r # s
    BY <1>2, <2>1
  <2> QED
    BY <1>2, <1>t, <2>1, <2>2 DEF Start, Goto, Running
<1>3. ASSUME NEW r \in Syncs, Malformed(r) \/ Fail(r) PROVE r # s
  BY <1>3, <1>t DEF Malformed, Fail, Stop, Goto
<1>4. ~Crash
  BY DEF Crash, Stop
<1>5. pc[s] # "idle" /\ calm[s]
  <2>1. ASSUME NEW r \in Syncs,
               \/ Skip(r) \/ FetchHistory(r) \/ FetchUtxos(r) \/ ClearOutputs(r) \/ ClearDeltas(r) \/ KeyDone(r)
        PROVE  pc[s] # "idle" /\ calm' = calm
    BY <2>1, <1>t DEF Skip, FetchHistory, FetchUtxos, ClearOutputs, ClearDeltas, KeyDone, NextKey, Goto, ghost
  <2>2. ASSUME NEW r \in Syncs, Malformed(r) PROVE pc[s] # "idle" /\ calm' = calm
    BY <2>2, <1>t, <1>3 DEF Malformed, Goto
  <2>3. ASSUME NEW r \in Syncs, Fail(r) PROVE pc[s] # "idle" /\ calm'[s] = calm[s]
    BY <2>3, <1>t, <1>3 DEF Fail, Stop
  <2>4. ASSUME NEW r \in Syncs, WriteTx(r) \/ WriteDelta(r) \/ WriteOutput(r) PROVE pc' = pc /\ calm' = calm
    BY <2>4 DEF WriteTx, WriteDelta, WriteOutput, ghost
  <2> QED
    BY <1>1, <1>2, <1>4, <2>1, <2>2, <2>3, <2>4 DEF Next, Advance, Broadcast, vars, task, ghost
<1>6. Running = {s}
  BY <1>5 DEF AloneInv
<1>7. \A r \in Syncs : r # s => pc[r] = "idle" /\ half[r] = None
  BY <1>6 DEF Running, IInv, PlaceInv
<1>8. ASSUME NEW r \in Syncs,
             \/ Skip(r) \/ Malformed(r) \/ FetchHistory(r) \/ FetchUtxos(r) \/ ClearOutputs(r)
             \/ ClearDeltas(r) \/ WriteTx(r) \/ WriteDelta(r) \/ WriteOutput(r) \/ KeyDone(r) \/ Fail(r)
      PROVE  r = s
  BY <1>7, <1>8 DEF Skip, Malformed, FetchHistory, FetchUtxos, ClearOutputs, ClearDeltas, WriteTx, WriteDelta,
     WriteOutput, KeyDone, Fail
<1> QED
  BY <1>1, <1>2, <1>3, <1>4, <1>5, <1>6, <1>8 DEF Next, Advance, Broadcast

LEMMA ServerStill ==
  ASSUME UNCHANGED <<addr, server>>
  PROVE  /\ Unspent' = Unspent
         /\ \A t : Height(t)' = Height(t)
         /\ \A k : get_history(k)' = get_history(k)
  BY DEF server, Unspent, Height, get_history, Owned

LEMMA AloneNext == IInv /\ AloneInv /\ [Next]_vars => AloneInv'
<1> SUFFICES ASSUME IInv, AloneInv, [Next]_vars, NEW s \in Syncs, pc'[s] # "idle", calm'[s]
             PROVE  (Running = {s} /\ Fresh(s) /\ (whole /\ ~skipped[s] => Faithful(s)))'
  BY DEF AloneInv
<1>t. /\ pc \in [Syncs -> PCs] /\ at \in [Syncs -> 0 .. Len(Keys) + 1]
      /\ history \in [Syncs -> SUBSET Entries] /\ utxos \in [Syncs -> SUBSET Entries]
      /\ half \in [Syncs -> Entries \cup {None}] /\ calm \in [Syncs -> BOOLEAN]
      /\ outputs \in [Coins -> KeySet \cup {None}] /\ deltas \subseteq [key : KeySet, tx : Txs]
      /\ tx_rows \in [Txs -> {"none", "null", "height"}]
      /\ \A e \in Entries : e.tx \in Txs /\ e.coin \in Coins \cup {None} /\ e.height \in {"null", "height"}
      /\ \A i \in 1 .. Len(Keys) : Keys[i] \in KeySet
  BY DEF IInv, TypeOK, SyncTypes, Entries, KeySet
<1>p. /\ pc[s] # "idle" => at[s] \in 1 .. Len(Keys)
      /\ pc[s] \in {"idle", "history"} => history[s] = {}
      /\ pc[s] \in {"idle", "history", "utxos"} => utxos[s] = {}
      /\ pc[s] # "write" => half[s] = None
  BY DEF IInv, PlaceInv
<1>1. CASE Start(s) /\ Running = {}
  <2>1. /\ pc'[s] = "history" /\ at'[s] = 1 /\ steady' = Unspent /\ \A r \in Syncs \ {s} : pc'[r] = "idle"
        /\ UNCHANGED <<addr, server, db, history, utxos, half>>
    BY <1>1, <1>t DEF Start, Goto, Running
  <2>2. history[s] = {} /\ utxos[s] = {} /\ half[s] = None
    BY <1>1, <1>p DEF Start
  <2>3. \A i \in 1 .. Len(Keys) : ~Cleared(s, i)' /\ ~DeltasCleared(s, i)' /\ ~Fetched(s, i)'
    BY <2>1 DEF Cleared, DeltasCleared, Fetched
  <2>4. Fresh(s)'
    BY <2>1, <2>2 DEF Fresh
  <2>5. Faithful(s)'
    BY <2>1, <2>3, ServerStill DEF Faithful, NoStaleOutput, NoStaleDelta, HistoryWritten
  <2>6. Running' = {s}
    BY <2>1 DEF Running
  <2> QED
    BY <2>4, <2>5, <2>6
<1> SUFFICES ASSUME ~(Start(s) /\ Running = {})
             PROVE  (Running = {s} /\ Fresh(s) /\ (whole /\ ~skipped[s] => Faithful(s)))'
  BY <1>1
<1>2. /\ pc[s] # "idle" /\ calm[s] /\ Running = {s}
      /\ \/ Skip(s) \/ FetchHistory(s) \/ FetchUtxos(s) \/ ClearOutputs(s) \/ ClearDeltas(s)
         \/ WriteTx(s) \/ WriteDelta(s) \/ WriteOutput(s) \/ KeyDone(s) \/ UNCHANGED vars
  BY <1>t, OnlyMine
<1>3. Fresh(s) /\ (whole /\ ~skipped[s] => Faithful(s)) /\ at[s] \in 1 .. Len(Keys)
  BY <1>2, <1>p DEF AloneInv
<1>4. UNCHANGED <<addr, server>> /\ Unspent' = Unspent
  BY <1>2, ServerStill DEF Skip, FetchHistory, FetchUtxos, ClearOutputs, ClearDeltas, WriteTx, WriteDelta,
     WriteOutput, KeyDone, vars
<1>5. \A t : Height(t)' = Height(t)
  BY <1>4, ServerStill
<1>6. \A k : get_history(k)' = get_history(k)
  BY <1>4, ServerStill
<1>7. Running' = {s}
  <2>1. \A r \in Syncs : r # s => pc'[r] = pc[r]
    BY <1>2, <1>t DEF Skip, FetchHistory, FetchUtxos, ClearOutputs, ClearDeltas, WriteTx, WriteDelta,
       WriteOutput, KeyDone, NextKey, Goto, vars, task
  <2> QED
    BY <1>2, <2>1 DEF Running
<1>8. ~Skip(s) => UNCHANGED <<calm, skipped, steady, whole>>
  BY <1>2 DEF FetchHistory, FetchUtxos, ClearOutputs, ClearDeltas, WriteTx, WriteDelta,
     WriteOutput, KeyDone, vars, ghost
<1>9. ASSUME Fresh(s)',
             Skip(s) \/ (Faithful(s) => (NoStaleOutput(s) /\ NoStaleDelta(s) /\ HistoryWritten(s))')
      PROVE  (Running = {s} /\ Fresh(s) /\ (whole /\ ~skipped[s] => Faithful(s)))'
  <2>1. Skip(s) => ~whole'
    BY DEF Skip
  <2> QED
    BY <1>3, <1>4, <1>7, <1>8, <1>9, <2>1 DEF Faithful
<1>10. CASE Skip(s)
  <2>1. history'[s] = {} /\ UNCHANGED <<utxos, half>> /\ utxos[s] = {} /\ half[s] = None
    BY <1>10, <1>t, <1>p DEF Skip
  <2>2. Fresh(s)'
    BY <2>1 DEF Fresh
  <2> QED
    BY <1>9, <1>10, <2>2
<1>11. CASE FetchHistory(s)
  <2> DEFINE H == {[tx |-> t, coin |-> None, height |-> Height(t)] : t \in get_history(Keys[at[s]])}
  <2>1. /\ pc[s] = "history" /\ pc'[s] = "utxos" /\ history'[s] = H
        /\ UNCHANGED <<at, utxos, half, db>> /\ utxos[s] = {} /\ half[s] = None
    BY <1>11, <1>t, <1>p DEF FetchHistory, Goto
  <2>2. /\ \A e \in H : e.height = Height(e.tx) /\ e.tx \in get_history(Keys[at[s]])
        /\ \A t \in get_history(Keys[at[s]]) : \E e \in H : e.tx = t
    <3>1. \A e \in H : e.height = Height(e.tx) /\ e.tx \in get_history(Keys[at[s]])
      OBVIOUS
    <3>2. ASSUME NEW t \in get_history(Keys[at[s]]) PROVE \E e \in H : e.tx = t
      <4>1. [tx |-> t, coin |-> None, height |-> Height(t)] \in H
        OBVIOUS
      <4> WITNESS [tx |-> t, coin |-> None, height |-> Height(t)] \in H
      <4> QED
        OBVIOUS
    <3> HIDE DEF H
    <3> QED
      BY <3>1, <3>2
  <2> HIDE DEF H
  <2>3. Fresh(s)'
    BY <1>5, <1>6, <2>1, <2>2 DEF Fresh
  <2>4. \A i : (Cleared(s, i)' => Cleared(s, i)) /\ DeltasCleared(s, i)' = DeltasCleared(s, i)
    BY <2>1 DEF Cleared, DeltasCleared
  <2>5. \A i : Fetched(s, i)' => Fetched(s, i) \/ i = at[s]
    BY <2>1 DEF Fetched
  <2>6. Faithful(s) => HistoryWritten(s)'
    BY <1>5, <1>6, <2>1, <2>2, <2>4, <2>5 DEF Faithful, HistoryWritten, db
  <2>7. Faithful(s) => NoStaleOutput(s)' /\ NoStaleDelta(s)'
    BY <1>4, <1>6, <2>1, <2>4 DEF Faithful, NoStaleOutput, NoStaleDelta, db
  <2> QED
    BY <1>9, <2>3, <2>6, <2>7
<1>12. CASE FetchUtxos(s)
  <2> DEFINE U == {[tx |-> TxOf[c], coin |-> c, height |-> Height(TxOf[c])] : c \in get_utxos(Keys[at[s]])}
  <2>1. /\ pc[s] = "utxos" /\ pc'[s] = "clear_outputs" /\ utxos'[s] = U
        /\ UNCHANGED <<at, history, half, db>> /\ half[s] = None
    BY <1>12, <1>t, <1>p DEF FetchUtxos, Goto
  <2>2. \A e \in U : e.height = Height(e.tx) /\ e.coin \in Unspent
    BY DEF get_utxos
  <2> HIDE DEF U
  <2>3. Fresh(s)'
    BY <1>3, <1>4, <1>5, <1>6, <2>1, <2>2 DEF Fresh, db
  <2>4. \A i : /\ Cleared(s, i)' => Cleared(s, i)
               /\ DeltasCleared(s, i)' = DeltasCleared(s, i) /\ (Fetched(s, i)' => Fetched(s, i))
    BY <2>1 DEF Cleared, DeltasCleared, Fetched
  <2>5. Faithful(s) => (NoStaleOutput(s) /\ NoStaleDelta(s) /\ HistoryWritten(s))'
    BY <1>4, <1>5, <1>6, <2>1, <2>4 DEF Faithful, NoStaleOutput, NoStaleDelta, HistoryWritten, db
  <2> QED
    BY <1>9, <2>3, <2>5
<1>13. CASE ClearOutputs(s)
  <2>1. /\ pc[s] = "clear_outputs" /\ pc'[s] = "clear_deltas"
        /\ outputs' = [c \in Coins |-> IF outputs[c] = Keys[at[s]] THEN None ELSE outputs[c]]
        /\ UNCHANGED <<tx_rows, deltas, at, history, utxos, half>> /\ half[s] = None
    BY <1>13, <1>t, <1>p DEF ClearOutputs, Goto
  <2>2. Fresh(s)'
    BY <1>3, <1>4, <1>5, <1>6, <2>1 DEF Fresh
  <2>3. \A i : /\ Cleared(s, i)' => Cleared(s, i) \/ i = at[s]
               /\ DeltasCleared(s, i)' = DeltasCleared(s, i) /\ (Fetched(s, i)' => Fetched(s, i))
    BY <2>1 DEF Cleared, DeltasCleared, Fetched
  <2>4. \A c \in Coins : outputs'[c] # Keys[at[s]] /\ (outputs'[c] # None => outputs'[c] = outputs[c])
    BY <1>3, <1>t, <2>1
  <2>5. Faithful(s) => NoStaleOutput(s)'
    BY <1>4, <1>t, <2>3, <2>4 DEF Faithful, NoStaleOutput
  <2>6. Faithful(s) => (NoStaleDelta(s) /\ HistoryWritten(s))'
    BY <1>5, <1>6, <2>1, <2>3 DEF Faithful, NoStaleDelta, HistoryWritten
  <2> QED
    BY <1>9, <2>2, <2>5, <2>6
<1>14. CASE ClearDeltas(s)
  <2>1. /\ pc[s] = "clear_deltas" /\ pc'[s] = "write"
        /\ deltas' = {d \in deltas : d.key # Keys[at[s]]}
        /\ UNCHANGED <<tx_rows, outputs, at, history, utxos, half>> /\ half[s] = None
    BY <1>14, <1>t, <1>p DEF ClearDeltas, Goto
  <2>2. Fresh(s)'
    BY <1>3, <1>4, <1>5, <1>6, <2>1 DEF Fresh
  <2>3. \A i : /\ Cleared(s, i)' => Cleared(s, i)
               /\ (DeltasCleared(s, i)' => DeltasCleared(s, i) \/ i = at[s])
               /\ (DeltasCleared(s, i) => DeltasCleared(s, i)' /\ i # at[s])
               /\ (Fetched(s, i)' => Fetched(s, i))
    BY <1>3, <2>1 DEF Cleared, DeltasCleared, Fetched
  <2>4. Faithful(s) => (NoStaleOutput(s) /\ NoStaleDelta(s))'
    BY <1>4, <1>6, <2>1, <2>3 DEF Faithful, NoStaleOutput, NoStaleDelta
  <2>5. Faithful(s) => HistoryWritten(s)'
    <3>1. SUFFICES ASSUME HistoryWritten(s), NEW i \in 1 .. Len(Keys), Fetched(s, i), NEW t \in get_history(Keys[i])
                   PROVE  \/ i = at[s] /\ \E e \in history[s] : e.tx = t
                          \/ /\ DeltasCleared(s, i)' /\ tx_rows[t] = Height(t)
                             /\ [key |-> Keys[i], tx |-> t] \in deltas'
      BY <1>5, <1>6, <2>1, <2>3 DEF Faithful, HistoryWritten
    <3>2. CASE i = at[s]
      BY <2>3, <3>1, <3>2 DEF HistoryWritten
    <3>3. CASE i # at[s]
      <4>1. Keys[i] # Keys[at[s]]
        BY <1>3, <3>3
      <4> QED
        BY <2>1, <2>3, <3>1, <3>3, <4>1 DEF HistoryWritten
    <3> QED
      BY <3>2, <3>3
  <2> QED
    BY <1>9, <2>2, <2>4, <2>5
<1>15. CASE WriteTx(s)
  <2>1. PICK e \in IF history[s] # {} THEN history[s] ELSE utxos[s] :
          /\ tx_rows' = [tx_rows EXCEPT ![e.tx] = e.height]
          /\ half' = [half EXCEPT ![s] = e]
          /\ history' = [history EXCEPT ![s] = @ \ {e}]
          /\ utxos' = [utxos EXCEPT ![s] = @ \ {e}]
    BY <1>15 DEF WriteTx, UpsertTx
  <2>2. pc[s] = "write" /\ half[s] = None /\ UNCHANGED <<outputs, deltas, pc, at>>
    BY <1>15 DEF WriteTx
  <2>3. /\ e \in Entries /\ e # None /\ e.tx \in Txs /\ e.height = Height(e.tx)
        /\ e.coin = None => e \in history[s]
        /\ e.coin # None => e \in utxos[s]
        /\ e \in history[s] => e.coin = None
    BY <1>3, <1>t, <2>1 DEF Fresh, IInv, RowInv
  <2>4. /\ half'[s] = e /\ history'[s] = history[s] \ {e} /\ utxos'[s] = utxos[s] \ {e}
        /\ tx_rows'[e.tx] = Height(e.tx)
    BY <1>t, <2>1, <2>3
  <2>5. Fresh(s)'
    <3>1. /\ \A f \in history'[s] \cup utxos'[s] : f.height = Height(f.tx)
          /\ \A f \in history'[s] : f.tx \in get_history(Keys[at[s]])
          /\ \A f \in utxos'[s] : f.coin \in Unspent
      BY <1>3, <2>4 DEF Fresh
    <3>2. /\ e.coin = None => e.tx \in get_history(Keys[at[s]])
          /\ e.coin # None => e.coin \in Unspent
      BY <1>3, <2>3 DEF Fresh
    <3> QED
      BY <1>4, <1>5, <1>6, <2>2, <2>4, <3>1, <3>2 DEF Fresh
  <2>6. \A i : /\ Cleared(s, i)' = Cleared(s, i) /\ DeltasCleared(s, i)' = DeltasCleared(s, i)
               /\ Fetched(s, i)' = Fetched(s, i)
    BY <2>2 DEF Cleared, DeltasCleared, Fetched
  <2>7. Faithful(s) => (NoStaleOutput(s) /\ NoStaleDelta(s))'
    BY <1>4, <1>6, <2>2, <2>6 DEF Faithful, NoStaleOutput, NoStaleDelta
  <2>8. Faithful(s) => HistoryWritten(s)'
    <3>1. SUFFICES ASSUME HistoryWritten(s), NEW i \in 1 .. Len(Keys), Fetched(s, i), NEW t \in get_history(Keys[i])
                   PROVE  \/ i = at[s] /\ \E f \in history'[s] : f.tx = t
                          \/ /\ DeltasCleared(s, i) /\ tx_rows'[t] = Height(t)
                             /\ \/ [key |-> Keys[i], tx |-> t] \in deltas
                                \/ i = at[s] /\ half'[s] # None /\ half'[s].tx = t /\ half'[s].coin = None
      BY <1>5, <1>6, <2>2, <2>6 DEF Faithful, HistoryWritten
    <3>2. t \in Txs
      BY DEF get_history
    <3>3. CASE i = at[s] /\ \E f \in history[s] : f.tx = t
      <4>1. PICK f \in history[s] : f.tx = t
        BY <3>3
      <4>2. CASE f = e
        BY <2>2, <2>3, <2>4, <3>3, <4>1, <4>2 DEF DeltasCleared
      <4>3. CASE f # e
        BY <2>4, <3>3, <4>1, <4>3
      <4> QED
        BY <4>2, <4>3
    <3>4. CASE /\ DeltasCleared(s, i) /\ tx_rows[t] = Height(t)
               /\ [key |-> Keys[i], tx |-> t] \in deltas
      BY <1>t, <2>1, <2>3, <2>4, <3>2, <3>4
    <3> QED
      BY <2>2, <3>1, <3>3, <3>4 DEF HistoryWritten
  <2> QED
    BY <1>9, <2>5, <2>7, <2>8
<1>16. CASE WriteDelta(s)
  <2>1. /\ half[s] # None /\ half[s].coin = None /\ half'[s] = None /\ pc[s] = "write"
        /\ deltas' = deltas \cup {[key |-> Keys[at[s]], tx |-> half[s].tx]}
        /\ UNCHANGED <<tx_rows, outputs, pc, at, history, utxos>>
    BY <1>16, <1>t, <1>p DEF WriteDelta
  <2>2. Fresh(s)'
    BY <1>3, <1>4, <1>5, <1>6, <2>1 DEF Fresh
  <2>3. \A i : /\ Cleared(s, i)' = Cleared(s, i) /\ DeltasCleared(s, i)' = DeltasCleared(s, i)
               /\ Fetched(s, i)' = Fetched(s, i)
    BY <2>1 DEF Cleared, DeltasCleared, Fetched
  <2>4. half[s].tx \in get_history(Keys[at[s]])
    BY <1>3, <2>1 DEF Fresh
  <2>5. Faithful(s) => NoStaleOutput(s)'
    BY <1>4, <2>1, <2>3 DEF Faithful, NoStaleOutput
  <2>6. Faithful(s) => NoStaleDelta(s)'
    BY <1>6, <2>1, <2>3, <2>4 DEF Faithful, NoStaleDelta
  <2>7. Faithful(s) => HistoryWritten(s)'
    BY <1>5, <1>6, <2>1, <2>3 DEF Faithful, HistoryWritten
  <2> QED
    BY <1>9, <2>2, <2>5, <2>6, <2>7
<1>17. CASE WriteOutput(s)
  <2>1. /\ half[s] # None /\ half[s].coin # None /\ half'[s] = None /\ pc[s] = "write"
        /\ outputs' = [outputs EXCEPT ![half[s].coin] = Keys[at[s]]]
        /\ UNCHANGED <<tx_rows, deltas, pc, at, history, utxos>>
    BY <1>17, <1>t, <1>p DEF WriteOutput, Upsert
  <2>2. Fresh(s)'
    BY <1>3, <1>4, <1>5, <1>6, <2>1 DEF Fresh
  <2>3. \A i : /\ Cleared(s, i)' = Cleared(s, i) /\ DeltasCleared(s, i)' = DeltasCleared(s, i)
               /\ Fetched(s, i)' = Fetched(s, i)
    BY <2>1 DEF Cleared, DeltasCleared, Fetched
  <2>4. half[s].coin \in Unspent
    BY <1>3, <2>1 DEF Fresh
  <2>5. Faithful(s) => NoStaleOutput(s)'
    BY <1>4, <1>t, <2>1, <2>3, <2>4 DEF Faithful, NoStaleOutput
  <2>6. Faithful(s) => (NoStaleDelta(s) /\ HistoryWritten(s))'
    BY <1>5, <1>6, <2>1, <2>3 DEF Faithful, NoStaleDelta, HistoryWritten
  <2> QED
    BY <1>9, <2>2, <2>5, <2>6
<1>18. CASE KeyDone(s)
  <2>1. /\ pc[s] = "write" /\ history[s] = {} /\ utxos[s] = {} /\ half[s] = None /\ pc'[s] = "history"
        /\ at'[s] = at[s] + 1 /\ UNCHANGED <<tx_rows, outputs, deltas, history, utxos, half>>
    BY <1>18, <1>t DEF KeyDone, NextKey, Goto, db
  <2>2. Fresh(s)'
    BY <2>1 DEF Fresh
  <2>3. \A i \in 1 .. Len(Keys) :
          /\ Cleared(s, i)' => Cleared(s, i)
          /\ DeltasCleared(s, i)' => DeltasCleared(s, i)
          /\ DeltasCleared(s, i) => DeltasCleared(s, i)'
          /\ Fetched(s, i)' => Fetched(s, i)
    BY <1>3, <2>1 DEF Cleared, DeltasCleared, Fetched
  <2>4. Faithful(s) => (NoStaleOutput(s) /\ NoStaleDelta(s) /\ HistoryWritten(s))'
    BY <1>4, <1>5, <1>6, <2>1, <2>3 DEF Faithful, NoStaleOutput, NoStaleDelta, HistoryWritten
  <2> QED
    BY <1>9, <2>2, <2>4
<1>19. CASE UNCHANGED vars
  <2>1. UNCHANGED <<tx_rows, outputs, deltas, pc, at, history, utxos, half>>
    BY <1>19 DEF vars, db, task
  <2>2. Fresh(s)'
    BY <1>3, <1>4, <1>5, <1>6, <2>1 DEF Fresh
  <2>3. Faithful(s) => (NoStaleOutput(s) /\ NoStaleDelta(s) /\ HistoryWritten(s))'
    BY <1>4, <1>5, <1>6, <2>1
       DEF Faithful, NoStaleOutput, NoStaleDelta, HistoryWritten, Cleared, DeltasCleared, Fetched
  <2> QED
    BY <1>9, <2>2, <2>3
<1> QED
  BY <1>2, <1>10, <1>11, <1>12, <1>13, <1>14, <1>15, <1>16, <1>17, <1>18, <1>19

\* The rows are, at the end, what the server has: nothing under a key that is not
\* the server's, and nothing of the server's that is not under a key.
LEMMA AloneEnds ==
  ASSUME IInv, AloneInv, [Next]_vars, NEW s \in Syncs,
         pc[s] # "idle", pc'[s] = "idle", calm[s], ~skipped[s], whole'
  PROVE  /\ Confirmed' = {c \in Tracked \cap Unspent : Height(TxOf[c]) = "height"}
         /\ Unconfirmed' = (Tracked \cap Unspent) \ Confirmed'
         /\ {d.tx : d \in deltas'} = UNION {get_history(k) : k \in KeySet}
<1>t. /\ pc \in [Syncs -> PCs] /\ at \in [Syncs -> 0 .. Len(Keys) + 1]
      /\ outputs \in [Coins -> KeySet \cup {None}] /\ deltas \subseteq [key : KeySet, tx : Txs]
      /\ \A i \in 1 .. Len(Keys) : Keys[i] \in KeySet /\ Keys[i] # None
      /\ \A k \in KeySet : \E i \in 1 .. Len(Keys) : k = Keys[i]
      /\ \A t \in Txs : Height(t) \in {"null", "height"}
  BY AnswerTypes DEF IInv, TypeOK, SyncTypes, KeySet
<1>1. KeyDone(s)
  <2>1. ASSUME NEW r \in Syncs,
               Start(r) \/ FetchHistory(r) \/ FetchUtxos(r) \/ ClearOutputs(r) \/ ClearDeltas(r)
        PROVE  FALSE
    <3>1. \E l \in {"history", "utxos", "clear_outputs", "clear_deltas", "write"} : pc' = [pc EXCEPT ![r] = l]
      BY <2>1 DEF Start, FetchHistory, FetchUtxos, ClearOutputs, ClearDeltas, Goto
    <3> QED
      BY <1>t, <3>1
  <2>5. \A r \in Syncs : WriteTx(r) \/ WriteDelta(r) \/ WriteOutput(r) => pc' = pc
    BY DEF WriteTx, WriteDelta, WriteOutput
  <2>2. ASSUME NEW r \in Syncs, KeyDone(r) PROVE r = s
    BY <2>2, <1>t DEF KeyDone, NextKey, Goto
  <2>3. \A r \in Syncs : ~Skip(r) /\ ~Malformed(r) /\ ~Fail(r)
    BY DEF Skip, Malformed, Fail, Stop
  <2>4. ~Crash
    BY DEF Crash, Stop
  <2> QED
    BY <2>1, <2>2, <2>3, <2>4, <2>5 DEF Next, Advance, Broadcast, Change, vars, task
<1>2. /\ pc[s] = "write" /\ history[s] = {} /\ utxos[s] = {} /\ half[s] = None
      /\ at[s] = Len(Keys) /\ whole /\ UNCHANGED <<tx_rows, outputs, deltas>>
  BY <1>1, <1>t DEF KeyDone, NextKey, Goto, db, ghost
<1>3. Running = {s} /\ steady = Unspent /\ NoStaleOutput(s) /\ NoStaleDelta(s) /\ HistoryWritten(s)
  BY <1>2 DEF AloneInv, Faithful
<1>4. \A i \in 1 .. Len(Keys) : Cleared(s, i) /\ DeltasCleared(s, i) /\ Fetched(s, i)
  BY <1>2 DEF Cleared, DeltasCleared, Fetched
<1>5. ASSUME NEW k \in KeySet, NEW t \in get_history(k)
      PROVE  tx_rows[t] = Height(t) /\ [key |-> k, tx |-> t] \in deltas
  BY <1>t, <1>2, <1>3, <1>4 DEF HistoryWritten
<1>6. ASSUME NEW c \in Coins PROVE outputs[c] # None <=> c \in Tracked \cap Unspent
  <2>1. outputs[c] # None => c \in Unspent
    BY <1>t, <1>3, <1>4 DEF NoStaleOutput
  <2>2. outputs[c] # None => c \in Tracked
    BY <1>t DEF IInv, RowInv, Tracked, Owned
  <2>3. c \in Tracked \cap Unspent => outputs[c] # None
    <3>1. ~\E r \in Syncs : Writes(r, c)
      <4>1. \A r \in Syncs : Writes(r, c) => r = s
        BY <1>3 DEF Writes, Running
      <4>2. ~Writes(s, c)
        BY <1>2 DEF Writes
      <4> QED
        BY <4>1, <4>2
    <3> QED
      BY <1>2, <1>3, <3>1 DEF IInv, CoverInv
  <2> QED
    BY <2>1, <2>2, <2>3
<1>7. ASSUME NEW c \in Tracked \cap Unspent PROVE tx_rows[TxOf[c]] = Height(TxOf[c]) /\ TxOf[c] \in Txs
  <2>1. PICK k \in KeySet : c \in Owned(k)
    BY DEF Tracked
  <2>2. TxOf[c] \in get_history(k) /\ TxOf[c] \in Txs
    BY <2>1 DEF get_history, Unspent, Txs
  <2> QED
    BY <1>5, <2>2
<1>8. Confirmed' = {c \in Coins : outputs[c] # None /\ tx_rows[TxOf[c]] = "height"}
  BY <1>2 DEF Confirmed
<1>9. Unconfirmed' = {c \in Coins : outputs[c] # None /\ tx_rows[TxOf[c]] = "null"}
  BY <1>2 DEF Unconfirmed
<1>10. Tracked \cap Unspent \subseteq Coins
  BY DEF Unspent
<1>11. Confirmed' = {c \in Tracked \cap Unspent : Height(TxOf[c]) = "height"}
  BY <1>6, <1>7, <1>8, <1>10
<1>12. Unconfirmed' = (Tracked \cap Unspent) \ Confirmed'
  BY <1>t, <1>6, <1>7, <1>9, <1>10, <1>11
<1>13. {d.tx : d \in deltas'} = UNION {get_history(k) : k \in KeySet}
  <2>1. ASSUME NEW d \in deltas PROVE \E k \in KeySet : d.tx \in get_history(k)
    BY <1>t, <1>3, <1>4 DEF NoStaleDelta
  <2>2. ASSUME NEW k \in KeySet, NEW t \in get_history(k) PROVE \E d \in deltas : d.tx = t
    BY <1>5, ZenonT(60)
  <2> QED
    BY <1>2, <2>1, <2>2
<1> QED
  BY <1>11, <1>12, <1>13

-----------------------------------------------------------------------------
(* The theorems *)

\* In every reachable state, however many syncs overlap and wherever one of them
\* was cut off: rows are under keys that own them, answers still to be written are
\* about the key their sync is at, and a coin that was unspent all the time has its
\* row or a sync on the way to it.
THEOREM Invariant == Spec => [](IInv /\ AloneInv)
<1>1. Init => IInv /\ AloneInv
  BY InitInv DEF Init, AloneInv
<1>2. IInv /\ AloneInv /\ [Next]_vars => (IInv /\ AloneInv)'
  BY TypesNext, RowsNext, FetchedNext, CoverNext, AloneNext DEF IInv
<1> QED
  BY <1>1, <1>2, PTL DEF Spec

\* The rows of Transactions, TransactionOutputs and TransactionDeltas fit together
\* between any two statements of sync_wallet, and when all syncs have ended without
\* a failure no coin that was there all the time is missing.
THEOREM RowsAreSound == Spec => []RowsSound
<1>1. IInv => OverlapLosesNothing
  BY DEF IInv, CoverInv, OverlapLosesNothing, Running, Writes, Tracked, Owned
<1>2. IInv => RowsSound
  BY <1>1 DEF IInv, RowsSound
<1> QED
  BY <1>2, Invariant, PTL

\* A sync that runs alone, gets all its answers and reaches its last key leaves the
\* balances and the history that the server has, from whatever was in the tables.
THEOREM AloneSyncsFaithfully == Spec => AloneIsFaithful
<1> DEFINE A == \A s \in Syncs :
      pc[s] # "idle" /\ pc'[s] = "idle" /\ calm[s] /\ ~skipped[s] /\ whole' =>
        /\ Confirmed' = {c \in Tracked \cap Unspent : Height(TxOf[c]) = "height"}
        /\ Unconfirmed' = (Tracked \cap Unspent) \ Confirmed'
        /\ {d.tx : d \in deltas'} = UNION {get_history(k) : k \in KeySet}
<1>1. IInv /\ AloneInv /\ [Next]_vars => [A]_vars
  BY AloneEnds
<1>2. [][A]_vars => AloneIsFaithful
  BY DEF AloneIsFaithful
<1> QED
  BY <1>1, <1>2, Invariant, PTL DEF Spec
=============================================================================
