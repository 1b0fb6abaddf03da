----------------------------- MODULE WalletSync -----------------------------
(* sync_wallet: what the server says of an account's keys is copied into    *)
(* Transactions, TransactionOutputs and TransactionDeltas, one statement at *)
(* a time and with no transaction around them, while other syncs run, the   *)
(* chain moves, broadcasts spend coins, statements fail and the process     *)
(* dies (commands/network.rs, db/repositories.rs).                          *)
(*                                                                          *)
(* Every await ends an action.  Values are left out: a balance is the set   *)
(* of coins it sums.                                                        *)
EXTENDS Naturals, FiniteSets, Sequences

CONSTANTS
  Syncs,      \* concurrent invocations of sync_wallet
  Keys,       \* sequence: the account's keyinstances, by id
  Derivations, \* which address each keyinstance derives, or None
  Coins,      \* transaction outputs (tx_hash, tx_index)
  TxOf,       \* the transaction a coin belongs to
  PaysTo,     \* the address it pays to
  ChangeAddress, \* where prepare_tx sends change: 1/0, of which no command makes a key
  MaxChanges, \* bound: changes of the chain
  None

\* Keyinstances have ids of their own; an account without any is not synced.
ASSUME KeysAssumption == /\ Len(Keys) \in Nat \ {0}
                         /\ \A i, j \in 1 .. Len(Keys) : Keys[i] = Keys[j] => i = j

KeySet == {Keys[i] : i \in 1 .. Len(Keys)}
Txs == {TxOf[c] : c \in Coins}
Entries == [tx : Txs, coin : Coins \cup {None}, height : {"null", "height"}]

ASSUME NoneAssumption == None \notin KeySet \cup Coins \cup Entries

VARIABLES
  addr,      \* the address a keyinstance derives; two may derive the same one,
             \* and the row of an imported key has no subpath to derive one from
  chain,     \* what the server knows of each transaction
  spent,     \* ... and the coins it knows spent
  changes,
  tx_rows,   \* Transactions.block_height: "none" if there is no such row
  outputs,   \* TransactionOutputs.keyinstance_id, or None if there is no row
  deltas,    \* rows of TransactionDeltas
  pc, at,    \* per sync: progress, and which key it is at
  history,   \* ... the answers it still has to write
  utxos,
  half,      \* ... the one whose second statement is next, or None
  calm,      \* history: nothing else synced, and the chain stood still
  skipped,   \* history: it had to skip a key
  steady,    \* history: coins unspent since no sync was running
  whole      \* history: since then no sync failed or skipped a key

server == <<chain, spent, changes>>
db == <<tx_rows, outputs, deltas>>
task == <<pc, at, history, utxos, half>>
ghost == <<calm, skipped, steady, whole>>
vars == <<addr, server, db, task, ghost>>

Unspent == {c \in Coins \ spent : chain[TxOf[c]] # "absent"}
Running == {s \in Syncs : pc[s] # "idle"}

Init ==
  /\ addr \in Derivations
  /\ chain \in [Txs -> {"absent", "mined"}] /\ spent = {}
  /\ changes = 0
  /\ tx_rows = [t \in Txs |-> "none"]
  /\ outputs = [c \in Coins |-> None]
  /\ deltas = {}
  /\ pc = [s \in Syncs |-> "idle"]
  /\ at = [s \in Syncs |-> 0]
  /\ history = [s \in Syncs |-> {}]
  /\ utxos = [s \in Syncs |-> {}]
  /\ half = [s \in Syncs |-> None]
  /\ calm = [s \in Syncs |-> FALSE]
  /\ skipped = [s \in Syncs |-> FALSE]
  /\ steady = {} /\ whole = FALSE

-----------------------------------------------------------------------------
(* The chain, as the server tells it *)

\* block_height is Some exactly when the server's height is positive.
Height(t) == IF chain[t] = "mined" THEN "height" ELSE "null"

Owned(k) == {c \in Coins : PaysTo[c] = addr[k]}
get_history(k) == {t \in Txs : \E c \in Owned(k) : TxOf[c] = t /\ chain[t] # "absent"}
get_utxos(k) == Owned(k) \cap Unspent

Change(ch, sp) ==
  /\ changes < MaxChanges
  /\ changes' = changes + 1
  /\ chain' = ch /\ spent' = sp
  /\ calm' = [s \in Syncs |-> FALSE]
  /\ steady' = {c \in steady \ sp : ch[TxOf[c]] # "absent"}
  /\ UNCHANGED <<addr, db, task, skipped, whole>>

\* A transaction enters the mempool, is mined, or goes with a reorganisation.
Advance(t) ==
  \E to \in CASE chain[t] = "absent" -> {"mempool"}
            [] chain[t] = "mempool" -> {"mined", "absent"}
            [] chain[t] = "mined" -> {"mempool"} :
    Change([chain EXCEPT ![t] = to],
           IF to = "absent" THEN {c \in spent : TxOf[c] # t} ELSE spent)

\* broadcast_tx: the server takes a transaction that spends a coin the wallet
\* has.  Whether its answer arrives, is late or names another txid, nothing is
\* written: the coin stays in the table until a sync.
Broadcast(c) ==
  /\ outputs[c] # None /\ c \in Unspent
  /\ Change(chain, spent \cup {c})

-----------------------------------------------------------------------------
(* sync_wallet *)

Goto(s, l) == pc' = [pc EXCEPT ![s] = l]

\* Needs a connected client and an unlocked wallet, which it copies.
Start(s) ==
  /\ pc[s] = "idle"
  /\ Goto(s, "history") /\ at' = [at EXCEPT ![s] = 1]
  /\ calm' = IF Running = {} THEN [calm EXCEPT ![s] = TRUE] ELSE [r \in Syncs |-> FALSE]
  /\ skipped' = [skipped EXCEPT ![s] = FALSE]
  /\ IF Running = {} THEN steady' = Unspent /\ whole' = TRUE
                     ELSE UNCHANGED <<steady, whole>>
  /\ UNCHANGED <<addr, server, db, history, utxos, half>>

\* On to the next key, or the end.
NextKey(s) ==
  /\ at' = [at EXCEPT ![s] = @ + 1]
  /\ Goto(s, IF at[s] = Len(Keys) THEN "idle" ELSE "history")

\* get_balance, get_history or get_utxos fails: the key is skipped, with the
\* rows it has.
Skip(s) ==
  /\ pc[s] \in {"history", "utxos"} /\ addr[Keys[at[s]]] # None
  /\ NextKey(s)
  /\ skipped' = [skipped EXCEPT ![s] = TRUE]
  /\ whole' = FALSE
  /\ history' = [history EXCEPT ![s] = {}]
  /\ UNCHANGED <<addr, server, db, utxos, half, calm, steady>>

\* "missing subpath in derivation_data" ends the whole sync, not the key.
Malformed(s) ==
  /\ pc[s] = "history" /\ addr[Keys[at[s]]] = None
  /\ Goto(s, "idle")
  /\ whole' = FALSE
  /\ UNCHANGED <<addr, server, db, at, history, utxos, half, calm, skipped, steady>>

\* The balance only goes into the message.
FetchHistory(s) ==
  /\ pc[s] = "history" /\ addr[Keys[at[s]]] # None
  /\ history' = [history EXCEPT ![s] =
       {[tx |-> t, coin |-> None, height |-> Height(t)] : t \in get_history(Keys[at[s]])}]
  /\ Goto(s, "utxos")
  /\ UNCHANGED <<addr, server, db, at, utxos, half, ghost>>

FetchUtxos(s) ==
  /\ pc[s] = "utxos"
  /\ utxos' = [utxos EXCEPT ![s] =
       {[tx |-> TxOf[c], coin |-> c, height |-> Height(TxOf[c])] : c \in get_utxos(Keys[at[s]])}]
  /\ Goto(s, "clear_outputs")
  /\ UNCHANGED <<addr, server, db, at, history, half, ghost>>

ClearOutputs_All(s) ==
  /\ pc[s] = "clear_outputs"
  /\ outputs' = [c \in Coins |-> None]
  /\ Goto(s, "clear_deltas")
  /\ UNCHANGED <<addr, server, tx_rows, deltas, at, history, utxos, half, ghost>>
ClearOutputs(s) ==
  /\ pc[s] = "clear_outputs"
  /\ outputs' = [c \in Coins |-> IF outputs[c] = Keys[at[s]] THEN None ELSE outputs[c]]
  /\ Goto(s, "clear_deltas")
  /\ UNCHANGED <<addr, server, tx_rows, deltas, at, history, utxos, half, ghost>>

ClearDeltas(s) ==
  /\ pc[s] = "clear_deltas"
  /\ deltas' = {d \in deltas : d.key # Keys[at[s]]}
  /\ Goto(s, "write")
  /\ UNCHANGED <<addr, server, tx_rows, outputs, at, history, utxos, half, ghost>>

\* For a history entry or a coin, first its Transactions row ...
UpsertTx_KeepsHeight(t, h) ==
  tx_rows' = [tx_rows EXCEPT ![t] = IF @ = "height" THEN @ ELSE h]
UpsertTx(t, h) == tx_rows' = [tx_rows EXCEPT ![t] = h]

WriteTx(s) ==
  /\ pc[s] = "write" /\ half[s] = None
  /\ \E e \in IF history[s] # {} THEN history[s] ELSE utxos[s] :
       /\ UpsertTx(e.tx, e.height)
       /\ half' = [half EXCEPT ![s] = e]
       /\ history' = [history EXCEPT ![s] = @ \ {e}]
       /\ utxos' = [utxos EXCEPT ![s] = @ \ {e}]
  /\ UNCHANGED <<addr, server, outputs, deltas, pc, at, ghost>>

\* ... then its delta, of value 0 ...
WriteDelta(s) ==
  /\ half[s] # None /\ half[s].coin = None
  /\ deltas' = deltas \cup {[key |-> Keys[at[s]], tx |-> half[s].tx]}
  /\ half' = [half EXCEPT ![s] = None]
  /\ UNCHANGED <<addr, server, tx_rows, outputs, pc, at, history, utxos, ghost>>

\* ... or the output, which moves to this key if another had it.
Upsert(c, k) == outputs' = [outputs EXCEPT ![c] = k]

WriteOutput(s) ==
  /\ half[s] # None /\ half[s].coin # None
  /\ Upsert(half[s].coin, Keys[at[s]])
  /\ half' = [half EXCEPT ![s] = None]
  /\ UNCHANGED <<addr, server, tx_rows, deltas, pc, at, history, utxos, ghost>>

\* Subscribes, which may fail, and goes on.
KeyDone(s) ==
  /\ pc[s] = "write" /\ history[s] = {} /\ utxos[s] = {} /\ half[s] = None
  /\ NextKey(s)
  /\ UNCHANGED <<addr, server, db, history, utxos, half, ghost>>

Stop(S) ==
  /\ pc' = [s \in Syncs |-> IF s \in S THEN "idle" ELSE pc[s]]
  /\ history' = [s \in Syncs |-> IF s \in S THEN {} ELSE history[s]]
  /\ utxos' = [s \in Syncs |-> IF s \in S THEN {} ELSE utxos[s]]
  /\ half' = [s \in Syncs |-> IF s \in S THEN None ELSE half[s]]
  /\ calm' = [s \in Syncs |-> s \notin S /\ calm[s]]
  /\ whole' = FALSE
  /\ UNCHANGED <<addr, server, db, at, skipped, steady>>

\* A statement fails: `?` ends the sync, the statements before it stay.
Fail(s) == pc[s] \in {"clear_outputs", "clear_deltas", "write"} /\ Stop({s})

Crash == Running # {} /\ Stop(Syncs)

-----------------------------------------------------------------------------
Next ==
  \/ \E t \in Txs : Advance(t)
  \/ \E c \in Coins : Broadcast(c)
  \/ \E s \in Syncs :
       \/ Start(s) \/ Skip(s) \/ Malformed(s) \/ FetchHistory(s) \/ FetchUtxos(s)
       \/ ClearOutputs(s) \/ ClearDeltas(s) \/ WriteTx(s) \/ WriteDelta(s)
       \/ WriteOutput(s) \/ KeyDone(s) \/ Fail(s)
  \/ Crash

Spec == Init /\ [][Next]_vars

-----------------------------------------------------------------------------
(* Properties *)

\* What get_balance sums as confirmed: rows joined with their Transactions row.
Confirmed == {c \in Coins : outputs[c] # None /\ tx_rows[TxOf[c]] = "height"}
Unconfirmed == {c \in Coins : outputs[c] # None /\ tx_rows[TxOf[c]] = "null"}
Tracked == UNION {Owned(k) : k \in KeySet}

TypeOK ==
  /\ tx_rows \in [Txs -> {"none", "null", "height"}]
  /\ outputs \in [Coins -> KeySet \cup {None}]
  /\ deltas \subseteq [key : KeySet, tx : Txs]
  /\ at \in [Syncs -> 0 .. Len(Keys) + 1]

\* Every coin and every delta has its Transactions row, in the middle of a sync,
\* after a failed one and after a crash: the inner joins of get_balance and
\* get_history drop nothing, and no statement breaks a foreign key.
NothingDangles ==
  /\ \A c \in Coins : outputs[c] # None => tx_rows[TxOf[c]] # "none"
  /\ \A d \in deltas : tx_rows[d.tx] # "none"

\* Whatever was in the tables, left there by a crash, a failed sync or two
\* overlapping ones, by a broadcast or a reorganisation: a sync that runs alone
\* and gets all its answers leaves balances and history as the server has them.
AloneIsFaithful == [][
  \A s \in Syncs :
    pc[s] # "idle" /\ pc'[s] = "idle" /\ calm[s] /\ ~skipped[s] /\ whole' =>
    /\ Confirmed' = {c \in Tracked \cap Unspent : Height(TxOf[c]) = "height"}
    /\ Unconfirmed' = (Tracked \cap Unspent) \ Confirmed'
    /\ {d.tx : d \in deltas'} = UNION {get_history(k) : k \in KeySet}]_vars

\* Syncs may overlap: what they leave may hold a coin that was spent meanwhile,
\* but no coin that was there all the time is missing.
OverlapLosesNothing ==
  Running = {} /\ whole => steady \cap Tracked \subseteq {c \in Coins : outputs[c] # None}

\* The rows can be relied on between any two statements: the joins find what
\* they look for, and no two syncs between them lose a coin.
RowsSound == TypeOK /\ NothingDangles /\ OverlapLosesNothing

\* transactions.rs:137: "Derive a change address from the wallet at path 1/0";
\* account.rs:111: "Get the balance for the active account".  A sync that runs
\* alone and gets all its answers leaves every unspent coin of the wallet in its
\* balance, the change its own transactions paid back included.
ChangeIsSeen == [][
  \A s \in Syncs :
    pc[s] # "idle" /\ pc'[s] = "idle" /\ calm[s] /\ ~skipped[s] /\ whole' =>
      {c \in Unspent : PaysTo[c] = ChangeAddress} \subseteq Confirmed' \cup Unconfirmed']_vars
-----------------------------------------------------------------------------
(* The inductive invariants behind RowsSound and AloneIsFaithful *)

PCs == {"idle", "history", "utxos", "clear_outputs", "clear_deltas", "write"}

SyncTypes ==
  /\ chain \in [Txs -> {"absent", "mempool", "mined"}] /\ spent \subseteq Coins
  /\ pc \in [Syncs -> PCs]
  /\ history \in [Syncs -> SUBSET Entries] /\ utxos \in [Syncs -> SUBSET Entries]
  /\ half \in [Syncs -> Entries \cup {None}]
  /\ calm \in [Syncs -> BOOLEAN] /\ skipped \in [Syncs -> BOOLEAN]
  /\ steady \subseteq Unspent /\ whole \in BOOLEAN

\* Who syncs is at one of the keys, and has answers to write only once it asked.
PlaceInv == \A s \in Syncs :
  /\ pc[s] # "idle" => at[s] \in 1 .. Len(Keys)
  /\ pc[s] \in {"idle", "history"} => history[s] = {}
  /\ pc[s] \in {"idle", "history", "utxos"} => utxos[s] = {}
  /\ pc[s] # "write" => half[s] = None

\* A coin that an entry e of s names pays to the key s is at.
PaysKey(s, e) == e.tx = TxOf[e.coin] /\ PaysTo[e.coin] = addr[Keys[at[s]]]

\* Rows are under a key that owns them, and answers are about the key that s is at.
RowInv ==
  /\ \A c \in Coins : outputs[c] # None => PaysTo[c] = addr[outputs[c]]
  /\ \A s \in Syncs :
       /\ \A e \in history[s] : e.coin = None
       /\ \A e \in utxos[s] : e.coin # None /\ PaysKey(s, e)
       /\ half[s] # None =>
            /\ tx_rows[half[s].tx] # "none"
            /\ half[s].coin # None => PaysKey(s, half[s])

\* Before it clears a key's rows a sync has the coins that are to replace them.
FetchedInv == \A s \in Syncs : pc[s] = "clear_outputs" =>
  \A c \in steady \cap Owned(Keys[at[s]]) : \E e \in utxos[s] : e.coin = c

\* s will get to a key that coin c pays, or has still to write c for this one.
Writes(s, c) ==
  /\ pc[s] # "idle"
  /\ \/ \E i \in 1 .. Len(Keys) :
          /\ PaysTo[c] = addr[Keys[i]]
          /\ i > at[s] \/ (i = at[s] /\ pc[s] \in {"history", "utxos"})
     \/ \E e \in utxos[s] \cup {half[s]} : e # None /\ e.coin = c

\* A coin that was there all the time has its row, or some sync is on its way to it.
CoverInv == whole => \A c \in steady \cap Tracked :
  outputs[c] # None \/ \E s \in Syncs : Writes(s, c)

IInv == /\ TypeOK /\ SyncTypes /\ PlaceInv /\ RowInv /\ NothingDangles
        /\ FetchedInv /\ CoverInv

\* What a sync that is alone has got right so far.  Under the keys it has done with
\* there is nothing but what the server has; of the key it is at, what it has still
\* to write is as the server told it.
Cleared(s, i) == i < at[s] \/ (i = at[s] /\ pc[s] \in {"clear_deltas", "write"})
DeltasCleared(s, i) == i < at[s] \/ (i = at[s] /\ pc[s] = "write")
Fetched(s, i) == i < at[s] \/ (i = at[s] /\ pc[s] \notin {"idle", "history"})

Fresh(s) ==
  /\ \A e \in history[s] \cup utxos[s] : e.height = Height(e.tx)
  /\ \A e \in history[s] : e.tx \in get_history(Keys[at[s]])
  /\ \A e \in utxos[s] : e.coin \in Unspent
  /\ half[s] # None =>
       /\ tx_rows[half[s].tx] = Height(half[s].tx)
       /\ half[s].coin = None => half[s].tx \in get_history(Keys[at[s]])
       /\ half[s].coin # None => half[s].coin \in Unspent

NoStaleOutput(s) == \A i \in 1 .. Len(Keys) : Cleared(s, i) =>
  \A c \in Coins : outputs[c] = Keys[i] => c \in Unspent

NoStaleDelta(s) == \A i \in 1 .. Len(Keys) : DeltasCleared(s, i) =>
  \A d \in deltas : d.key = Keys[i] => d.tx \in get_history(Keys[i])

HistoryWritten(s) == \A i \in 1 .. Len(Keys) : Fetched(s, i) => \A t \in get_history(Keys[i]) :
  \/ i = at[s] /\ \E e \in history[s] : e.tx = t
  \/ /\ DeltasCleared(s, i) /\ tx_rows[t] = Height(t)
     /\ \/ [key |-> Keys[i], tx |-> t] \in deltas
        \/ i = at[s] /\ half[s] # None /\ half[s].tx = t /\ half[s].coin = None

Faithful(s) == steady = Unspent /\ NoStaleOutput(s) /\ NoStaleDelta(s) /\ HistoryWritten(s)

AloneInv == \A s \in Syncs : pc[s] # "idle" /\ calm[s] =>
  Running = {s} /\ Fresh(s) /\ (whole /\ ~skipped[s] => Faithful(s))
=============================================================================
