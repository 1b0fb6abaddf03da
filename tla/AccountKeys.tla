---------------------------- MODULE AccountKeys ----------------------------
(***************************************************************************)
(* commands/account.rs, commands/payment_requests.rs, commands/extra.rs:   *)
(* which receive address is handed out next, which payment request has     *)
(* which key, what is imported, which multisig accounts there are.  The    *)
(* next index is the number of rows there are; it is read in one statement *)
(* and used in another, two awaits later.  Rows are never deleted.  The    *)
(* wallet is open and unlocked, and every call works on the connection     *)
(* pool it took at its start.                                              *)
(***************************************************************************)
EXTENDS Naturals, Sequences, FiniteSets

CONSTANTS
  MaxAccounts,   \* bound: accounts, account 1 being made with the wallet
  MaxKeys,       \* bound: rows of KeyInstances
  Tasks,         \* command invocations in flight at the same time
  None

VARIABLES
  accounts,   \* Accounts: the script type of each, in order of account_id
  configs,    \* MultisigConfigs: the accounts that have a row
  keys,       \* KeyInstances: account, index (None: imported), in order of id
  requests,   \* PaymentRequests: the keyinstance_id of each
  pc, arg,    \* where each invocation is, and what it holds
  clash,      \* history: accounts for which two calls derived at the same time
  began       \* history: how many keys there were when each invocation began

tables == <<accounts, configs, keys, requests>>
history == <<clash, began>>
vars == <<tables, pc, arg, history>>

Nothing == [account |-> 1, index |-> None, row |-> 0, request |-> FALSE]

Init ==
  /\ accounts = <<"p2pkh">> /\ configs = {} /\ keys = <<>> /\ requests = <<>>
  /\ pc = [t \in Tasks |-> "idle"] /\ arg = [t \in Tasks |-> Nothing]
  /\ clash = {} /\ began = [t \in Tasks |-> 0]

Goto(t, next, what) ==
  /\ pc' = [pc EXCEPT ![t] = next]
  /\ arg' = [arg EXCEPT ![t] = what]

Return(t) == Goto(t, "idle", Nothing)

-----------------------------------------------------------------------------
(* get_receive_address, create_payment_request *)

ReceivingRows(a) == {i \in DOMAIN keys : keys[i].account = a /\ keys[i].index # None}

\* get_keyinstance_counts: an imported key has no subpath and does not count.
receiving_count_AllTypes(a) == Cardinality({i \in DOMAIN keys : keys[i].account = a})
receiving_count(a) == Cardinality(ReceivingRows(a))

Deriving(a) == {t \in Tasks : pc[t] = "insert_key" /\ arg[t].account = a}

\* With `request`, create_payment_request: it repeats the steps of
\* get_receive_address, then stores the request.
NextIndex(t, a, request) ==
  /\ pc[t] = "idle"
  /\ Len(keys) + Cardinality({u \in Tasks : pc[u] = "insert_key"}) < MaxKeys
  /\ Goto(t, "insert_key", [Nothing EXCEPT !.account = a, !.index = receiving_count(a),
                                           !.request = request])
  /\ began' = [began EXCEPT ![t] = Len(keys)]
  /\ clash' = IF Deriving(a) = {} THEN clash ELSE clash \cup {a}
  /\ UNCHANGED tables

\* The row that is inserted is numbered by the database.
InsertKey(t) ==
  /\ pc[t] = "insert_key"
  /\ keys' = Append(keys, [account |-> arg[t].account, index |-> arg[t].index,
                           began |-> began[t]])
  /\ IF arg[t].request THEN Goto(t, "insert_request", [arg[t] EXCEPT !.row = Len(keys')])
                       ELSE Return(t)
  /\ UNCHANGED <<accounts, configs, requests, history>>

InsertRequest(t) ==
  /\ pc[t] = "insert_request"
  /\ requests' = Append(requests, arg[t].row)
  /\ Return(t)
  /\ UNCHANGED <<accounts, configs, keys, history>>

-----------------------------------------------------------------------------
\* import_privkey: no look at whether the key is there already; the account is
\* the active one.
ImportPrivkey ==
  /\ Len(keys) + Cardinality({u \in Tasks : pc[u] = "insert_key"}) < MaxKeys
  /\ keys' = Append(keys, [account |-> 1, index |-> None, began |-> Len(keys)])
  /\ UNCHANGED <<accounts, configs, requests, pc, arg, history>>

(* create_multisig_account, past the check of threshold and keys *)

InsertAccount(t) ==
  /\ pc[t] = "idle"
  /\ Len(accounts) < MaxAccounts
  /\ accounts' = Append(accounts, "multisig")
  /\ Goto(t, "insert_config", [Nothing EXCEPT !.account = Len(accounts')])
  /\ UNCHANGED <<configs, keys, requests, history>>

InsertConfig(t) ==
  /\ pc[t] = "insert_config"
  /\ configs' = configs \cup {arg[t].account}
  /\ Return(t)
  /\ UNCHANGED <<accounts, keys, requests, history>>

\* A statement fails, or the process dies there: the rows inserted so far stay.
Fail(t) ==
  /\ pc[t] # "idle"
  /\ Return(t)
  /\ UNCHANGED <<tables, history>>

Next ==
  \/ \E t \in Tasks :
       \/ \E a \in DOMAIN accounts, request \in BOOLEAN : NextIndex(t, a, request)
       \/ InsertKey(t) \/ InsertRequest(t)
       \/ InsertAccount(t) \/ InsertConfig(t)
       \/ Fail(t)
  \/ ImportPrivkey
Spec == Init /\ [][Next]_vars

-----------------------------------------------------------------------------
TypeOK ==
  /\ accounts \in Seq({"p2pkh", "multisig"}) /\ Len(accounts) \in 1..MaxAccounts
  /\ configs \subseteq DOMAIN accounts
  /\ Len(keys) <= MaxKeys
  /\ \A i \in DOMAIN keys : keys[i].account \in DOMAIN accounts
  /\ \A i \in DOMAIN requests : requests[i] \in DOMAIN keys
  /\ clash \subseteq DOMAIN accounts

\* get_receive_address, create_payment_request: as long as the calls for an
\* account do not overlap, its k-th receive address is 0/k-1, whatever is
\* imported in between and whichever call fails: a wallet restored from its
\* seed meets every address in order.
DenseWhenAlone ==
  \A a \in DOMAIN accounts \ clash :
    \A i \in ReceivingRows(a) :
      keys[i].index = Cardinality({j \in ReceivingRows(a) : j < i})

\* Calls that do overlap may be given the same address; but an address that
\* was already there when a call began is never handed out again by it, even
\* though duplicates make the count skip indexes.
FreshAddress ==
  \A i, j \in DOMAIN keys :
    i < j /\ keys[i].account = keys[j].account /\ keys[i].index # None
          /\ keys[i].index = keys[j].index
      => keys[j].began < i

\* create_payment_request: every request has a key of its own, made for it, so
\* that what is paid to one is never taken for another, whoever else inserts.
RequestsApart ==
  /\ \A i \in DOMAIN requests : keys[requests[i]].index # None
  /\ \A i, j \in DOMAIN requests : requests[i] = requests[j] => i = j

-----------------------------------------------------------------------------
(* What it rests on *)

Inserting == {t \in Tasks : pc[t] = "insert_key"}
Requesting == {t \in Tasks : pc[t] = "insert_request"}

\* The bound on the rows counts those about to be inserted.
RoomInv == Len(keys) + Cardinality(Inserting) <= MaxKeys

\* Every index in the table is below the number of the account's rows.
CountInv ==
  \A a \in DOMAIN accounts : \A i \in ReceivingRows(a) : keys[i].index < receiving_count(a)

\* The index a call holds is no more than the count, and above every index that
\* was there when the call began.
IndexInv ==
  /\ \A t \in Inserting : arg[t].account \in DOMAIN accounts /\ began[t] <= Len(keys)
  /\ \A a \in DOMAIN accounts : \A t \in Deriving(a) :
       /\ arg[t].index \in Nat /\ arg[t].index <= receiving_count(a)
       /\ \A i \in ReceivingRows(a) : i <= began[t] => keys[i].index < arg[t].index

\* While no two calls overlap, the index a call holds is the count still.
AloneInv ==
  \A a \in DOMAIN accounts \ clash :
    /\ \A t, u \in Deriving(a) : t = u
    /\ \A t \in Deriving(a) : arg[t].index = receiving_count(a)

\* The row a call will make a request for is its own.
RowInv ==
  /\ \A t \in Requesting :
       /\ arg[t].row \in DOMAIN keys /\ keys[arg[t].row].index # None
       /\ \A i \in DOMAIN requests : requests[i] # arg[t].row
  /\ \A t, u \in Requesting : arg[t].row = arg[u].row => t = u

\* The account of a configuration has its row.
ConfigInv == \A t \in Tasks : pc[t] = "insert_config" => arg[t].account \in DOMAIN accounts

LocalsOK ==
  /\ pc \in [Tasks -> {"idle", "insert_key", "insert_request", "insert_config"}]
  /\ arg \in [Tasks -> [account : Nat, index : Nat \cup {None}, row : Nat, request : BOOLEAN]]
  /\ began \in [Tasks -> Nat]
  /\ keys \in Seq([account : Nat, index : Nat \cup {None}, began : Nat])
  /\ requests \in Seq(Nat)

IInv == /\ TypeOK /\ LocalsOK /\ RoomInv /\ CountInv /\ IndexInv /\ AloneInv /\ RowInv
        /\ ConfigInv /\ FreshAddress /\ RequestsApart /\ DenseWhenAlone
=============================================================================
