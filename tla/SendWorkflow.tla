---------------------------- MODULE SendWorkflow ----------------------------
(***************************************************************************)
(* The send pipeline of commands/transactions.rs: prepare_tx builds a plan *)
(* and keeps it in AppState.pending_plans, sign_tx and sign_multisig_tx    *)
(* take the plan out of the store, gate it and sign it.  Every command is  *)
(* a Tauri async handler, several run at once, and each one is cut here at *)
(* its lock scopes and at its await points: what it keeps across a cut is  *)
(* its own snapshot of the wallet (get_wallet_data), never the lock.       *)
(*                                                                         *)
(* The wallet session (open, close, unlock) and the TOTP secret move under *)
(* the commands' feet, so their handlers are here too.  What a coin is     *)
(* worth and which coins a strategy picks is the business of module        *)
(* CoinSelection: here a plan spends some non-empty set of the coins read. *)
(***************************************************************************)
EXTENDS Integers

CONSTANTS
  Wallets,          \* wallet files; a path names the wallet, its key and its DB
  Coins, Owner,     \* outpoints, and the wallet whose keys they pay
  MultisigWallets,  \* the wallets whose active account has a multisig config
  PlanIds,          \* the UUIDs generate_plan_id can hand out
  Secrets, Enrols,  \* TOTP secrets, and the wallet each one is generated for
  Tasks,            \* command invocations in flight at the same time
  TX_PLAN_TTL,      \* lifetime of a plan, from create_plan
  PLAN_STORE_TTL,   \* lifetime of its entry in the store
  MaxTime,          \* bound on the clock, for TLC
  None

ASSUME OwnerAssumption == Owner \in [Coins -> Wallets]
\* TotpInstance::new draws random bytes: no two wallets get the same secret.
ASSUME EnrolsAssumption == Enrols \in [Secrets -> Wallets]
\* transactions.rs has 300 and state.rs 600.  The comment in state.rs asks for
\* PLAN_STORE_TTL >= TX_PLAN_TTL; PurgedOnlyExpired needs the strict order.
ASSUME TTLAssumption == /\ TX_PLAN_TTL \in Nat /\ PLAN_STORE_TTL \in Nat
                        /\ TX_PLAN_TTL < PLAN_STORE_TTL
ASSUME MaxTimeAssumption == MaxTime \in Nat
ASSUME NoneAssumption == /\ None \notin Wallets /\ None \notin PlanIds
                         /\ None \notin Secrets

VARIABLES
  active,    \* AppState.active_wallet: the open wallet and whether it is unlocked
  pending,   \* AppState.pending_plans
  totp,      \* the TotpSecrets row of every wallet file
  utxos,     \* the unspent rows of TransactionOutputs of every wallet file
  now,       \* chrono::Utc::now(), in units of the TTLs
  pc,        \* where each invocation stands between two awaits
  snap,      \* its get_wallet_data snapshot (pool, path and key of one wallet)
  call,      \* the arguments it was invoked with, and when
  held,      \* the coins read, or the plan built or taken out of the store
  issued,    \* history: the wallet each plan id was handed out for
  signer,    \* history: the wallet whose key signed the plan last
  signs      \* history: how often the plan was signed

session == <<active, totp, utxos>>
local == <<pc, snap, call, held>>
history == <<issued, signer, signs>>
vars == <<session, pending, now, local, history>>

-----------------------------------------------------------------------------
Plan == [wallet : Wallets, inputs : SUBSET Coins, expires_at : Nat]
PendingPlan == [plan : Plan, created_at : Nat]
NoPlan == [wallet |-> None, inputs |-> {}, expires_at |-> 0]
NotPending == [plan |-> NoPlan, created_at |-> 0]

Kinds == {"sign_tx", "sign_multisig_tx"}
NoCall == [kind |-> None, plan |-> None, code |-> None, began |-> 0]
SignCall(kind, p, c) == [kind |-> kind, plan |-> p, code |-> c, began |-> now]

PreparePCs == {"prep_read", "prep_build", "prep_store"}
SignPCs == {"sign_take", "sign_check", "sign_totp", "sign_secret", "sign_msig"}
OtherPCs == {"open_db", "enable_check", "enable_store", "disable_delete"}
\* The steps at which a handler holds a plan that is no longer in the store.
Claimed == {"sign_check", "sign_totp", "sign_secret", "sign_msig"}

Init ==
  /\ active = [wallet |-> None, unlocked |-> FALSE]
  /\ pending = [p \in PlanIds |-> NotPending]
  /\ totp = [w \in Wallets |-> None]
  /\ utxos = [w \in Wallets |-> {c \in Coins : Owner[c] = w}]
  /\ now = 0
  /\ pc = [t \in Tasks |-> "idle"]
  /\ snap = [t \in Tasks |-> None]
  /\ call = [t \in Tasks |-> NoCall]
  /\ held = [t \in Tasks |-> NoPlan]
  /\ issued = [p \in PlanIds |-> None]
  /\ signer = [p \in PlanIds |-> None]
  /\ signs = [p \in PlanIds |-> 0]

\* A handler suspends at step next, keeping its locals.
Goto(t, next) == pc' = [pc EXCEPT ![t] = next]

\* A handler returns, with a result or an error: its locals are dropped.
Return(t) ==
  /\ pc' = [pc EXCEPT ![t] = "idle"]
  /\ snap' = [snap EXCEPT ![t] = None]
  /\ call' = [call EXCEPT ![t] = NoCall]
  /\ held' = [held EXCEPT ![t] = NoPlan]

\* get_wallet_data: needs an open wallet, copies pool, path and xprv.
Snapshot(t) ==
  /\ pc[t] = "idle"
  /\ active.wallet # None
  /\ snap' = [snap EXCEPT ![t] = active.wallet]

-----------------------------------------------------------------------------
(* The session: services/wallet_service.rs *)

OpenStart(t, w) ==
  /\ pc[t] = "idle"
  /\ active.wallet # w          \* an open wallet is not opened again
  /\ snap' = [snap EXCEPT ![t] = w]
  /\ Goto(t, "open_db")
  /\ UNCHANGED <<session, pending, now, call, held, history>>

\* Whatever is open by now is replaced, and the new wallet starts locked.
OpenInstall(t) ==
  /\ pc[t] = "open_db"
  /\ active' = [wallet |-> snap[t], unlocked |-> FALSE]
  /\ Return(t)
  /\ UNCHANGED <<totp, utxos, pending, now, history>>

\* The plans of the wallet stay in the store.
CloseWallet ==
  /\ active.wallet # None
  /\ active' = [wallet |-> None, unlocked |-> FALSE]
  /\ UNCHANGED <<totp, utxos, pending, now, local, history>>

UnlockWallet ==
  /\ active.wallet # None
  /\ ~active.unlocked
  /\ active' = [active EXCEPT !.unlocked = TRUE]
  /\ UNCHANGED <<totp, utxos, pending, now, local, history>>

-----------------------------------------------------------------------------
(* TOTP enrolment: commands/wallet.rs *)

EnableStart(t) ==
  /\ Snapshot(t)
  /\ Goto(t, "enable_check")
  /\ UNCHANGED <<session, pending, now, call, held, history>>

EnableCheck(t) ==
  /\ pc[t] = "enable_check"
  /\ IF totp[snap[t]] = None
     THEN Goto(t, "enable_store") /\ UNCHANGED <<snap, call, held>>
     ELSE Return(t)
  /\ UNCHANGED <<session, pending, now, history>>

\* The upsert of store_totp_secret overwrites a secret stored since the check.
EnableStore(t) ==
  /\ pc[t] = "enable_store"
  /\ \E s \in Secrets :
       /\ Enrols[s] = snap[t]
       /\ totp' = [totp EXCEPT ![snap[t]] = s]
  /\ Return(t)
  /\ UNCHANGED <<active, utxos, pending, now, history>>

DisableStart(t) ==
  /\ Snapshot(t)
  /\ Goto(t, "disable_delete")
  /\ UNCHANGED <<session, pending, now, call, held, history>>

DisableDelete(t) ==
  /\ pc[t] = "disable_delete"
  /\ totp' = [totp EXCEPT ![snap[t]] = None]
  /\ Return(t)
  /\ UNCHANGED <<active, utxos, pending, now, history>>

-----------------------------------------------------------------------------
(* prepare_tx *)

PrepareStart(t) ==
  /\ Snapshot(t)
  /\ active.unlocked
  /\ Goto(t, "prep_read")       \* the fee rate is fetched over HTTP
  /\ UNCHANGED <<session, pending, now, call, held, history>>

\* The unspent coins of the snapshot's DB, whichever wallet is open by now.
Spendable_Reread(t) == IF active.wallet = None THEN {} ELSE utxos[active.wallet]
Spendable(t) == utxos[snap[t]]

PrepareRead(t) ==
  /\ pc[t] = "prep_read"
  /\ IF Spendable(t) = {}
     THEN Return(t)
     ELSE /\ held' = [held EXCEPT ![t] =
                        [wallet |-> snap[t], inputs |-> Spendable(t), expires_at |-> 0]]
          /\ Goto(t, "prep_build")
          /\ UNCHANGED <<snap, call>>
  /\ UNCHANGED <<session, pending, now, history>>

\* build_unsigned picks some of the coins, create_plan stamps the plan.
PrepareBuild(t) ==
  /\ pc[t] = "prep_build"
  /\ \E picked \in SUBSET held[t].inputs :
       /\ picked # {}
       /\ held' = [held EXCEPT ![t] = [wallet |-> snap[t], inputs |-> picked,
                                       expires_at |-> now + TX_PLAN_TTL]]
  /\ Goto(t, "prep_store")
  /\ UNCHANGED <<session, pending, now, snap, call, history>>

\* HashMap::retain under the store's lock: the entries that stay.
Fresh_PlanTTL(p) == pending[p] # NotPending /\ now - pending[p].created_at < TX_PLAN_TTL
Fresh(p) == pending[p] # NotPending /\ now - pending[p].created_at < PLAN_STORE_TTL
Retained == [p \in PlanIds |-> IF Fresh(p) THEN pending[p] ELSE NotPending]

PrepareStore(t) ==
  /\ pc[t] = "prep_store"
  /\ \E p \in PlanIds :
       /\ issued[p] = None          \* 122 random bits: ids do not repeat
       /\ issued' = [issued EXCEPT ![p] = held[t].wallet]
       /\ pending' = [Retained EXCEPT ![p] = [plan |-> held[t], created_at |-> now]]
  /\ Return(t)
  /\ UNCHANGED <<session, now, signer, signs>>

-----------------------------------------------------------------------------
(* sign_tx and sign_multisig_tx *)

\* The renderer passes a plan id it was given and the code the user typed.
SignStart(t, kind, p, c) ==
  /\ Snapshot(t)
  /\ issued[p] # None
  /\ active.unlocked
  /\ call' = [call EXCEPT ![t] = SignCall(kind, p, c)]
  /\ Goto(t, "sign_take")
  /\ UNCHANGED <<session, pending, now, held, history>>

Found_Issued(p) == issued[p] # None
Found(p) == Fresh(p)

AfterTake_Get(p) == Retained
AfterTake(p) == [Retained EXCEPT ![p] = NotPending]

\* Under the store's lock: purge, then remove the plan.  From here on no other
\* call can get the plan, and a check that fails below loses it for good.
SignTake(t) ==
  /\ pc[t] = "sign_take"
  /\ LET p == call[t].plan IN
       /\ pending' = AfterTake(p)
       /\ IF Found(p)
          THEN /\ held' = [held EXCEPT ![t] = pending[p].plan]
               /\ Goto(t, "sign_check")
               /\ UNCHANGED <<snap, call>>
          ELSE Return(t)        \* PlanNotFound
  /\ UNCHANGED <<session, now, history>>

Bound_Skipped(t) == TRUE
Bound(t) == held[t].wallet = snap[t]

Unexpired_Skipped(t) == TRUE
Unexpired(t) == now <= held[t].expires_at

\* WalletMismatch, PlanExpired; plan.signed is never true in the store.
SignCheck(t) ==
  /\ pc[t] = "sign_check"
  /\ IF Bound(t) /\ Unexpired(t)
     THEN Goto(t, "sign_totp") /\ UNCHANGED <<snap, call, held>>
     ELSE Return(t)
  /\ UNCHANGED <<session, pending, now, history>>

SignTotp(t) ==
  /\ pc[t] = "sign_totp"
  /\ IF totp[snap[t]] # None
     THEN Goto(t, "sign_secret") /\ UNCHANGED <<snap, call, held>>
     ELSE Return(t)             \* TotpNotEnabled
  /\ UNCHANGED <<session, pending, now, history>>

\* The signer uses the xprv of the snapshot, the wallet may be closed by now.
Sign(t) ==
  /\ signer' = [signer EXCEPT ![call[t].plan] = snap[t]]
  /\ signs' = [signs EXCEPT ![call[t].plan] = @ + 1]
  /\ Return(t)
  /\ UNCHANGED issued

Verifies_Active(t) == active.wallet # None /\ totp[active.wallet] = call[t].code
Verifies(t) == totp[snap[t]] = call[t].code

\* The secret is read again: it may be gone or another one since SignTotp.
SignSecret(t) ==
  /\ pc[t] = "sign_secret"
  /\ IF ~Verifies(t)
     THEN Return(t) /\ UNCHANGED history     \* TotpNotEnabled, TotpVerificationFailed
     ELSE IF call[t].kind = "sign_tx"
     THEN Sign(t)
     ELSE Goto(t, "sign_msig") /\ UNCHANGED <<snap, call, held, history>>
  /\ UNCHANGED <<session, pending, now>>

\* sign_multisig_tx also needs the account's multisig config.
SignMultisig(t) ==
  /\ pc[t] = "sign_msig"
  /\ IF snap[t] \in MultisigWallets THEN Sign(t) ELSE Return(t) /\ UNCHANGED history
  /\ UNCHANGED <<session, pending, now>>

-----------------------------------------------------------------------------
\* A DB or HTTP error at an await: the handler returns it.
Abort(t) ==
  /\ pc[t] \notin {"idle", "sign_take", "sign_check", "prep_store"}
  /\ Return(t)
  /\ UNCHANGED <<session, pending, now, history>>

\* sync_wallet rewrites the unspent rows of one wallet, key by key.
SyncWrites(w) ==
  /\ \E cs \in SUBSET {c \in Coins : Owner[c] = w} :
       cs # utxos[w] /\ utxos' = [utxos EXCEPT ![w] = cs]
  /\ UNCHANGED <<active, totp, pending, now, local, history>>

\* The process ends (or crashes) and starts again: only the files remain.
Restart ==
  /\ active' = [wallet |-> None, unlocked |-> FALSE]
  /\ pending' = [p \in PlanIds |-> NotPending]
  /\ pc' = [t \in Tasks |-> "idle"]
  /\ snap' = [t \in Tasks |-> None]
  /\ call' = [t \in Tasks |-> NoCall]
  /\ held' = [t \in Tasks |-> NoPlan]
  /\ UNCHANGED <<totp, utxos, now, history>>

Tick == /\ now < MaxTime
        /\ now' = now + 1
        /\ UNCHANGED <<session, pending, local, history>>

Handler(t) ==
  \/ \E w \in Wallets : OpenStart(t, w)
  \/ OpenInstall(t)
  \/ EnableStart(t) \/ EnableCheck(t) \/ EnableStore(t)
  \/ DisableStart(t) \/ DisableDelete(t)
  \/ PrepareStart(t) \/ PrepareRead(t) \/ PrepareBuild(t) \/ PrepareStore(t)
  \/ \E kind \in Kinds, p \in PlanIds, c \in Secrets : SignStart(t, kind, p, c)
  \/ SignTake(t) \/ SignCheck(t) \/ SignTotp(t) \/ SignSecret(t) \/ SignMultisig(t)
  \/ Abort(t)

Next ==
  \/ \E t \in Tasks : Handler(t)
  \/ CloseWallet \/ UnlockWallet
  \/ \E w \in Wallets : SyncWrites(w)
  \/ Restart \/ Tick

Spec == Init /\ [][Next]_vars

-----------------------------------------------------------------------------
(* Properties *)

\* Every variable keeps its type; a handler past the store holds a real plan.
TypeOK ==
  /\ active \in [wallet : Wallets \cup {None}, unlocked : BOOLEAN]
  /\ pending \in [PlanIds -> PendingPlan \cup {NotPending}]
  /\ totp \in [Wallets -> Secrets \cup {None}]
  /\ utxos \in [Wallets -> SUBSET Coins]
  /\ now \in Nat
  /\ pc \in [Tasks -> {"idle"} \cup PreparePCs \cup SignPCs \cup OtherPCs]
  /\ snap \in [Tasks -> Wallets \cup {None}]
  /\ call \in [Tasks -> [kind : Kinds, plan : PlanIds, code : Secrets, began : Nat]
                         \cup {NoCall}]
  /\ held \in [Tasks -> Plan \cup {NoPlan}]
  /\ issued \in [PlanIds -> Wallets \cup {None}]
  /\ signer \in [PlanIds -> Wallets \cup {None}]
  /\ signs \in [PlanIds -> Nat]
  /\ \A t \in Tasks :
       /\ pc[t] # "idle" => snap[t] \in Wallets
       /\ pc[t] \in SignPCs => call[t] # NoCall
       /\ pc[t] \in Claimed \cup {"prep_build", "prep_store"} => held[t] # NoPlan

\* The step in which the call in t makes a signature.
Signs(t) == pc[t] \in {"sign_secret", "sign_msig"} /\ signs' # signs /\ pc'[t] # pc[t]

\* AUD-007, "the plan must belong to the current wallet": a plan is only ever
\* signed with the key of the wallet it was prepared for, though wallets are
\* opened and closed between prepare_tx, sign_tx and the signer.
SignedByOwnWallet == \A p \in PlanIds : signer[p] \in {None, issued[p]}

\* Taking a plan out of the store is final: of any number of sign_tx and
\* sign_multisig_tx calls with one plan id, in flight together or one after the
\* other, at most one signs it.
SignedAtMostOnce == \A p \in PlanIds : signs[p] <= 1

\* The inputs of a signed transaction are coins of the wallet that signs it: no
\* handler mixes the coins of one wallet with the path or the key of another.
SpendsOwnCoins ==
  [][\A t \in Tasks : Signs(t) => \A c \in held[t].inputs : Owner[c] = signer'[call[t].plan]]_vars

\* A call made after the plan's expires_at never signs it.
NeverSignedWhenLate ==
  [][\A t \in Tasks : Signs(t) => call[t].began <= held[t].expires_at]_vars

\* The code that lets a signature through was made from a secret enrolled for
\* the wallet that prepared the plan, also when wallets change during the call.
GatedByOwnTotp ==
  [][\A t \in Tasks : Signs(t) => Enrols[call[t].code] = issued[call[t].plan]]_vars

\* state.rs: PLAN_STORE_TTL is there "so plans don't expire from the store
\* before their own TTL would naturally reject them at sign time".  A plan only
\* leaves the store into the hands of the handler that asked for it, because it
\* is past its expires_at, or because the process ended.
PurgedOnlyExpired ==
  [][Restart \/ \A p \in PlanIds :
       (pending[p] # NotPending /\ pending'[p] = NotPending)
         => \/ now > pending[p].plan.expires_at
            \/ \E t \in Tasks : /\ pc[t] = "sign_take" /\ call[t].plan = p
                               /\ pc'[t] = "sign_check" /\ held'[t] = pending[p].plan]_vars

\* The pipeline implements one-shot plans: a plan is open while it is in the
\* store or held by a handler on its way to the signer.
Open == {p \in PlanIds : \/ pending[p] # NotPending
                         \/ \E t \in Tasks : pc[t] \in Claimed /\ call[t].plan = p}

Abstract == INSTANCE OneShotPlans WITH owner <- issued, open <- Open, signedBy <- signer
ImplementsOneShotPlans == Abstract!Spec

-----------------------------------------------------------------------------
(* The inductive invariant behind the properties above *)

OwnCoins(plan) == \A c \in plan.inputs : Owner[c] = plan.wallet

\* Each wallet file holds its own coins and its own secret.
FilesInv == \A w \in Wallets : /\ \A c \in utxos[w] : Owner[c] = w
                               /\ totp[w] # None => Enrols[totp[w]] = w

\* A plan under construction belongs to the wallet of the handler's snapshot.
BuildInv == \A t \in Tasks :
  /\ pc[t] \in {"prep_build", "prep_store"} => held[t].wallet = snap[t] /\ OwnCoins(held[t])
  /\ pc[t] = "prep_store" => held[t].expires_at <= now + TX_PLAN_TTL

\* A stored plan is unsigned, is what its id was issued for, and expires no
\* later than TX_PLAN_TTL after its entry was stamped.
StoreInv == \A p \in PlanIds : pending[p] # NotPending =>
  /\ pending[p].plan.wallet = issued[p] /\ OwnCoins(pending[p].plan)
  /\ signs[p] = 0
  /\ pending[p].plan.expires_at <= pending[p].created_at + TX_PLAN_TTL

\* A handler that took a plan is the only place where the plan still is.
ClaimInv == \A t \in Tasks :
  /\ pc[t] \in SignPCs => issued[call[t].plan] # None /\ call[t].began <= now
  /\ pc[t] \in Claimed =>
       /\ pending[call[t].plan] = NotPending /\ signs[call[t].plan] = 0
       /\ held[t].wallet = issued[call[t].plan] /\ OwnCoins(held[t])
       /\ \A u \in Tasks \ {t} : pc[u] \in Claimed => call[u].plan # call[t].plan

\* What the checks of sign_tx established still holds when the signer runs.
GateInv == \A t \in Tasks :
  /\ pc[t] \in {"sign_totp", "sign_secret", "sign_msig"} =>
       held[t].wallet = snap[t] /\ call[t].began <= held[t].expires_at
  /\ pc[t] = "sign_msig" => Enrols[call[t].code] = snap[t]

HistoryInv == \A p \in PlanIds :
  /\ signs[p] <= 1 /\ signer[p] \in {None, issued[p]}
  /\ signs[p] = 0 => signer[p] = None
  /\ issued[p] = None => signs[p] = 0 /\ pending[p] = NotPending

IInv == FilesInv /\ BuildInv /\ StoreInv /\ ClaimInv /\ GateInv /\ HistoryInv
=============================================================================
