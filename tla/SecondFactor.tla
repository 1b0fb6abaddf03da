---------------------------- MODULE SecondFactor ----------------------------
(***************************************************************************)
(* commands/wallet.rs and commands/extra.rs: the TOTP secret of the open   *)
(* wallet, the scope it guards, the recovery codes that switch it off and  *)
(* the exports it stands in front of.  All of it is rows of the wallet     *)
(* file; no command holds a lock or a transaction across two statements,   *)
(* so each is cut where it awaits one.  (sign_tx asks for a code as well:  *)
(* module SendWorkflow.  update_config can write any of these rows too;    *)
(* the frontend sends it its own settings only, and it is left out here.)  *)
(*                                                                         *)
(* A six-digit code is named by the secret that makes it, a recovery code  *)
(* by the list it was handed out in and its place there; hashing keeps     *)
(* them apart.                                                             *)
(***************************************************************************)
EXTENDS Naturals, FiniteSets

CONSTANTS
  Secrets,    \* TOTP secrets, a random one for every enrolment
  MaxLists,   \* how many times recovery codes are generated
  NumCodes,   \* codes in a list; 10 in the code
  Tasks,      \* command invocations in flight at the same time
  None

VARIABLES
  secret,     \* TotpSecrets.secret_encrypted, None: no row
  scope,      \* WalletData["totp_scope"], "tx" when there is no row
  codes,      \* WalletData["totp_recovery_codes"]
  pc, arg,    \* where each invocation is, and what it holds
  made,       \* history: the secrets made so far
  lists,      \* history: how many lists of codes were made
  handed,     \* history: the list last handed out, {} once a recovery voided it
  spent,      \* history: the codes matched since
  clash,      \* history: a recovery has met another writer of the codes since the last list
  saw         \* history: the secrets and scopes stored at some time during each call

stored == <<secret, scope, codes>>
local == <<pc, arg>>
history == <<made, lists, handed, spent, clash>>
vars == <<stored, local, history, saw>>

Scopes == {"tx", "login"}
Nothing == [code |-> None, list |-> {}, scope |-> "tx"]
CodesOf(l) == {l} \X (1..NumCodes)
AllCodes == UNION {CodesOf(l) : l \in 1..MaxLists}

Init ==
  /\ secret = None /\ scope = "tx" /\ codes = {}
  /\ pc = [t \in Tasks |-> "idle"] /\ arg = [t \in Tasks |-> Nothing]
  /\ made = {} /\ lists = 0 /\ handed = {} /\ spent = {} /\ clash = FALSE
  /\ saw = [t \in Tasks |-> {}]

Now == {secret, scope}
Guarded == {"enable_store", "export_load", "reveal", "scope_load", "scope_store"}

\* Every enrolment, export and change of scope that is on its way sees what a
\* step leaves stored.
Witness == saw' = [t \in Tasks |-> CASE pc'[t] \notin Guarded -> {}
                                     [] pc[t] = "idle" -> Now \cup Now'
                                     [] OTHER -> saw[t] \cup Now']

Goto(t, next, what) ==
  /\ pc' = [pc EXCEPT ![t] = next]
  /\ arg' = [arg EXCEPT ![t] = what]

Return(t) == Goto(t, "idle", Nothing)

Recovering == {t \in Tasks : pc[t] \in {"recover_store", "recover_secret", "recover_codes"}}

-----------------------------------------------------------------------------
(* enable_totp and disable_totp *)

EnableCheck_Unchecked(t) ==
  /\ pc[t] = "idle"
  /\ \E s \in Secrets \ made : /\ Goto(t, "enable_store", [Nothing EXCEPT !.code = s])
                               /\ made' = made \cup {s}
  /\ UNCHANGED <<stored, lists, handed, spent, clash>>
EnableCheck(t) ==
  /\ pc[t] = "idle"
  /\ secret = None
  /\ \E s \in Secrets \ made : /\ Goto(t, "enable_store", [Nothing EXCEPT !.code = s])
                               /\ made' = made \cup {s}
  /\ UNCHANGED <<stored, lists, handed, spent, clash>>

\* An upsert, whatever row is there by now.
EnableStore(t) ==
  /\ pc[t] = "enable_store"
  /\ secret' = arg[t].code
  /\ Return(t)
  /\ UNCHANGED <<scope, codes, history>>

\* The recovery codes stay, and work against the next secret.
Disable ==
  /\ secret' = None
  /\ UNCHANGED <<scope, codes, local, history>>

-----------------------------------------------------------------------------
(* generate_totp_recovery_codes and totp_recover *)

Generate ==
  /\ lists < MaxLists
  /\ lists' = lists + 1
  /\ codes' = CodesOf(lists')
  /\ handed' = codes'
  /\ spent' = {}
  /\ clash' = (Recovering # {})
  /\ UNCHANGED <<secret, scope, local, made>>

\* consume_recovery_code loads the list; a code it does not hold ends the call.
RecoverLoad(t, c) ==
  /\ pc[t] = "idle"
  /\ c \in codes
  /\ Goto(t, "recover_store", [Nothing EXCEPT !.code = c, !.list = codes])
  /\ clash' = (clash \/ Recovering # {})
  /\ UNCHANGED <<stored, made, lists, handed, spent>>

Without_Keeps(list, c) == list
Without(list, c) == list \ {c}

RecoverStore(t) ==
  /\ pc[t] = "recover_store"
  /\ codes' = Without(arg[t].list, arg[t].code)
  /\ spent' = spent \cup {arg[t].code}
  /\ Goto(t, "recover_secret", arg[t])
  /\ UNCHANGED <<secret, scope, made, lists, handed, clash>>

RecoverSecret(t) ==
  /\ pc[t] = "recover_secret"
  /\ secret' = None
  /\ Goto(t, "recover_codes", arg[t])
  /\ UNCHANGED <<scope, codes, history>>

RecoverCodes(t) ==
  /\ pc[t] = "recover_codes"
  /\ codes' = {}
  /\ handed' = {} /\ spent' = {}
  /\ Return(t)
  /\ UNCHANGED <<secret, scope, made, lists, clash>>

-----------------------------------------------------------------------------
(* export_seed and export_privkey, past the password *)

Enrolled == secret # None

ExportCheck(t, code) ==
  /\ pc[t] = "idle"
  /\ Goto(t, IF Enrolled THEN "export_load" ELSE "reveal", [Nothing EXCEPT !.code = code])
  /\ UNCHANGED <<stored, history>>

\* A secret that has gone since the check is an error, not a pass.
Passes(t) == secret # None /\ arg[t].code = secret

ExportLoad(t) ==
  /\ pc[t] = "export_load"
  /\ IF Passes(t) THEN Goto(t, "reveal", arg[t]) ELSE Return(t)
  /\ UNCHANGED <<stored, history>>

Reveal(t) ==
  /\ pc[t] = "reveal"
  /\ Return(t)
  /\ UNCHANGED <<stored, history>>

-----------------------------------------------------------------------------
(* set_totp_scope, past the password *)

Lowers(new) == scope = "tx" /\ new = "login"

ScopeCheck(t, new, code) ==
  /\ pc[t] = "idle"
  /\ Goto(t, IF Lowers(new) THEN "scope_load" ELSE "scope_store",
          [Nothing EXCEPT !.code = code, !.scope = new])
  /\ UNCHANGED <<stored, history>>

ScopeLoad(t) ==
  /\ pc[t] = "scope_load"
  /\ IF Passes(t) THEN Goto(t, "scope_store", arg[t]) ELSE Return(t)
  /\ UNCHANGED <<stored, history>>

ScopeStore(t) ==
  /\ pc[t] = "scope_store"
  /\ scope' = arg[t].scope
  /\ Return(t)
  /\ UNCHANGED <<secret, codes, history>>

-----------------------------------------------------------------------------
\* A statement may fail at any await, and the process may die there: the call
\* ends where it is and nothing is undone.
Fail(t) ==
  /\ pc[t] # "idle"
  /\ Return(t)
  /\ UNCHANGED <<stored, history>>

Step(t) ==
  \/ EnableCheck(t) \/ EnableStore(t)
  \/ \E c \in codes : RecoverLoad(t, c)
  \/ RecoverStore(t) \/ RecoverSecret(t) \/ RecoverCodes(t)
  \/ \E code \in Secrets \cup {None} : ExportCheck(t, code)
  \/ ExportLoad(t) \/ Reveal(t)
  \/ \E new \in Scopes, code \in Secrets \cup {None} : ScopeCheck(t, new, code)
  \/ ScopeLoad(t) \/ ScopeStore(t)
  \/ Fail(t)

Next == (Disable \/ Generate \/ \E t \in Tasks : Step(t)) /\ Witness
Spec == Init /\ [][Next]_vars

-----------------------------------------------------------------------------
Places == {"idle", "enable_store", "recover_store", "recover_secret", "recover_codes",
           "export_load", "reveal", "scope_load", "scope_store"}

\* Rows and locals hold what their columns and types allow.
TypeOK ==
  /\ secret \in made \cup {None} /\ scope \in Scopes /\ codes \subseteq AllCodes
  /\ pc \in [Tasks -> Places]
  /\ arg \in [Tasks -> [code : Secrets \cup AllCodes \cup {None},
                        list : SUBSET AllCodes, scope : Scopes]]
  /\ made \subseteq Secrets /\ lists \in 0..MaxLists
  /\ handed \subseteq AllCodes /\ spent \subseteq AllCodes /\ clash \in BOOLEAN
  /\ saw \in [Tasks -> SUBSET (Secrets \cup {None} \cup Scopes)]

\* totp_recover: as long as no two writers of the list overlap, the codes that
\* work are the ones handed out last and not used yet, wherever calls fail: no
\* code lets in twice, none is lost, no list that was replaced comes back.
CodesAsHandedOut == ~clash => codes = handed \ spent

\* export_seed, export_privkey: keys are shown only to a call that gave a code
\* of a secret enrolled during the call, or that found the wallet without one.
RevealGuarded ==
  \A t \in Tasks : pc[t] = "reveal" => None \in saw[t] \/ arg[t].code \in saw[t]

\* set_totp_scope: the scope is lowered only by a call that gave a code of a
\* secret enrolled during the call, or that found it lowered already.
ByCode == \E t \in Tasks : /\ pc[t] = "scope_store" /\ pc'[t] = "idle"
                           /\ arg[t].code \in saw[t] \ {None} \/ "login" \in saw[t]

\* enable_totp: the secret an authenticator was given is replaced by another
\* only through a call during which, at some time, there was none.
ByEnrolment == \E t \in Tasks : pc[t] = "enable_store" /\ pc'[t] = "idle" /\ None \in saw[t]

-----------------------------------------------------------------------------
(* What it rests on *)

\* A call that enrols has made the secret it will store, and saw none stored;
\* one that recovers holds a recovery code.
HeldInv ==
  \A t \in Tasks :
    /\ pc[t] = "enable_store" => arg[t].code \in made /\ None \in saw[t]
    /\ pc[t] = "recover_store" => arg[t].code \in AllCodes

\* A call that will lower the scope saw it lowered or gave a code it saw stored.
ScopeGuarded ==
  \A t \in Tasks : pc[t] = "scope_store" /\ arg[t].scope = "login" =>
    "login" \in saw[t] \/ arg[t].code \in saw[t] \ {None}

\* A recovery that meets no other writer is the only one, and holds the list
\* that is stored until it writes it back.
RecoveryInv ==
  ~clash => /\ \A t, u \in Recovering : t = u
            /\ \A t \in Tasks : pc[t] = "recover_store" => arg[t].list = codes

IInv == /\ TypeOK /\ HeldInv /\ ScopeGuarded /\ RecoveryInv
        /\ CodesAsHandedOut /\ RevealGuarded
=============================================================================
