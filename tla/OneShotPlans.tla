---------------------------- MODULE OneShotPlans ----------------------------
(***************************************************************************)
(* What prepare_tx and sign_tx promise together, without the store, the    *)
(* clocks and the steps: a plan is opened once, for one wallet; while it   *)
(* is open it may be dropped or be signed, by that wallet; and a plan that *)
(* was dropped or signed never opens again.                                *)
(***************************************************************************)
CONSTANTS PlanIds, Wallets, None

VARIABLES
  owner,     \* the wallet a plan was opened for
  open,      \* the plans that may still be signed
  signedBy   \* the wallet whose key signed the plan

vars == <<owner, open, signedBy>>

Init ==
  /\ owner = [p \in PlanIds |-> None]
  /\ open = {}
  /\ signedBy = [p \in PlanIds |-> None]

\* A new plan; the store may drop others at the same time.
Prepare(p, w, dropped) ==
  /\ owner[p] = None
  /\ owner' = [owner EXCEPT ![p] = w]
  /\ open' = (open \ dropped) \cup {p}
  /\ UNCHANGED signedBy

Sign(p) ==
  /\ p \in open
  /\ signedBy' = [signedBy EXCEPT ![p] = owner[p]]
  /\ open' = open \ {p}
  /\ UNCHANGED owner

Drop(dropped) ==
  /\ open' = open \ dropped
  /\ UNCHANGED <<owner, signedBy>>

Next ==
  \/ \E p \in PlanIds, w \in Wallets, dropped \in SUBSET open : Prepare(p, w, dropped)
  \/ \E p \in PlanIds : Sign(p)
  \/ \E dropped \in SUBSET open : Drop(dropped)

Spec == Init /\ [][Next]_vars
=============================================================================
