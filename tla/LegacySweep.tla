---------------------------- MODULE LegacySweep ----------------------------
(***************************************************************************)
(* commands/restore.rs: a wallet of the old ElectrumSV is restored as a    *)
(* new wallet, and its coins are swept into that.  restore_legacy_wallet   *)
(* and sweep_legacy_to_new await the database and the network all the      *)
(* time; the user may open, unlock and close wallets in between.           *)
(*                                                                         *)
(* A legacy address is <<change, index>> and holds one coin at most; the   *)
(* coin is named by its address.  A signature is valid when the key of the *)
(* coin an input spends made it, and a server takes valid transactions.    *)
(***************************************************************************)
EXTENDS Integers, SequencesExt, FiniteSetsExt

CONSTANTS
  GAP_LIMIT,            \* 20 in the code
  MAX_SCAN_ADDRESSES,   \* 10,000 in the code
  Amounts,              \* what a coin may be worth, in satoshis
  MaxCoins,             \* bound: coins on the legacy addresses
  MaxUser               \* bound: other wallet commands

VARIABLES
  coins,       \* the chain: the worth of the unspent coin of each address, 0: none
  active,      \* AppState.active_wallet: which wallet, and is it unlocked
  restored,    \* the new wallet's file exists
  imports,     \* the wallets legacy keys were imported into
  pc,          \* where the one call of restore or sweep is
  change, index, last,   \* sweep: the scan; last_found_index, -1: None
  found,       \* sweep: found_utxos
  answered, failed,      \* sweep: query_successes # 0, query_failures # 0
  dest,        \* sweep: the wallet whose address is paid
  paid,        \* history: what the sweep that went through paid, to whom, for which coins
  outcome,     \* history: how the last call ended
  user,        \* history: other wallet commands so far
  meddled      \* history: one of them came while a call was on its way

scan == <<change, index, last, found, answered, failed>>
session == <<active, restored, imports>>
past == <<paid, outcome, user, meddled>>
vars == <<coins, session, pc, scan, dest, past>>

Addresses == (0..1) \X (0..MAX_SCAN_ADDRESSES - 1)
NoWallet == [wallet |-> "none", unlocked |-> FALSE]
NotPaid == [amount |-> 0, to |-> "none", from |-> {}]

Init ==
  /\ \E held \in UNION {kSubset(n, Addresses) : n \in 0..MaxCoins} :
       \E worth \in [held -> Amounts] :
         coins = [a \in Addresses |-> IF a \in held THEN worth[a] ELSE 0]
  /\ active = NoWallet /\ restored = FALSE /\ imports = {}
  /\ pc = "idle" /\ change = 0 /\ index = 0 /\ last = -1
  /\ found = <<>> /\ answered = FALSE /\ failed = FALSE /\ dest = "none"
  /\ paid = NotPaid /\ outcome = "none" /\ user = 0 /\ meddled = FALSE

End(how) ==
  /\ pc' = "idle" /\ outcome' = how
  /\ change' = 0 /\ index' = 0 /\ last' = -1
  /\ found' = <<>> /\ answered' = FALSE /\ failed' = FALSE /\ dest' = "none"

-----------------------------------------------------------------------------
(* restore_legacy_wallet *)

\* create_wallet leaves the new wallet open and unlocked (module WalletFiles).
Restore ==
  /\ pc = "idle" /\ ~restored
  /\ restored' = TRUE
  /\ active' = [wallet |-> "new", unlocked |-> TRUE]
  /\ pc' = "import" /\ outcome' = "none" /\ meddled' = FALSE
  /\ UNCHANGED <<coins, imports, scan, dest, paid, user>>

\* The keys go to whichever wallet is open now; those that cannot be derived or
\* inserted are passed over.
Import ==
  /\ pc = "import"
  /\ IF active.wallet = "none"
     THEN End("no wallet") /\ UNCHANGED imports
     ELSE End("restored") /\ imports' = imports \cup {active.wallet}
  /\ UNCHANGED <<coins, active, restored, paid, user, meddled>>

-----------------------------------------------------------------------------
(* sweep_legacy_to_new: the scan *)

Sweep ==
  /\ pc = "idle" /\ restored /\ paid = NotPaid
  /\ pc' = "scan" /\ outcome' = "none" /\ meddled' = FALSE
  /\ UNCHANGED <<coins, session, scan, dest, paid, user>>

\* The gap is over once so many addresses in a row held nothing.
GapOver(i, l) == IF l = -1 THEN i + 1 >= GAP_LIMIT ELSE i - l >= GAP_LIMIT

\* A query that fails counts as an address that holds nothing.
Query(ok) ==
  LET a == <<change, index>>
      hit == ok /\ coins[a] # 0
      now == IF hit THEN index ELSE last
      over == GapOver(index, now) \/ index + 1 >= MAX_SCAN_ADDRESSES
  IN /\ pc = "scan"
     /\ answered' = (answered \/ ok) /\ failed' = (failed \/ ~ok)
     /\ found' = IF hit THEN Append(found, a) ELSE found
     /\ change' = IF over THEN change + 1 ELSE change
     /\ index' = IF over THEN 0 ELSE index + 1
     /\ last' = IF over THEN -1 ELSE now
     /\ pc' = IF over /\ change = 1 THEN "scanned" ELSE "scan"
     /\ UNCHANGED <<coins, session, dest, past>>

-----------------------------------------------------------------------------
(* ... and the wallet *)

Worth(s) == FoldSeq(LAMBDA a, sum : coins[a] + sum, 0, s)

\* open_wallet does nothing to a wallet that is open already.
OpenNew == IF active.wallet = "new" THEN active ELSE [wallet |-> "new", unlocked |-> FALSE]

Open ==
  /\ pc = "scanned"
  /\ CASE ~answered -> End("no answer") /\ UNCHANGED active
       [] answered /\ found = <<>> -> End("nothing to sweep") /\ UNCHANGED active
       [] OTHER -> /\ active' = OpenNew
                   /\ pc' = "unlock"
                   /\ UNCHANGED <<scan, dest, outcome>>
  /\ UNCHANGED <<coins, restored, imports, paid, user, meddled>>

Unlock ==
  /\ pc = "unlock"
  /\ CASE active.wallet = "none" -> End("no wallet") /\ UNCHANGED active
       [] active.unlocked -> End("already unlocked") /\ UNCHANGED active
       [] OTHER -> /\ active' = [active EXCEPT !.unlocked = TRUE]
                   /\ pc' = "address"
                   /\ UNCHANGED <<scan, dest, outcome>>
  /\ UNCHANGED <<coins, restored, imports, paid, user, meddled>>

Address ==
  /\ pc = "address"
  /\ IF active.unlocked
     THEN dest' = active.wallet /\ pc' = "build" /\ UNCHANGED <<scan, outcome>>
     ELSE End("no wallet")
  /\ UNCHANGED <<coins, session, paid, user, meddled>>

-----------------------------------------------------------------------------
(* ... and the transaction *)

\* One satoshi and change, at one satoshi per byte.
estimate_fee(n) == 10 + 148 * n + 2 * 34
LargestFirst == SortSeq(found, LAMBDA a, b : coins[a] > coins[b])
Suffices(n) == Worth(SubSeq(LargestFirst, 1, n)) >= 1 + estimate_fee(n)
Affordable == \E n \in 1..Len(found) : Suffices(n)
\* build_unsigned with its default selection (module CoinSelection).
Inputs == SubSeq(LargestFirst, 1, Min({n \in 1..Len(found) : Suffices(n)}))

\* Input i is signed with the key of the i-th coin found, for all of them.
Signed_Inputs == TRUE
Signed == Len(found) <= Len(Inputs)
Valid(i) == Inputs[i] = found[i]

\* The one output takes everything but the fee, which has to leave something.
sweep_amount == Worth(Inputs) - estimate_fee(Len(Inputs))
Payable == Affordable /\ sweep_amount > 0

Accepted == \A i \in 1..Min({Len(Inputs), Len(found)}) : Valid(i)

Spent == [a \in Addresses |-> IF a \in Range(Inputs) THEN 0 ELSE coins[a]]

\* A server may take the transaction and its answer be lost.
Build ==
  /\ pc = "build"
  /\ \/ /\ ~Payable
        /\ active' = IF Affordable THEN NoWallet ELSE active
        /\ End("insufficient funds") /\ UNCHANGED <<coins, paid>>
     \/ /\ Payable /\ ~Signed
        /\ End("cannot sign") /\ UNCHANGED <<coins, active, paid>>
     \/ /\ Payable /\ Signed
        /\ UNCHANGED coins \/ (Accepted /\ coins' = Spent)
        /\ End("broadcast failed") /\ UNCHANGED <<active, paid>>
     \/ /\ Payable /\ Signed /\ Accepted
        /\ coins' = Spent
        /\ paid' = [amount |-> sweep_amount, to |-> dest, from |-> Range(found)]
        /\ active' = NoWallet
        /\ End("swept")
  /\ UNCHANGED <<restored, imports, user, meddled>>

-----------------------------------------------------------------------------
\* The user's other commands: a wallet is opened, unlocked or closed.
User ==
  /\ user < MaxUser
  /\ user' = user + 1
  /\ meddled' = (meddled \/ pc # "idle")
  /\ \/ active' = NoWallet
     \/ active' = [wallet |-> "other", unlocked |-> FALSE]
     \/ restored /\ active' = OpenNew
     \/ active.wallet # "none" /\ active' = [active EXCEPT !.unlocked = TRUE]
  /\ UNCHANGED <<coins, restored, imports, pc, scan, dest, paid, outcome>>

Next ==
  \/ Restore \/ Import \/ Sweep \/ (\E ok \in BOOLEAN : Query(ok))
  \/ Open \/ Unlock \/ Address \/ Build \/ User
Spec == Init /\ [][Next]_vars

-----------------------------------------------------------------------------
TypeOK ==
  /\ coins \in [Addresses -> Amounts \cup {0}]
  /\ active \in [wallet : {"none", "new", "other"}, unlocked : BOOLEAN]
  /\ active.wallet = "new" => restored
  /\ change \in 0..2 /\ index \in 0..MAX_SCAN_ADDRESSES /\ last \in -1..MAX_SCAN_ADDRESSES
  /\ found \in Seq(Addresses) /\ dest \in {"none", "new", "other"}
  /\ paid.to \in {"none", "new", "other"} /\ user \in 0..MaxUser

\* An address the wallet may have used: not GAP_LIMIT empty ones in a row
\* before it on its branch.
Gap(c, j) == \A k \in j..j + GAP_LIMIT - 1 : coins[<<c, k>>] = 0
NoGap(c, i) == \A j \in 0..i - GAP_LIMIT : ~Gap(c, j)
InReach(c, i) == coins[<<c, i>>] # 0 /\ NoGap(c, i)

\* sweep_legacy_to_new: a scan whose queries were all answered has found every
\* coin that no gap of GAP_LIMIT empty addresses cuts off, once.
ScanMissesNothing ==
  pc = "scanned" /\ ~failed =>
    /\ Range(found) = {a \in Addresses : InReach(a[1], a[2])}
    /\ Cardinality(Range(found)) = Len(found)

\* sweep_legacy_to_new: a sweep that goes through is a whole one: it leaves none
\* of the coins it has found behind, and all but the fee is paid out.
SweepIsWhole ==
  outcome = "swept" => /\ \A a \in paid.from : coins[a] = 0
                       /\ paid.amount > 0

\* restore_legacy_wallet, sweep_legacy_to_new: keys and coins go to the new
\* wallet, whichever was open before, unless a wallet command came in between.
IntoNewWallet ==
  /\ outcome = "restored" /\ ~meddled => imports = {"new"}
  /\ outcome = "swept" /\ ~meddled => paid.to = "new"

-----------------------------------------------------------------------------
(* What it rests on *)

\* Where a call is, and what it has in hand by then.
PlaceInv ==
  /\ pc \in {"idle", "import", "scan", "scanned", "unlock", "address", "build"}
  /\ pc # "idle" => restored /\ outcome = "none"
  /\ pc \in {"idle", "import"} =>
       change = 0 /\ index = 0 /\ last = -1 /\ found = <<>> /\ ~failed
  /\ pc = "scan" => change \in 0..1 /\ index < MAX_SCAN_ADDRESSES /\ last < index
  /\ restored \in BOOLEAN /\ (~restored \/ pc = "import" => imports = {})

\* Halfway through a scan: what is found are the coins in reach so far, the gap
\* since the last of them is not over, and no gap before it was.
ScanInv ==
  pc = "scan" /\ ~failed =>
    /\ Range(found) = {a \in Addresses : /\ InReach(a[1], a[2])
                                         /\ a[1] < change \/ (a[1] = change /\ a[2] < index)}
    /\ IsFiniteSet(Range(found)) /\ Cardinality(Range(found)) = Len(found)
    /\ NoGap(change, index)
    /\ last # -1 => coins[<<change, last>>] # 0
    /\ \A k \in last + 1..index - 1 : coins[<<change, k>>] = 0
    /\ index - last <= GAP_LIMIT

\* The new wallet is the open one, and then the one to be paid, unless somebody
\* has come in between.
UndisturbedInv ==
  ~meddled => /\ pc \in {"import", "unlock", "address"} => active.wallet = "new"
              /\ pc = "build" => dest = "new"

IInv == TypeOK /\ PlaceInv /\ ScanInv /\ UndisturbedInv
        /\ ScanMissesNothing /\ SweepIsWhole /\ IntoNewWallet
=============================================================================
