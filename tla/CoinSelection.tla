--------------------------- MODULE CoinSelection ---------------------------
(***************************************************************************)
(* TxBuilder::build_unsigned (core/transaction.rs) and the coin chooser it *)
(* may delegate to (core/coinchooser.rs): which coins a payment spends and *)
(* which fee it pays.  Largest-first selects again until the fee fits the  *)
(* coins selected; the other strategies choose once and the fee is         *)
(* recomputed afterwards.  Amounts are u64 and wrap in release builds,     *)
(* which Wrap keeps with a small word.                                     *)
(***************************************************************************)
EXTENDS Integers, SequencesExt

CONSTANTS
  Coins,       \* the coins a wallet may hold: records with a value and a key
  MaxCoins,    \* bound on the number of coins, for TLC
  Payments,    \* the amounts of the outputs of a request, as sequences
  Rates,       \* fee rates, in satoshis per byte
  Strategies,  \* the strategies a request may name
  Word         \* 2^64 in the code

VARIABLES
  coins,     \* the account's UTXOs
  request,   \* what prepare_tx was asked: payments, op_return, rate, strategy
  status,    \* where build_unsigned is, or how it ended
  fee,       \* the fee selected with
  selected,  \* the indices of the coins of the built transaction
  change     \* its change output, 0 for none

vars == <<coins, request, status, fee, selected, change>>

Requests == [payments : Payments, op_return : BOOLEAN, rate : Rates, strategy : Strategies]
Ended == {"done", "InsufficientFunds", "NoUtxos", "InvalidOutput"}

Wrap(n) == n % Word
Total(amounts) ==
  LET sum[i \in 0 .. Len(amounts)] == IF i = 0 THEN 0 ELSE sum[i - 1] + amounts[i]
  IN  sum[Len(amounts)]
Value(S) == Total([i \in DOMAIN coins |-> IF i \in S THEN coins[i].value ELSE 0])
All == DOMAIN coins

Paid == Total(request.payments)
total_payment == Wrap(Paid)

\* The outputs of the request; prepare_tx always has a change address, and the
\* change output is counted whether it will be needed or not.
DataOutputs == Len(request.payments) + IF request.op_return THEN 1 ELSE 0
num_outputs == DataOutputs + 1

estimate_fee(inputs, outputs) == Wrap((10 + 148 * inputs + 34 * outputs) * request.rate)

Wallets == UNION {[1 .. n -> Coins] : n \in 0 .. MaxCoins}

Init ==
  /\ coins \in Wallets
  /\ request \in Requests
  /\ status = "start"
  /\ fee = 0
  /\ selected = {}
  /\ change = 0

-----------------------------------------------------------------------------
(* Steps *)

Stop(error) == status' = error /\ UNCHANGED <<fee, selected, change>>

Finish(S, f) ==
  /\ status' = "done"
  /\ fee' = f
  /\ selected' = S
  /\ change' = Value(S) - (total_payment + f)

Start ==
  /\ status = "start"
  /\ IF total_payment = 0
     THEN Stop("InvalidOutput")
     ELSE /\ status' = "selecting"
          /\ fee' = estimate_fee(1, num_outputs)
          /\ UNCHANGED <<selected, change>>
  /\ UNCHANGED <<coins, request>>

\* The order of sort_by: by value, downwards; stable.
Larger_Ascending(i, j) == \/ coins[i].value < coins[j].value
                          \/ coins[i].value = coins[j].value /\ i < j
Larger(i, j) == \/ coins[i].value > coins[j].value
                \/ coins[i].value = coins[j].value /\ i < j
Largest(n) == {i \in All : Cardinality({j \in All : Larger(j, i)}) < n}

\* The fewest of the largest coins that are enough; {} if none are.
FirstLargest(enough) ==
  LET counts == {n \in 1 .. Len(coins) : Largest(n) \in enough}
  IN  IF counts = {} THEN {} ELSE Largest(Min(counts))

\* CoinSelector::select for the fee assumed so far.
Covering == FirstLargest({S \in SUBSET All : Value(S) >= total_payment + fee})

\* The fee of the transaction that spends S.
FeeFor_ChangeIfAny(S) ==
  estimate_fee(Cardinality(S),
               DataOutputs + IF Value(S) > total_payment + fee THEN 1 ELSE 0)
FeeFor(S) == estimate_fee(Cardinality(S), num_outputs)

\* One round of the loop: done once the fee is that of the coins selected.
Select ==
  /\ status = "selecting" /\ request.strategy = "largest_first"
  /\ \/ coins = <<>> /\ Stop("NoUtxos")
     \/ coins # <<>> /\ total_payment + fee >= Word /\ Stop("InvalidOutput")
     \/ /\ coins # <<>> /\ total_payment + fee < Word
        /\ \/ Covering = {} /\ Stop("InsufficientFunds")
           \/ Covering # {} /\ FeeFor(Covering) = fee /\ Finish(Covering, fee)
           \/ /\ Covering # {} /\ FeeFor(Covering) # fee
              /\ fee' = FeeFor(Covering)
              /\ UNCHANGED <<status, selected, change>>
  /\ UNCHANGED <<coins, request>>

-----------------------------------------------------------------------------
(* CoinChooser: what it may return, as sets of coins; no set for an error *)

\* The chooser's own idea of the fee leaves the outputs out.
Sufficient(S) ==
  Value(S) >= Wrap(total_payment + Wrap((10 + 148 * Cardinality(S)) * request.rate))

\* select_bnb: the sums nearest above the payment, and at most a change
\* output's cost above it.  A tie goes either way.  BNB_MAX_ROUNDS is out of
\* reach of the few coins here.
ChangeLimit == total_payment + Wrap(34 * request.rate)
BnbMatches == {S \in SUBSET All :
  /\ Value(S) >= total_payment
  /\ Value(S) <= ChangeLimit}
fallback_largest_first == {FirstLargest({S \in SUBSET All : Sufficient(S)})} \ {{}}
BnbChoices ==
  IF BnbMatches # {}
  THEN {S \in BnbMatches : \A T \in BnbMatches : Value(S) <= Value(T)}
  ELSE fallback_largest_first

\* bucketize: the coins of each key go together.
BucketKeys == {coins[i].key : i \in All}
Holding(K) == {i \in All : coins[i].key \in K}
Affords(K) == Sufficient(Holding(K))

\* strip_unneeded: in ascending order, stop at the first bucket whose removal
\* leaves too little.  Buckets of equal value come in either order.
Ascending(K) == {s \in SetToSeqs(K) : \A i, j \in DOMAIN s :
                   i < j => Value(Holding({s[i]})) <= Value(Holding({s[j]}))}
From(s, i) == ToSet(SubSeq(s, i, Len(s)))
Stripped(K) == {From(s, Min({i \in DOMAIN s : ~Affords(From(s, i + 1))})) : s \in Ascending(K)}

\* bucket_candidates for one permutation: its first prefix that affords the payment.
FirstAfforded(p) ==
  LET enough == {K \in {ToSet(q) : q \in Prefixes(p)} : Affords(K)}
  IN  {K \in enough : \A L \in enough : Cardinality(K) <= Cardinality(L)}
\* The shuffles are a hash of the coins: any permutations may be the ones tried.
Shuffles == SUBSET SetToSeqs(BucketKeys) \ {{}}
Candidates(tried) ==
  {{k} : k \in {k \in BucketKeys : Affords({k})}}
    \cup UNION {Stripped(K) : K \in UNION {FirstAfforded(p) : p \in tried}}

penalty_simple(K) == Cardinality(K) - 1
penalty_privacy(K) ==
  LET max_change == (total_payment * 3) \div 2
      excess == Max({Value(Holding(K)) - total_payment, 0})
  IN  penalty_simple(K) + IF excess > max_change
                          THEN (excess - max_change) \div (max_change + 10000)
                                 + excess \div 500000000
                          ELSE 0
Penalty(K) == IF request.strategy = "privacy" THEN penalty_privacy(K) ELSE penalty_simple(K)

RandomChoices(tried) ==
  {Holding(K) : K \in {K \in Candidates(tried) :
     \A L \in Candidates(tried) : Penalty(K) <= Penalty(L)}}

\* The part of build_unsigned after the chooser: the fee of the real outputs.
Reconcile_ChooserFee(S) ==
  Finish(S, Wrap((10 + 148 * Cardinality(S)) * request.rate))
Reconcile(S) ==
  \/ /\ total_payment + FeeFor(S) >= Word
     /\ Stop("InvalidOutput")
  \/ /\ total_payment + FeeFor(S) < Word /\ Value(S) < total_payment + FeeFor(S)
     /\ Stop("InsufficientFunds")
  \/ /\ total_payment + FeeFor(S) < Word /\ Value(S) >= total_payment + FeeFor(S)
     /\ Finish(S, FeeFor(S))

Conclude(choices) ==
  \/ choices = {} /\ Stop("InsufficientFunds")
  \/ \E S \in choices : Reconcile(S)

ChooseBnb ==
  /\ status = "selecting" /\ request.strategy = "branch_and_bound"
  /\ \/ coins = <<>> /\ Stop("NoUtxos")
     \/ coins # <<>> /\ ChangeLimit >= Word /\ Stop("InvalidOutput")
     \/ coins # <<>> /\ ChangeLimit < Word /\ Conclude(BnbChoices)
  /\ UNCHANGED <<coins, request>>

ChooseRandom ==
  /\ status = "selecting" /\ request.strategy \in {"random_subset", "privacy"}
  /\ IF coins = <<>>
     THEN Stop("NoUtxos")
     ELSE \E tried \in Shuffles : Conclude(RandomChoices(tried))
  /\ UNCHANGED <<coins, request>>

Next == Start \/ Select \/ ChooseBnb \/ ChooseRandom

Spec == Init /\ [][Next]_vars

-----------------------------------------------------------------------------
(* Properties *)

TypeOK ==
  /\ coins \in Wallets
  /\ request \in Requests
  /\ status \in Ended \cup {"start", "selecting"}
  /\ fee \in 0 .. Word - 1
  /\ selected \subseteq All
  /\ change \in 0 .. Word - 1

\* A transaction that was built pays for its bytes: what its inputs hold beyond
\* its outputs is at least the rate times its size, with the outputs it really
\* has, whichever strategy chose the coins (transaction.rs:307-455).
PaysItsWay ==
  LET outputs == DataOutputs + IF change > 0 THEN 1 ELSE 0 IN
  status = "done" =>
    Value(selected) - Paid - change
      >= request.rate * (10 + 148 * Cardinality(selected) + 34 * outputs)

\* Whether the coins of S pay for the request and for their own bytes.
CanPay(S) ==
  Value(S) >= Paid + request.rate * (10 + 148 * Cardinality(S) + 34 * num_outputs)

\* "minimizes the number of inputs" (transaction.rs:117): although the fee is
\* found by repetition, no smaller set of coins could have paid.
FewestInputs ==
  status = "done" /\ request.strategy = "largest_first" =>
    \A S \in SUBSET All : CanPay(S) => Cardinality(S) >= Cardinality(selected)

\* Funds are called insufficient only if no choice of coins can pay, even where
\* some coins cost more to spend than they hold (transaction.rs:309-330).
ShortOnlyIfUnpayable ==
  status = "InsufficientFunds" /\ request.strategy = "largest_first" =>
    \A S \in SUBSET All : ~CanPay(S)

\* The loop has no bound on its rounds: "In theory it could oscillate"
\* (KNOWN_ISSUES.md:79).  It does not: from round to round the fee only rises,
\* and it is the fee of one of finitely many numbers of coins.
FeeOnlyRises == [][status = "selecting" /\ status' = "selecting" => fee' > fee]_vars

\* Between two rounds the fee is that of some number of coins, and no fewer
\* coins could have paid.
RoundInv ==
  status = "selecting" =>
    /\ total_payment > 0
    /\ request.strategy = "largest_first" =>
         \E n \in 1 .. MaxCoins :
           /\ fee = estimate_fee(n, num_outputs)
           /\ \A S \in SUBSET All : CanPay(S) => Cardinality(S) >= n

\* What every step preserves.
IInv == TypeOK /\ RoundInv /\ PaysItsWay /\ FewestInputs /\ ShortOnlyIfUnpayable
=============================================================================
