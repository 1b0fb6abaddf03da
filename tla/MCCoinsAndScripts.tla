------------------------- MODULE MCCoinsAndScripts -------------------------
(***************************************************************************)
(* What is computed from coins, keys, scripts and blocks.  The six parts   *)
(* have nothing in common but names, so each is explored by itself: `part` *)
(* says which, and the variables of the others are 0.                      *)
(***************************************************************************)
EXTENDS Naturals, Sequences

CONSTANTS Coins, MaxCoins, Payments, Rates, Strategies, Word,
          Keys, MaxKeys, Numbers, Vetted,
          GAP_LIMIT, MAX_SCAN_ADDRESSES, Amounts, MaxSwept, MaxUser,
          Blocks, Other, MaxBranch, Calls, Byte, Width, MaxExponent,
          Data, MaxPieces, TXID_LENGTH,
          Providers, Tickers, Currencies, Dollar, FeeUnits, TxSizes, Handles

\* A gap, a scan and an unspent coin are of something.
SweepAssumption ==
  /\ GAP_LIMIT \in Nat \ {0} /\ MAX_SCAN_ADDRESSES \in Nat \ {0}
  /\ Amounts \subseteq Nat \ {0} /\ MaxUser \in Nat
ASSUME SweepAssumption

\* There are providers; a fee is of satoshis for bytes, and a transaction has some.
QuotesAssumption ==
  /\ Providers \in Seq({Providers[i] : i \in DOMAIN Providers}) /\ Len(Providers) > 0
  /\ Word \in Nat \ {0} /\ TxSizes \subseteq Nat \ {0}
  /\ FeeUnits \subseteq [satoshis : Nat, bytes : Nat]
ASSUME QuotesAssumption

VARIABLES part, coins, change, status, pc, kind,   \* shared by some
          request, fee, selected,
          public_keys, threshold, vetted, signing, flaw, key_idx, unlocking,
          ip, stack, alt, skipping, number,
          active, restored, imports, index, last, found, answered, failed,
          dest, paid, outcome, user, meddled,
          block, header_store, verdict, proof, met, bits,
          pieces, call, asked, result

selection == <<request, fee, selected>>
multisig == <<public_keys, threshold, vetted, signing, flaw, key_idx, unlocking,
              ip, stack, alt, skipping, number>>
sweep == <<active, restored, imports, index, last, found, answered, failed,
           dest, paid, outcome, user, meddled>>
spv == <<block, header_store, verdict, proof, met, bits>>
outside == <<call, asked, result>>
vars == <<part, coins, change, status, pc, kind, selection, multisig, sweep, spv, pieces, outside>>

CS == INSTANCE CoinSelection
MS == INSTANCE MultisigSpend
LS == INSTANCE LegacySweep WITH MaxCoins <- MaxSwept
SP == INSTANCE SpvProof
SD == INSTANCE ScriptDecoding
OS == INSTANCE OutsideServices

\* No coins, no payments and no bytes at a rate come to 2^64 satoshis, so that
\* amounts do not wrap.  All there are is far less; a rate the code does not bound.
SelectionAssumption ==
  /\ MaxCoins \in Nat \ {0} /\ Word \in Nat \ {0} /\ Rates \subseteq Nat
  /\ \A c \in Coins : c.value \in Nat
  /\ \A w \in CS!Wallets : CS!Total([i \in DOMAIN w |-> w[i].value]) < Word
  /\ \A p \in Payments : p \in Seq(Nat) /\ CS!Total(p) < Word
  /\ \A p \in Payments, rate \in Rates :
       \A inputs \in 0 .. MaxCoins, outputs \in 1 .. Len(p) + 2 :
         (10 + 148 * inputs + 34 * outputs) * rate < Word
ASSUME SelectionAssumption

\* A digit has more than one value, a target more digits than a mantissa, and
\* Other is the name of no transaction of a block.
SpvAssumption ==
  /\ Byte \in Nat /\ Byte > 1 /\ Width \in Nat /\ Width >= 3 /\ MaxExponent \in Nat
  /\ MaxBranch \in Nat
  /\ \A b \in Blocks : b \in Seq({b[i] : i \in DOMAIN b}) /\ \A i \in DOMAIN b : b[i] # Other
ASSUME SpvAssumption

\* Numbers to encode, and so thresholds, are of four bytes; "nobody" has no key.
MultisigAssumption ==
  /\ \A v \in Numbers \cup 0..MaxKeys : v \in Nat /\ MS!Shifts(v)[4] < 256
  /\ MaxKeys \in Nat \ {0}
  /\ "nobody" \notin Keys /\ Vetted \subseteq BOOLEAN
ASSUME MultisigAssumption

-----------------------------------------------------------------------------
NoSelection == request = 0 /\ fee = 0 /\ selected = 0
NoMultisig == /\ public_keys = 0 /\ threshold = 0 /\ vetted = 0 /\ signing = 0 /\ flaw = 0
              /\ key_idx = 0 /\ unlocking = 0 /\ ip = 0 /\ stack = 0 /\ alt = 0
              /\ skipping = 0 /\ number = 0
NoSweep == /\ active = 0 /\ restored = 0 /\ imports = 0 /\ index = 0 /\ last = 0 /\ found = 0
           /\ answered = 0 /\ failed = 0 /\ dest = 0 /\ paid = 0 /\ outcome = 0
           /\ user = 0 /\ meddled = 0
NoOutside == call = 0 /\ asked = 0 /\ result = 0
NoSpv == block = 0 /\ header_store = 0 /\ verdict = 0 /\ proof = 0 /\ met = 0 /\ bits = 0

Init ==
  \/ /\ part = "selection" /\ CS!Init
     /\ pc = 0 /\ kind = 0 /\ NoMultisig /\ NoSweep /\ NoSpv /\ pieces = 0 /\ NoOutside
  \/ /\ part = "multisig" /\ MS!Init
     /\ coins = 0 /\ change = 0 /\ pc = 0 /\ kind = 0 /\ NoSelection /\ NoSweep /\ NoSpv /\ pieces = 0 /\ NoOutside
  \/ /\ part = "sweep" /\ LS!Init
     /\ status = 0 /\ kind = 0 /\ NoSelection /\ NoMultisig /\ NoSpv /\ pieces = 0 /\ NoOutside
  \/ /\ part = "spv" /\ SP!Init
     /\ coins = 0 /\ change = 0 /\ status = 0 /\ NoSelection /\ NoMultisig /\ NoSweep /\ pieces = 0 /\ NoOutside
  \/ /\ part = "decoding" /\ SD!Init
     /\ coins = 0 /\ change = 0 /\ status = 0 /\ pc = 0
     /\ NoSelection /\ NoMultisig /\ NoSweep /\ NoSpv /\ NoOutside
  \/ /\ part = "outside" /\ OS!Init
     /\ coins = 0 /\ change = 0 /\ status = 0 /\ pc = 0 /\ kind = 0
     /\ NoSelection /\ NoMultisig /\ NoSweep /\ NoSpv /\ pieces = 0

Next ==
  /\ \/ /\ part = "selection" /\ CS!Next /\ UNCHANGED <<pc, kind, multisig, sweep, spv, pieces, outside>>
     \/ /\ part = "multisig" /\ MS!Next
        /\ UNCHANGED <<coins, change, pc, kind, selection, sweep, spv, pieces, outside>>
     \/ /\ part = "sweep" /\ LS!Next /\ UNCHANGED <<status, kind, selection, multisig, spv, pieces, outside>>
     \/ /\ part = "spv" /\ SP!Next
        /\ UNCHANGED <<coins, change, status, selection, multisig, sweep, pieces, outside>>
     \/ /\ part = "decoding" /\ SD!Next
        /\ UNCHANGED <<coins, change, status, pc, selection, multisig, sweep, spv, outside>>
     \/ /\ part = "outside" /\ OS!Next
        /\ UNCHANGED <<coins, change, status, pc, kind, selection, multisig, sweep, spv, pieces>>
  /\ UNCHANGED part
Spec == Init /\ [][Next]_vars

-----------------------------------------------------------------------------
(* What each part promises, its type invariant included. *)

\* build_unsigned: a built transaction pays the rate for its own bytes, whatever
\* the strategy and wherever the loop over the fee ended.
PaysItsWay == part = "selection" => CS!TypeOK /\ CS!PaysItsWay

\* build_unsigned, largest first: no smaller set of coins could have paid, and
\* funds are insufficient only if no set at all can.
LargestIsBest == part = "selection" => CS!FewestInputs /\ CS!ShortOnlyIfUnpayable

\* build_unsigned: the loop over the fee cannot oscillate.
FeeOnlyRises ==
  [][part = "selection" /\ status = "selecting" /\ status' = "selecting" => fee' > fee]_vars

\* to_script_bytes, build_unlocking_script: any m of the n keys spend the output,
\* fewer do not, and a node reads the numbers and lengths that were encoded.
MultisigSound ==
  part = "multisig" =>
    /\ MS!TypeOK /\ MS!ThresholdUnlocks /\ MS!NothingLess
    /\ status = "new" => MS!EncodingsRead

\* sweep_legacy_to_new: the scan misses no coin within the gaps, all it found
\* goes, less the fee, and undisturbed it goes to the wallet just restored.
SweepSound ==
  part = "sweep" => LS!TypeOK /\ LS!ScanMissesNothing /\ LS!SweepIsWhole /\ LS!IntoNewWallet

\* verify_transaction_proof, check_pow: a transaction is verified if and only if
\* it is in the block where it is said to be, the store that says so is found by
\* a command that runs alone, and a target is the number its bits encode.
ProofsSound ==
  part = "spv" =>
    /\ SP!TypeOK /\ SP!ProofSound /\ SP!ProofComplete /\ SP!AloneHasStore
    /\ block = <<>> => SP!TargetIsItsNumber

\* extract_data_chunks and its two relatives, detect_ordinal_inscription: what
\* was pushed is read back, by all three loops, and an envelope as written.
DecodingSound ==
  part = "decoding" => SD!TypeOK /\ SD!DataComesBack /\ SD!ParsersAgree /\ SD!EnvelopeRead

\* ExchangeRateService, fetch_default_fee_rate: rates are those of the first
\* provider that has any, and there always is a fee rate, one that is enough for
\* the miner that quoted it.
QuotesSound == part = "outside" => OS!TypeOK /\ OS!FirstGoodAnswer /\ OS!FeeCoversQuote

-----------------------------------------------------------------------------
(* Instances *)

\* Two keys: 100 is less than the 148 bytes such a coin costs to spend.
TwoKeys == [value : {100, 374, 900}, key : {"k1", "k2"}]

\* 640 and the fee for three outputs at rate 1 are exactly one coin of 900; the
\* last payment is so near the end of the word that a fee takes it over.
SomePayments == {<<300>>, <<99970>>, <<0>>, <<200, 440>>, <<200, 500>>}
EveryStrategy == {"largest_first", "branch_and_bound", "random_subset", "privacy"}

\* On both sides of every change of encoding.
Boundaries == {1, 16, 17, 75, 76, 127, 128, 255, 256, 32767, 32768, 65535, 65536, 8388608}

\* Blocks without a transaction, with one, and with a full and an uneven tree.
SomeBlocks == {SubSeq(<<"a", "b", "c", "d">>, 1, n) : n \in {0, 1, 3, 4}}

\* Two markers, a prefix in lower case with more after it, an envelope's bytes
\* and as many bytes as a transaction id has.
SomeData == {<<200>>, <<220>>, <<212, 7>>, <<0, 99>>, <<7, 7>>}

\* The order of ExchangeRateService::new.
SixProviders == <<"coingecko", "bitpay", "coinbase", "bitfinex", "coinpaprika", "coincap">>

\* One satoshi a byte and half of one, one and a half, no bytes at all, and so
\* much that the fee of a large transaction is cut off at the end of the word.
SomeUnits == {[satoshis |-> 1, bytes |-> 1], [satoshis |-> 500, bytes |-> 1000],
              [satoshis |-> 3, bytes |-> 2], [satoshis |-> 50, bytes |-> 0],
              [satoshis |-> 0, bytes |-> 1000], [satoshis |-> 60000, bytes |-> 1]}

SomeHandles == [ats : {0, 1, 2}, local : {"good", "bad"}, domain : {"good", "bad"},
                padded : {"no", "before", "after"}]
=============================================================================
