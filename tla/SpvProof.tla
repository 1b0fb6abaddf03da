------------------------------ MODULE SpvProof ------------------------------
(***************************************************************************)
(* Verifying that a transaction is in a block: verify_merkle_proof and     *)
(* check_pow of network/header_store.rs, and verify_transaction_proof with *)
(* its neighbours in commands/network.rs, which take the header store out  *)
(* of NetworkState while they await it and put it back.  Hashes are        *)
(* symbolic: a transaction id is <<name>>, hash256 of two hashes a pair.   *)
(***************************************************************************)
EXTENDS Naturals, SequencesExt, FiniteSetsExt

CONSTANTS
  Blocks,      \* blocks, as sequences of transaction names
  Other,       \* the name of a transaction of no block
  MaxBranch,   \* bound on the length of a branch the server sends
  Calls,       \* invocations in flight
  Byte, Width, \* 256 and 32 in the code: the base and the length of a target
  MaxExponent  \* bound on the exponent of compact bits

VARIABLES
  block,          \* the transaction ids of the block whose header is stored
  header_store,   \* NetworkState.header_store is there
  pc, kind,       \* of each invocation: where it is, which command it is
  verdict,        \* how each invocation ended
  proof,          \* the last verification: tx id, branch, position, verdict
  met,            \* history: the invocations others overlapped
  bits            \* compact bits to decode: exponent and mantissa

vars == <<block, header_store, pc, kind, verdict, proof, met, bits>>

-----------------------------------------------------------------------------
(* Merkle trees *)

hash256(l, r) == <<l, r>>

\* n without its last i digits: pos >> level, for base 2.
Shifted(n, base, i) ==
  LET rest[k \in 0..i] == IF k = 0 THEN n ELSE rest[k - 1] \div base
  IN  rest[i]

\* A server's tree: an odd level repeats its last hash.
Level(s) == [i \in 1..(Len(s) + 1) \div 2 |->
               hash256(s[2 * i - 1], IF 2 * i <= Len(s) THEN s[2 * i] ELSE s[2 * i - 1])]
AllLevels(s) == LET f[d \in 0..Len(s)] == IF d = 0 THEN s ELSE Level(f[d - 1]) IN f
Depth(s) == Min({d \in 0..Len(s) : Len(AllLevels(s)[d]) = 1})
Levels(s) == [d \in 1..Depth(s) + 1 |-> AllLevels(s)[d - 1]]
Root(s) == Levels(s)[Depth(s) + 1][1]
\* The partner of position p on each level below the root.
BranchOf(s, p) ==
  [d \in 1..Depth(s) |->
     LET level == Levels(s)[d]
         q == Shifted(p, 2, d - 1)
         partner == IF q % 2 = 0 THEN q + 1 ELSE q - 1
     IN  IF partner < Len(level) THEN level[partner + 1] ELSE level[q + 1]]
Nodes(s) == UNION {Range(Levels(s)[d]) : d \in DOMAIN Levels(s)}

\* Bit by bit the position says on which side the partner is.
OnLeft_Reversed(pos, level) == Shifted(pos, 2, level) % 2 = 1
OnLeft(pos, level) == Shifted(pos, 2, level) % 2 = 0
Computed(tx_hash, branch, pos) ==
  LET current[i \in 0..Len(branch)] ==
        IF i = 0 THEN tx_hash
        ELSE IF OnLeft(pos, i - 1) THEN hash256(current[i - 1], branch[i])
                                   ELSE hash256(branch[i], current[i - 1])
  IN  current[Len(branch)]
verify_merkle_proof(tx_hash, branch, pos, root) == Computed(tx_hash, branch, pos) = root

-----------------------------------------------------------------------------
(* Proof of work *)

Digit(m, i) == Shifted(m, Byte, i) % Byte   \* 0 is the low one
\* Width digits, high one first: the mantissa's three start at Width - exponent.
target_from_bits(b) ==
  CASE b.exponent \in 3..Width ->
         [i \in 1..Width |-> LET k == i - 1 - (Width - b.exponent)
                             IN  IF k \in 0..2 THEN Digit(b.mantissa, 2 - k) ELSE 0]
    [] b.exponent < 3 ->
         [i \in 1..Width |-> LET k == i - 1 - (Width - b.exponent)
                             IN  IF k \in 0..b.exponent - 1 THEN Digit(b.mantissa, 2 - k) ELSE 0]
    [] OTHER -> [i \in 1..Width |-> 0]
NumberOf(t) ==
  LET n[i \in 0..Len(t)] == IF i = 0 THEN 0 ELSE n[i - 1] * Byte + t[i]
  IN  n[Len(t)]
\* n * Byte^i
Scaled(n, i) ==
  LET power[k \in 0..i] == IF k = 0 THEN n ELSE power[k - 1] * Byte
  IN  power[i]
Lexicographic(s, t) == \E i \in 1..Width : s[i] < t[i] /\ \A j \in 1..i - 1 : s[j] = t[j]
DigitsOf(n) == [i \in 1..Width |-> Digit(n, Width - i)]
check_pow(hash, b) == Lexicographic(DigitsOf(hash), target_from_bits(b))

-----------------------------------------------------------------------------
(* Commands *)

NoProof == [tx |-> <<>>, branch |-> <<>>, pos |-> 0, verified |-> FALSE]
AllBits == [exponent : 0..MaxExponent, mantissa : 0..Scaled(1, 3) - 1]

Init ==
  /\ \E b \in Blocks : block = [i \in DOMAIN b |-> <<b[i]>>]
  /\ header_store = FALSE
  /\ pc = [c \in Calls |-> "idle"] /\ kind = [c \in Calls |-> "none"]
  /\ verdict = [c \in Calls |-> "none"] /\ proof = NoProof /\ met = {}
  /\ bits \in IF block = <<>> THEN AllBits ELSE {[exponent |-> 3, mantissa |-> 1]}  \* unrelated

Others(c) == {d \in Calls : d # c /\ pc[d] # "idle"}
Start(c, k) ==
  /\ pc[c] = "idle" /\ verdict[c] = "none" /\ block # <<>>
  /\ pc' = [pc EXCEPT ![c] = IF header_store THEN "ready" ELSE "open"]
  /\ kind' = [kind EXCEPT ![c] = k]
  /\ met' = IF Others(c) = {} THEN met ELSE met \cup {c} \cup Others(c)
  /\ UNCHANGED <<block, header_store, verdict, proof, bits>>

End(c, how) ==
  /\ pc' = [pc EXCEPT ![c] = "idle"]
  /\ verdict' = [verdict EXCEPT ![c] = how]
  /\ UNCHANGED <<block, kind, proof, met, bits>>

\* ensure_header_store: replaces whatever was put there since it looked.
Open(c) ==
  /\ pc[c] = "open"
  /\ \/ /\ header_store' = TRUE
        /\ pc' = [pc EXCEPT ![c] = "ready"]
        /\ UNCHANGED <<block, kind, verdict, proof, met, bits>>
     \/ End(c, "failed") /\ UNCHANGED header_store

\* The other two look for a client first, and verify_transaction_proof asks it.
Take(c) ==
  /\ pc[c] = "ready"
  /\ \/ /\ kind[c] # "info" /\ End(c, "failed") /\ UNCHANGED header_store
     \/ /\ header_store
        /\ header_store' = FALSE
        /\ pc' = [pc EXCEPT ![c] = "taken"]
        /\ UNCHANGED <<block, kind, verdict, proof, met, bits>>
     \/ ~header_store /\ End(c, "no store") /\ UNCHANGED header_store

\* The server has sent the right branch or any other, for whichever transaction
\* the user asked about.  The command takes position 0, others the one they know.
Branches == UNION {[1..d -> Nodes(block)] : d \in 0..MaxBranch}
Sent ==
  [tx : Range(block) \cup {<<Other>>}, branch : Branches, pos : {0}]
    \cup {[tx |-> block[p + 1], branch |-> BranchOf(block, p), pos |-> p] : p \in 0..Len(block) - 1}
Verify(c) ==
  /\ pc[c] = "taken" /\ kind[c] = "verify"
  /\ \E s \in Sent :
       proof' = [tx |-> s.tx, branch |-> s.branch, pos |-> s.pos,
                 verified |-> verify_merkle_proof(s.tx, s.branch, s.pos, Root(block))]
  /\ header_store' = TRUE
  /\ pc' = [pc EXCEPT ![c] = "idle"] /\ verdict' = [verdict EXCEPT ![c] = "done"]
  /\ UNCHANGED <<block, kind, met, bits>>

\* get_header_store_info and sync_headers (modules HeaderStore and HeaderSync).
PutBack(c) ==
  /\ pc[c] = "taken" /\ kind[c] # "verify"
  /\ header_store' = TRUE /\ End(c, "done")

\* sync_headers returns from a failed query without putting it back.
Lose(c) ==
  /\ pc[c] = "taken" /\ kind[c] = "sync"
  /\ End(c, "failed") /\ UNCHANGED header_store

Next ==
  \E c \in Calls :
    \/ \E k \in {"verify", "info", "sync"} : Start(c, k)
    \/ Open(c) \/ Take(c) \/ Verify(c) \/ PutBack(c) \/ Lose(c)
Spec == Init /\ [][Next]_vars

-----------------------------------------------------------------------------
TypeOK ==
  /\ header_store \in BOOLEAN
  /\ pc \in [Calls -> {"idle", "open", "ready", "taken"}]
  /\ kind \in [Calls -> {"none", "verify", "info", "sync"}]
  /\ verdict \in [Calls -> {"none", "failed", "no store", "done"}]
  /\ met \subseteq Calls
  /\ proof.verified \in BOOLEAN /\ Len(proof.branch) \in Nat

\* verify_transaction_proof: whatever branch the server sends, a transaction is
\* said to be in the block only if it is.
ProofSound == proof.verified => proof.tx \in Range(block)

\* verify_merkle_proof: with a transaction's own branch and position it does say
\* so, in blocks of every shape.
ProofComplete ==
  \A p \in 0..Len(block) - 1 :
    proof.tx = block[p + 1] /\ proof.branch = BranchOf(block, p) /\ proof.pos = p =>
      proof.verified

\* ensure_header_store and the take that follows: a command finds the header
\* store missing only if another was running at the same time.
AloneHasStore == \A c \in Calls : verdict[c] = "no store" => c \in met

\* target_from_bits: target = mantissa * 256^(exponent - 3), and zero, which no
\* hash is below, where that does not fit.
TargetIsItsNumber ==
  LET n == IF bits.exponent >= 3 THEN Scaled(bits.mantissa, bits.exponent - 3)
                                 ELSE Shifted(bits.mantissa, Byte, 3 - bits.exponent)
      fits == bits.exponent <= Width
  IN  /\ NumberOf(target_from_bits(bits)) = IF fits THEN n ELSE 0
      /\ \A hash \in 0..Scaled(1, Width) - 1 : check_pow(hash, bits) <=> fits /\ hash < n

\* A command that met no other is alone, and has the store until it takes it.
AloneInv ==
  \A c \in Calls : pc[c] # "idle" /\ c \notin met =>
    Others(c) = {} /\ (pc[c] = "ready" => header_store)

BlockInv ==
  /\ \E b \in Blocks : block = [i \in DOMAIN b |-> <<b[i]>>]
  /\ block = <<>> => bits \in AllBits

\* What every step preserves.
IInv == TypeOK /\ BlockInv /\ AloneInv /\ ProofSound /\ ProofComplete /\ AloneHasStore
=============================================================================
