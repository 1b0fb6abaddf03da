--------------------------- MODULE MultisigSpend ---------------------------
(***************************************************************************)
(* core/multisig.rs and the MultisigSigner of core/signer.rs: an output    *)
(* that m of n keys can spend without OP_CHECKMULTISIG.  The locking       *)
(* script counts valid signatures on the alt stack, one IF block per key;  *)
(* the unlocking script answers each IF.  A node runs one after the other. *)
(*                                                                         *)
(* A script is a sequence of opcodes [op, v], v being what a push leaves   *)
(* on the stack: a <<kind, value>>.  A signature is named by the key that  *)
(* made it, and signs this transaction.                                    *)
(***************************************************************************)
EXTENDS Integers, SequencesExt, FiniteSetsExt

CONSTANTS
  Keys,      \* public keys
  MaxKeys,   \* bound on n
  Numbers,   \* script numbers and lengths to encode
  Vetted     \* which hash160 to model: TRUE is OP_HASH160, FALSE the one of
             \* multisig.rs, which differs from it (module Ripemd160)

VARIABLES
  public_keys, threshold, vetted,  \* the output
  signing, flaw,   \* signing_indices; what is wrong with a contribution, if anything
  key_idx, unlocking,              \* build_unlocking_script: the loop and its result
  ip, stack, alt, skipping,        \* the node's interpreter
  status,          \* what is going on, or how it ended
  number           \* a number to encode

output == <<public_keys, threshold, vetted>>
machine == <<ip, stack, alt, skipping>>
vars == <<output, signing, flaw, key_idx, unlocking, machine, status, number>>

n == Len(public_keys)
Ended == {"NoPublicKeys", "InvalidThreshold", "InsufficientSignatures", "MissingSignature",
          "MissingPublicKey", "CannotSign", "unlocked", "rejected"}

NoFlaw == [at |-> 0, what |-> "none"]
Flaws == {"no signature", "no public key", "other signature", "other public key"}

-----------------------------------------------------------------------------
(* Encodings, as byte sequences *)

\* The bytes of a number that is not negative, low ones first: there are four at most.
Shifts(v) == LET a == v \div 256
                 b == a \div 256
             IN  <<v, a, b, b \div 256>>
ByteCount(v) == LET val == Shifts(v)
                IN  CASE val[2] = 0 -> 1 [] val[2] # 0 /\ val[3] = 0 -> 2
                      [] val[3] # 0 /\ val[4] = 0 -> 3 [] val[4] # 0 -> 4
LittleEndian(v, c) == [i \in 1..c |-> Shifts(v)[i] % 256]

\* A high bit would be the sign, so it gets a byte of its own; numbers of a
\* script are thresholds, and positive.
push_minimal_signed(v) ==
  LET b == LittleEndian(v, ByteCount(v))
      signed == IF Last(b) >= 128 THEN Append(b, 0) ELSE b
  IN  <<Len(signed)>> \o signed
OP_1 == 81
push_int(v) == IF v \in 1..16 THEN <<OP_1 + v - 1>> ELSE push_minimal_signed(v)

OP_PUSHDATA1 == 76
\* What push_item puts before data of a length.
PushHeader(len) ==
  CASE len <= 75 -> <<len>>
    [] len > 75 /\ len <= 255 -> <<OP_PUSHDATA1, len>>
    [] len > 255 /\ len <= 65535 -> <<OP_PUSHDATA1 + 1>> \o LittleEndian(len, 2)
    [] len > 65535 -> <<OP_PUSHDATA1 + 2>> \o LittleEndian(len, 4)

\* How a node reads a script number, and the length of a push.
Sum(b) ==
  LET At(i) == IF i <= Len(b) THEN b[i] ELSE 0
  IN  At(1) + 256 * (At(2) + 256 * (At(3) + 256 * (At(4) + 256 * At(5))))
ScriptNumber(p) ==
  IF p[1] \in OP_1..OP_1 + 15 THEN p[1] - OP_1 + 1
  ELSE LET b == SubSeq(p, 2, p[1] + 1)
       IN  IF Last(b) >= 128 THEN 0 - Sum([b EXCEPT ![Len(b)] = @ - 128]) ELSE Sum(b)
PushLength(p) == IF p[1] < OP_PUSHDATA1 THEN p[1] ELSE Sum(Tail(p))

-----------------------------------------------------------------------------
(* Scripts *)

Op(name) == [op |-> name, v |-> <<"none">>]
Push(v) == [op |-> "PUSH", v |-> v]
hash160(k) == IF vetted THEN <<"hash", k>> ELSE <<"other hash", k>>

Opening == <<Push(<<"num", 0>>), Op("TOALTSTACK")>>
KeyBlock(k) ==
  <<Op("IF"), Op("DUP"), Op("HASH160"), Push(hash160(k)), Op("EQUALVERIFY"),
    Op("CHECKSIGVERIFY"), Op("FROMALTSTACK"), Op("1ADD"), Op("TOALTSTACK"), Op("ENDIF")>>
Closing == <<Op("FROMALTSTACK"), Push(<<"num", ScriptNumber(push_int(threshold))>>),
             Op("GREATERTHANOREQUAL")>>
to_script_bytes ==
  Opening \o FlattenSeq([i \in 1..n |-> KeyBlock(public_keys[i])]) \o Closing

Init ==
  /\ public_keys \in UNION {[1..c -> Keys] : c \in 0..MaxKeys}
  /\ threshold \in 0..MaxKeys + 1 /\ vetted \in Vetted
  /\ signing = {} /\ flaw = NoFlaw /\ key_idx = 0 /\ unlocking = <<>>
  /\ ip = 1 /\ stack = <<>> /\ alt = <<>> /\ skipping = FALSE
  /\ status = "new"
  /\ number \in IF public_keys = <<>> THEN Numbers ELSE {1}   \* they are unrelated

Stop(how) ==
  /\ status' = how
  /\ UNCHANGED <<output, signing, flaw, key_idx, unlocking, machine, number>>

\* AccumulatorMultiSigOutput::new
New ==
  /\ status = "new"
  /\ CASE n = 0 -> Stop("NoPublicKeys")
       [] n > 0 /\ threshold \notin 1..n -> Stop("InvalidThreshold")
       [] OTHER -> Stop("output")

-----------------------------------------------------------------------------
(* Spending *)

\* The loop goes from the last key to the first, so that the first ends on top.
FirstKey_Forward == 1
FirstKey == n
NextKey == key_idx - 1

\* build_unlocking_script is called for the keys of a set.
TooFew(S) == Cardinality(S) < threshold
Begin(S, w, refused) ==
  /\ signing' = S /\ flaw' = w
  /\ IF refused
     THEN status' = "InsufficientSignatures" /\ UNCHANGED key_idx
     ELSE status' = "building" /\ key_idx' = FirstKey
  /\ UNCHANGED <<output, unlocking, machine, number>>

\* Cosigners have put their contributions together, one of which may be faulty.
Assemble ==
  /\ status = "output"
  /\ \E S \in SUBSET (1..n) :
       \E w \in {NoFlaw} \cup [at : S, what : Flaws] : Begin(S, w, TooFew(S))

\* Other software, which builds the same without asking how many sign.
AssembleElsewhere ==
  /\ status = "output"
  /\ \E S \in SUBSET (1..n) :
       \E w \in {NoFlaw} \cup [at : S, what : {"other signature"}] : Begin(S, w, FALSE)

\* MultisigSigner signs for its own key, which the configuration must list at
\* local_key_index; the key is derived from the subpath of the first input.
SignLocally ==
  /\ status = "output"
  /\ \E local_key_index \in 0..n, derived \in Keys :
       IF local_key_index < n /\ public_keys[local_key_index + 1] = derived
       THEN Begin({local_key_index + 1}, NoFlaw, TooFew({local_key_index + 1}))
       ELSE Stop("CannotSign")

Faulty(k, what) == flaw = [at |-> k, what |-> what]
SigOf(k) == <<"sig", IF Faulty(k, "other signature") THEN "nobody" ELSE public_keys[k]>>
KeyOf(k) == <<"key", IF Faulty(k, "other public key") THEN "nobody" ELSE public_keys[k]>>
Contribution(k) == IF k \in signing THEN <<Push(SigOf(k)), Push(KeyOf(k)), Push(<<"num", 1>>)>>
                                    ELSE <<Push(<<"num", 0>>)>>

BuildKey ==
  /\ status = "building" /\ key_idx \in 1..n
  /\ CASE Faulty(key_idx, "no signature") -> Stop("MissingSignature")
       [] Faulty(key_idx, "no public key") -> Stop("MissingPublicKey")
       [] OTHER ->
            /\ unlocking' = unlocking \o Contribution(key_idx)
            /\ key_idx' = NextKey
            /\ UNCHANGED <<output, signing, flaw, machine, status, number>>

Built ==
  /\ status = "building" /\ key_idx \notin 1..n
  /\ Stop("running")

-----------------------------------------------------------------------------
(* The node *)

Script == unlocking \o to_script_bytes
op == Script[ip].op
Top == Last(stack)
Below == stack[Len(stack) - 1]
Drop(c) == SubSeq(stack, 1, Len(stack) - c)

\* What an opcode does to <<main stack, alt stack, skipping>>; <<>> if it fails.
Effect ==
  CASE skipping -> <<stack, alt, op # "ENDIF">>
    [] op = "ENDIF" /\ ~skipping -> <<stack, alt, FALSE>>
    [] op = "PUSH" /\ ~skipping -> <<Append(stack, Script[ip].v), alt, FALSE>>
    [] op = "TOALTSTACK" /\ ~skipping -> <<Drop(1), Append(alt, Top), FALSE>>
    [] op = "FROMALTSTACK" /\ ~skipping -> <<Append(stack, Last(alt)), Front(alt), FALSE>>
    [] op = "IF" /\ ~skipping -> <<Drop(1), alt, Top = <<"num", 0>>>>
    [] op = "DUP" /\ ~skipping -> <<Append(stack, Top), alt, FALSE>>
    [] op = "HASH160" /\ ~skipping -> <<Append(Drop(1), <<"hash", Top[2]>>), alt, FALSE>>
    [] op = "EQUALVERIFY" /\ ~skipping -> IF Top = Below THEN <<Drop(2), alt, FALSE>> ELSE <<>>
    [] op = "CHECKSIGVERIFY" /\ ~skipping ->
         IF Top[1] = "key" /\ Below = <<"sig", Top[2]>> THEN <<Drop(2), alt, FALSE>> ELSE <<>>
    [] op = "1ADD" /\ ~skipping -> <<Append(Drop(1), <<"num", Top[2] + 1>>), alt, FALSE>>
    [] op = "GREATERTHANOREQUAL" /\ ~skipping ->
         <<Append(Drop(2), <<"num", IF Below[2] >= Top[2] THEN 1 ELSE 0>>), alt, FALSE>>

Takes == CASE op \in {"EQUALVERIFY", "CHECKSIGVERIFY", "GREATERTHANOREQUAL"} -> 2
           [] op \in {"PUSH", "FROMALTSTACK", "ENDIF"} -> 0
           [] OTHER -> 1

Execute ==
  /\ status = "running" /\ ip <= Len(Script)
  /\ IF ~skipping /\ (Len(stack) < Takes \/ Effect = <<>>)
     THEN Stop("rejected")
     ELSE /\ stack' = Effect[1] /\ alt' = Effect[2] /\ skipping' = Effect[3]
          /\ ip' = ip + 1
          /\ UNCHANGED <<output, signing, flaw, key_idx, unlocking, status, number>>

Finish ==
  /\ status = "running" /\ ip > Len(Script)
  /\ Stop(IF stack # <<>> /\ Top # <<"num", 0>> THEN "unlocked" ELSE "rejected")

Next == New \/ Assemble \/ AssembleElsewhere \/ SignLocally \/ BuildKey \/ Built \/ Execute \/ Finish
Spec == Init /\ [][Next]_vars

-----------------------------------------------------------------------------
TypeOK ==
  /\ public_keys \in Seq(Keys) /\ n <= MaxKeys /\ signing \subseteq 1..n /\ key_idx \in 0..n
  /\ number \in Numbers \cup {1} /\ vetted \in BOOLEAN
  /\ threshold \in 0..MaxKeys + 1 /\ ip \in 1..Len(Script) + 1
  /\ status \in Ended \cup {"new", "output", "building", "running"}

\* build_unlocking_script with to_script_bytes: any m of n good contributions
\* spend the output, whichever keys they are of, and leave nothing else on
\* either stack (multisig.rs:360-372).
ThresholdUnlocks ==
  vetted /\ flaw = NoFlaw /\ status \in {"rejected", "unlocked"} /\ ~TooFew(signing) =>
    status = "unlocked" /\ stack = <<<<"num", 1>>>> /\ alt = <<>>

\* to_script_bytes: what is spent was signed for m of the keys listed, each by
\* that key (multisig.rs:7-20).
NothingLess ==
  status = "unlocked" => ~TooFew(signing) /\ flaw = NoFlaw

\* push_int, push_item: a node reads back the number and the length that were
\* encoded (multisig.rs:62-129).
EncodingsRead ==
  ScriptNumber(push_int(number)) = number /\ PushLength(PushHeader(number)) = number

-----------------------------------------------------------------------------
(* What has been built, and what the node has done at each place of the script *)

\* How much the unlocking script pushes for the keys from k on.
Pushed(k) == n + 1 - k + 2 * Cardinality({i \in signing : i >= k})
Counted(k) == Cardinality({i \in signing : i <= k})
Left(count) == [i \in 1..count |-> unlocking[i].v]

AnswersFrom(k) ==
  /\ Len(unlocking) = Pushed(k)
  /\ \A i \in k..n :
       \A j \in 1..Len(Contribution(i)) : unlocking[Pushed(i + 1) + j] = Contribution(i)[j]

\* The two stacks, and whether the node skips, before a key's j-th opcode.
DuringKey(k, j) ==
  LET rest == Left(Pushed(k + 1))
      count == <<<<"num", Counted(k - 1)>>>>
      more == <<"num", Counted(k - 1) + 1>>
      key == KeyOf(k)
      id == <<"hash", key[2]>>
  IN  CASE j = 1 -> <<Left(Pushed(k)), count, FALSE>>
        [] j # 1 /\ k \notin signing -> <<rest, count, TRUE>>
        [] j = 2 /\ k \in signing -> <<rest \o <<SigOf(k), key>>, count, FALSE>>
        [] j = 3 /\ k \in signing -> <<rest \o <<SigOf(k), key, key>>, count, FALSE>>
        [] j = 4 /\ k \in signing -> <<rest \o <<SigOf(k), key, id>>, count, FALSE>>
        [] j = 5 /\ k \in signing ->
             <<rest \o <<SigOf(k), key, id, hash160(public_keys[k])>>, count, FALSE>>
        [] j = 6 /\ k \in signing -> <<rest \o <<SigOf(k), key>>, count, FALSE>>
        [] j = 7 /\ k \in signing -> <<rest, count, FALSE>>
        [] j = 8 /\ k \in signing -> <<rest \o count, <<>>, FALSE>>
        [] j = 9 /\ k \in signing -> <<rest \o <<more>>, <<>>, FALSE>>
        [] j = 10 /\ k \in signing -> <<rest, <<more>>, FALSE>>
Valid(k) == vetted /\ ~Faulty(k, "other public key") /\ ~Faulty(k, "other signature")
Checked(k, j) ==
  /\ \A i \in signing : i < k => Valid(i)
  /\ k \in signing => /\ j > 5 => vetted /\ ~Faulty(k, "other public key")
                      /\ j > 6 => Valid(k)

AtTheEnd(j) ==
  LET count == <<"num", Counted(n)>>
      m == <<"num", ScriptNumber(push_int(threshold))>>
  IN  CASE j = 1 -> <<<<>>, <<count>>, FALSE>>
        [] j = 2 -> <<<<count>>, <<>>, FALSE>>
        [] j = 3 -> <<<<count, m>>, <<>>, FALSE>>
        [] j = 4 -> <<<<<<"num", IF count[2] >= m[2] THEN 1 ELSE 0>>>>, <<>>, FALSE>>

RunInv ==
  LET keys == Len(unlocking) + Len(Opening)
      state == <<stack, alt, skipping>>
  IN  \/ ip \in 1..Len(unlocking) + 1 /\ state = <<Left(ip - 1), <<>>, FALSE>>
      \/ ip = keys /\ state = <<Append(Left(keys - 2), <<"num", 0>>), <<>>, FALSE>>
      \/ \E k \in 1..n, j \in 1..10 :
           ip = keys + 10 * (k - 1) + j /\ state = DuringKey(k, j) /\ Checked(k, j)
      \/ \E j \in 1..4 :
           ip = keys + 10 * n + j /\ state = AtTheEnd(j) /\ \A i \in signing : Valid(i)

BuildInv ==
  /\ Len(unlocking) \in Nat /\ unlocking = [i \in 1..Len(unlocking) |-> Push(unlocking[i].v)]
  /\ flaw = NoFlaw \/ flaw \in [at : signing, what : Flaws]
  /\ status \in {"new", "output"} => unlocking = <<>> /\ signing = {} /\ flaw = NoFlaw
  /\ status \in {"new", "output", "building"} =>
       ip = 1 /\ stack = <<>> /\ alt = <<>> /\ skipping = FALSE
  /\ status \in {"output", "building", "running"} => threshold \in 1..n
  /\ status = "building" => AnswersFrom(key_idx + 1) /\ \A i \in signing :
       i > key_idx => ~Faulty(i, "no signature") /\ ~Faulty(i, "no public key")
  /\ status = "running" => /\ AnswersFrom(1)
                           /\ flaw.what \notin {"no signature", "no public key"}
                           /\ RunInv

\* What every step preserves.
IInv == TypeOK /\ BuildInv /\ ThresholdUnlocks /\ NothingLess
=============================================================================
