--------------------------- MODULE ScriptDecoding ---------------------------
(***************************************************************************)
(* features/: which data an output carries.  Three detectors are tried in  *)
(* turn, each with its own loop over the pushes of a script.  A script     *)
(* is written piece by piece here, an opcode or a push at a time, so what  *)
(* the loops find can be held against what was written.                    *)
(*                                                                         *)
(* A marker of several letters ("ord", "STAS", a protocol's address) is    *)
(* one byte, from 200 up, and the lower case of a protocol's is 10 more.   *)
(***************************************************************************)
EXTENDS Integers, SequencesExt, FiniteSetsExt

CONSTANTS
  Data,         \* what is pushed
  MaxPieces,    \* bound on the pieces of a script
  TXID_LENGTH   \* 32 in the code

VARIABLES
  pieces,   \* what has been written: [bytes, data, how]
  kind      \* DecodedKind, once it is decoded

vars == <<pieces, kind>>

OP_FALSE == 0
OP_PUSHDATA1 == 76
OP_PUSHDATA2 == 77
OP_PUSHDATA4 == 78
OP_1NEGATE == 79
OP_16 == 96
OP_IF == 99
OP_ENDIF == 104
OP_RETURN == 106
P2PKH == <<118, 169, 20>> \o [i \in 1..20 |-> 7] \o <<136, 172>>
Ord == 200
Stas == 220
ProtocolPrefixes == <<201, 202, 203>>      \* of B, MAP and Bcat; BAP and 21E8 are like B
Undecoded == [of |-> "undecoded", data |-> <<>>]

-----------------------------------------------------------------------------
(* The loops over pushes *)

\* Bytes of the length that an opcode has after it.
LengthBytes_Two(op) ==
  CASE op \in 1..75 -> 0 [] op = OP_PUSHDATA1 -> 1 [] OTHER -> 2
LengthBytes(op) ==
  CASE op \in 1..75 -> 0 [] op = OP_PUSHDATA1 -> 1 [] op = OP_PUSHDATA2 -> 2
    [] op = OP_PUSHDATA4 -> 4
Pushes(parser) == 1..OP_PUSHDATA2 \cup IF parser = "stas" THEN {} ELSE {OP_PUSHDATA4}

\* A push at i: where its data start, and how many bytes they are.
Start(s, i) == i + 1 + LengthBytes(s[i])
PushLength(s, i) ==
  IF s[i] \in 1..75 THEN s[i]
  ELSE FoldLeftDomain(LAMBDA n, k : n + SubSeq(s, i + 1, Start(s, i) - 1)[k] * 256^(k - 1),
                      0, SubSeq(s, i + 1, Start(s, i) - 1))
\* One that goes on after the end of the script ends the loop.
Fits(s, i) ==
  /\ Start(s, i) <= Len(s) + 1
  /\ Start(s, i) + PushLength(s, i) <= Len(s) + 1

\* extract_data_chunks, extract_op_return_data and extract_push_sequence: the
\* chunks from byte i on.
Chunks(s, from, parser) ==
  LET f[i \in 1..Len(s) + 1] ==
        CASE i > Len(s) -> <<>>
          [] i <= Len(s) /\ s[i] \in Pushes(parser) ->
               IF ~Fits(s, i) THEN <<>>
               ELSE LET end == Start(s, i) + PushLength(s, i)
                    IN  <<SubSeq(s, Start(s, i), end - 1)>> \o f[end]
          [] i <= Len(s) /\ s[i] = OP_FALSE -> <<<<>>>> \o f[i + 1]
          [] i <= Len(s) /\ s[i] \in OP_1NEGATE..OP_16 /\ parser = "ordinal" ->
               <<<<s[i] - 80>>>> \o f[i + 1]
          [] i <= Len(s) /\ s[i] = OP_ENDIF /\ parser = "ordinal" -> <<>>
          [] OTHER -> f[i + 1]
  IN  f[from]

IsOpReturn(s) == s # <<>> /\ s[1] = OP_RETURN

-----------------------------------------------------------------------------
(* The detectors: what each makes of a script, <<>> being nothing *)

\* find_envelope looks at every byte, at those of pushed data too.
Envelopes(s) == {i \in 1..Len(s) - 1 : Len(s) >= 4 /\ s[i] = OP_FALSE /\ s[i + 1] = OP_IF}
EnvelopeStart(s) == Min(Envelopes(s)) + 2
detect_ordinal_inscription(s) ==
  LET chunks == IF Envelopes(s) = {} THEN <<>> ELSE Chunks(s, EnvelopeStart(s), "ordinal")
  IN  IF Len(chunks) >= 2 /\ chunks[1] = <<Ord>>
      THEN <<chunks[2], FlattenSeq(SubSeq(chunks, 3, Len(chunks)))>>
      ELSE <<>>

\* Case does not matter, nor what comes after the prefix.
Lower(b) == IF b \in Range(ProtocolPrefixes) THEN b + 10 ELSE b
match_protocol(first) ==
  {p \in DOMAIN ProtocolPrefixes : first # <<>> /\ Lower(first[1]) = Lower(ProtocolPrefixes[p])}

Get(chunks, i) == IF i < Len(chunks) THEN chunks[i + 1] ELSE <<>>
decode_b(chunks) == [i \in 1..4 |-> Get(chunks, i)]
\* Keys and values by turns; of two values of a key the later one stays.
decode_map(chunks) ==
  LET keys == {i \in 2..Len(chunks) : i % 2 = 0}
      last(k) == Max({i \in keys : chunks[i] = k})
  IN  <<{<<chunks[i], Get(chunks, last(chunks[i]))>> : i \in keys}>>
decode_bcat(chunks) ==
  LET txid_start == IF Len(chunks) > 6 THEN 6 ELSE 5
  IN  <<Get(chunks, 2), Get(chunks, 3), Get(chunks, 4),
        SelectSeq(SubSeq(chunks, txid_start + 1, Len(chunks)), LAMBDA c : c # <<>>)>>
parse_op_return(s) ==
  LET chunks == IF IsOpReturn(s) THEN Chunks(s, 2, "op_return") ELSE <<>>
      protocol == IF chunks = <<>> THEN {} ELSE match_protocol(chunks[1])
  IN  CASE protocol = {1} -> decode_b(chunks)
        [] protocol = {2} -> decode_map(chunks)
        [] protocol = {3} -> decode_bcat(chunks)
        [] OTHER -> <<>>

detect_stas_in_op_return(s) ==
  LET chunks == Chunks(s, 2, "stas")
      first == IF chunks = <<>> THEN <<>> ELSE chunks[1]
  IN  CASE first # <<>> /\ first[1] = Stas -> <<Get(chunks, 1), Get(chunks, 2), Get(chunks, 3)>>
        [] Len(first) = TXID_LENGTH /\ first[1] # Stas /\ Len(chunks) >= 2 ->
             <<Get(chunks, 1), first, Get(chunks, 2)>>
        [] OTHER -> <<>>
\* extract_stas_symbol: the first that has a whole push after the marker.
detect_stas_in_p2pkh(s) ==
  LET marks == {i \in Len(P2PKH) + 1..Len(s) : s[i] = Stas}
      named == {i \in marks : i < Len(s) /\ s[i + 1] > 0 /\ i + 1 + s[i + 1] <= Len(s)}
      symbol == IF named = {} THEN <<>>
                ELSE SubSeq(s, Min(named) + 2, Min(named) + 1 + s[Min(named) + 1])
  IN  IF marks = {} THEN <<>> ELSE <<symbol>>
detect_stas_transfer(s) ==
  CASE IsOpReturn(s) -> detect_stas_in_op_return(s)
    [] Len(s) > 26 /\ IsPrefix(SubSeq(P2PKH, 1, 3), s) -> detect_stas_in_p2pkh(s)
    [] OTHER -> <<>>

\* init_detectors: their order decides.
detect_all(s) ==
  CASE detect_ordinal_inscription(s) # <<>> -> [of |-> "ordinal", data |-> detect_ordinal_inscription(s)]
    [] detect_ordinal_inscription(s) = <<>> /\ parse_op_return(s) # <<>> ->
         [of |-> "op_return", data |-> parse_op_return(s)]
    [] detect_ordinal_inscription(s) = <<>> /\ parse_op_return(s) = <<>>
         /\ detect_stas_transfer(s) # <<>> -> [of |-> "stas", data |-> detect_stas_transfer(s)]
    [] OTHER -> [of |-> "plain", data |-> <<>>]

-----------------------------------------------------------------------------
(* Writing a script and decoding it *)

PushHeader(d, how) ==
  CASE how = "direct" -> <<Len(d)>> [] how = "data1" -> <<OP_PUSHDATA1, Len(d)>>
    [] how = "data2" -> <<OP_PUSHDATA2, Len(d), 0>> [] how = "data4" -> <<OP_PUSHDATA4, Len(d), 0, 0, 0>>
Push(d, how) == [bytes |-> PushHeader(d, how) \o d, data |-> d, how |-> how]
Op(b) == [bytes |-> <<b>>, data |-> <<>>, how |-> "opcode"]
Written(p) == FlattenSeq([i \in DOMAIN p |-> p[i].bytes])

Init == pieces = <<>> /\ kind = Undecoded

Write(p) ==
  /\ kind = Undecoded /\ Len(pieces) < MaxPieces
  /\ pieces' = Append(pieces, p)
  /\ UNCHANGED kind

\* decode_output and the commands that filter decode_outputs by kind.
Decode ==
  /\ kind = Undecoded
  /\ kind' = detect_all(Written(pieces))
  /\ UNCHANGED pieces

Next ==
  \/ \E b \in {OP_FALSE, OP_IF, OP_ENDIF, OP_RETURN, 81} : Write(Op(b))
  \/ \E d \in Data : Write(Push(d, "direct"))
  \/ \E how \in {"data1", "data2", "data4"} : Write(Push(<<Ord>>, how))
  \/ pieces = <<>> /\ Write([bytes |-> P2PKH, data |-> <<>>, how |-> "p2pkh"])
  \/ Write([bytes |-> <<OP_PUSHDATA1, 3, 7>>, data |-> <<>>, how |-> "cut short"])
  \/ Decode
Spec == Init /\ [][Next]_vars

-----------------------------------------------------------------------------
script == Written(pieces)
\* The data of what was written, as far as whole pushes go; those opcodes that
\* push nothing in an OP_RETURN output are left out.
Data_Of(p) == SelectSeq(p, LAMBDA x : x.how # "opcode" \/ x.bytes = <<OP_FALSE>>)
DataWritten(p) == [i \in DOMAIN Data_Of(p) |-> Data_Of(p)[i].data]
Whole(p) == \A x \in Range(p) : x.how \notin {"cut short", "p2pkh"}

TypeOK ==
  /\ Len(pieces) <= MaxPieces
  /\ kind.of \in {"undecoded", "ordinal", "op_return", "stas", "plain"}

\* extract_data_chunks: of an OP_RETURN output it reads back what was pushed,
\* however the pushes are encoded and whatever opcodes are between them.
DataComesBack ==
  IsOpReturn(script) /\ Whole(pieces) =>
    Chunks(script, 2, "op_return") = DataWritten(Tail(pieces))

\* extract_data_chunks, extract_op_return_data, extract_push_sequence: the three
\* loops find the same, on any script, as long as it has no PUSHDATA4, no
\* small number and no OP_ENDIF, which they treat differently.
ParsersAgree ==
  (\A x \in Range(pieces) : x.how # "data4" /\ x.bytes \notin {<<81>>, <<OP_ENDIF>>}) =>
    \A from \in 1..Len(script) + 1 :
      \A parser \in {"op_return", "stas"} :
        Chunks(script, from, parser) = Chunks(script, from, "ordinal")

\* detect_ordinal_inscription: an envelope is read as written, wherever it is and
\* whatever detector would take the rest, unless the same two bytes come before.
EnvelopeRead ==
  \A i \in 1..Len(pieces) - 3 :
    LET inside == SubSeq(pieces, i + 2, Len(pieces))
    IN  /\ kind # Undecoded /\ Whole(inside)
        /\ pieces[i].bytes = <<OP_FALSE>> /\ pieces[i + 1].bytes = <<OP_IF>>
        /\ Envelopes(Written(SubSeq(pieces, 1, i + 1))) \subseteq {Len(Written(SubSeq(pieces, 1, i - 1))) + 1}
        /\ inside[1].data = <<Ord>>
        /\ \A x \in Range(inside) : x.how # "opcode"
        => kind = [of |-> "ordinal",
                   data |-> <<inside[2].data, FlattenSeq([k \in 1..Len(inside) - 2 |-> inside[k + 2].data])>>]
=============================================================================
