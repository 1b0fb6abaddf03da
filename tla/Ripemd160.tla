----------------------------- MODULE Ripemd160 -----------------------------
(***************************************************************************)
(* hash160 and ripemd160 of core/multisig.rs, for one message block, one   *)
(* round of the two lines to a step.  A u32 is a pair of 16-bit halves,    *)
(* the high one first, because TLC's integers are narrower than it.        *)
(***************************************************************************)
EXTENDS Integers, Sequences, Bitwise

CONSTANTS
  Sha,     \* a SHA-256 digest, as eight words in little-endian order
  Digest   \* the RIPEMD-160 of it, as five

VARIABLES j, left, right, h
vars == <<j, left, right, h>>

Half == 65536
not(u) == <<Half - 1 - u[1], Half - 1 - u[2]>>
and(u, v) == <<u[1] & v[1], u[2] & v[2]>>
or(u, v) == <<u[1] | v[1], u[2] | v[2]>>
xor(u, v) == <<u[1] ^^ v[1], u[2] ^^ v[2]>>
wrapping_add(u, v) ==
  <<(u[1] + v[1] + ((u[2] + v[2]) \div Half)) % Half, (u[2] + v[2]) % Half>>
\* For n < 16.
rotate_left(u, n) ==
  <<((u[1] * 2^n) % Half) + (u[2] \div 2^(16 - n)), ((u[2] * 2^n) % Half) + (u[1] \div 2^(16 - n))>>

\* The state before the first block.
Start == << <<26437, 8961>>, <<61389, 43913>>, <<39098, 56574>>, <<4146, 21622>>, <<50130, 57840>> >>

\* Words 8 to 15 are the padding: a bit, zeros and the length, 256 bits.
x == Sha \o << <<0, 128>>, <<0, 0>>, <<0, 0>>, <<0, 0>>, <<0, 0>>, <<0, 0>>, <<0, 256>>, <<0, 0>> >>

\* Which word of the block a step takes, on the left and on the right line.
r == <<0, 1, 2, 3, 4, 5, 6, 7, 8, 9, 10, 11, 12, 13, 14, 15,
       7, 4, 13, 1, 10, 6, 15, 3, 12, 0, 9, 5, 2, 14, 11, 8,
       3, 10, 14, 4, 9, 15, 8, 1, 2, 7, 0, 6, 13, 11, 5, 12,
       1, 9, 11, 10, 0, 8, 12, 4, 13, 3, 7, 15, 14, 5, 6, 2,
       4, 0, 5, 9, 7, 12, 2, 10, 14, 1, 3, 8, 11, 6, 15, 13>>
r2 == <<5, 14, 7, 0, 9, 2, 11, 4, 13, 6, 15, 8, 1, 10, 3, 12,
        6, 11, 3, 7, 0, 13, 5, 10, 14, 15, 8, 12, 4, 9, 1, 2,
        15, 5, 1, 3, 7, 14, 6, 9, 11, 8, 12, 2, 10, 0, 4, 13,
        8, 6, 4, 1, 3, 11, 15, 0, 5, 12, 2, 13, 9, 7, 10, 14,
        12, 15, 10, 4, 1, 5, 8, 7, 6, 2, 13, 14, 0, 3, 9, 11>>

\* By how many bits it rotates.  The left table has one row, five times.
s == LET row == <<5, 14, 7, 0, 9, 2, 11, 4, 13, 6, 15, 8, 1, 10, 3, 12>>
     IN  row \o row \o row \o row \o row
s2 == <<11, 14, 15, 12, 5, 8, 7, 9, 11, 13, 14, 15, 6, 7, 9, 8,
        7, 6, 8, 13, 11, 9, 7, 15, 7, 12, 15, 9, 11, 7, 13, 12,
        11, 13, 6, 7, 14, 9, 13, 15, 14, 8, 13, 6, 5, 12, 7, 5,
        11, 12, 14, 15, 14, 15, 9, 8, 9, 14, 5, 6, 8, 6, 5, 12,
        9, 15, 5, 11, 6, 8, 13, 12, 5, 12, 13, 14, 11, 8, 5, 6>>

\* The five mixing functions; the right line takes them in reverse.
f(n, b, c, d) ==
  CASE n = 0 -> xor(xor(b, c), d)
    [] n = 1 -> or(and(b, c), and(not(b), d))
    [] n = 2 -> xor(or(b, not(c)), d)
    [] n = 3 -> or(and(b, d), and(c, not(d)))
    [] n = 4 -> xor(b, or(c, not(d)))
k == << <<0, 0>>, <<23170, 31129>>, <<28377, 60321>>, <<36635, 48348>>, <<43347, 64846>> >>
k2 == << <<20642, 35814>>, <<23629, 53540>>, <<28016, 16115>>, <<31341, 30441>>, <<0, 0>> >>

\* One step of a line <<a, b, c, d, e>>.
Mix(l, n, constant, word, bits) ==
  LET t == wrapping_add(wrapping_add(f(n, l[2], l[3], l[4]), l[1]), wrapping_add(constant, word))
  IN  << l[5], wrapping_add(rotate_left(t, bits), l[5]), l[2], rotate_left(l[3], 10), l[4] >>

Init == j = 0 /\ left = Start /\ right = Start /\ h = Start

Round ==
  /\ j < 80
  /\ j' = j + 1
  /\ left' = Mix(left, j \div 16, k[(j \div 16) + 1], x[r[j + 1] + 1], s[j + 1])
  /\ right' = Mix(right, 4 - j \div 16, k2[(j \div 16) + 1], x[r2[j + 1] + 1], s2[j + 1])
  /\ UNCHANGED h

\* Each word of the state takes up the next of the left, the next but one of the right.
Combine ==
  /\ j = 80
  /\ j' = 81
  /\ h' = [i \in 1..5 |-> wrapping_add(h[(i % 5) + 1],
                            wrapping_add(left[((i + 1) % 5) + 1], right[((i + 2) % 5) + 1]))]
  /\ UNCHANGED <<left, right>>

Next == Round \/ Combine
Spec == Init /\ [][Next]_vars

\* multisig.rs:147: "This is a compact, correct implementation": the hash that
\* ends up in a multisig locking script is the one OP_HASH160 computes.
HashIsRipemd160 == j = 81 => h = Digest
=============================================================================
