---------------------------- MODULE MCWalletSync ----------------------------
(* Two syncs of two keys, which may derive one address or two; the two   *)
(* coins come from one transaction.                                           *)
EXTENDS WalletSync, TLC
CONSTANTS k1, k2, a1, a2, a3, c1, c2, s1, s2, x
MCKeys == <<k1, k2>>
\* Two addresses, one address twice, and an imported key.
MCDerivations == {k1 :> a1 @@ k2 :> a2, k1 :> a1 @@ k2 :> a1, k1 :> None @@ k2 :> a2}
MCTxOf == [c \in Coins |-> x]
MCPaysTo == c1 :> a1 @@ c2 :> a2
\* ... or the second one is the change of a send.
MCWithChange == c1 :> a1 @@ c2 :> a3
MCOneDerivation == {k1 :> a1 @@ k2 :> a2}
MCSymmetry == Permutations(Syncs)
=============================================================================
