--------------------------- MODULE MCWalletFiles ---------------------------
(* Two paths, one with a wallet of an older version. *)
EXTENDS WalletFiles, TLC
CONSTANTS w1, w2, p1, p2, f1, f2, f3, t1, t2
MCSymmetry == Permutations(Tasks) \cup Permutations(Passwords) \cup Permutations(Files)
=============================================================================
