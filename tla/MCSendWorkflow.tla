--------------------------- MODULE MCSendWorkflow ---------------------------
(* Small instances of SendWorkflow for TLC. *)
EXTENDS SendWorkflow, TLC

CONSTANTS w1, w2, c1, c2, p1, s1, s2, t1, t2

MCOwner == c1 :> w1 @@ c2 :> w2
MCEnrols == s1 :> w1 @@ s2 :> w2
\* Tasks are interchangeable.
TaskSymmetry == Permutations(Tasks)
=============================================================================
