---------------------------- MODULE MCHeaderSync ----------------------------
(* Small instances of HeaderSync. *)
EXTENDS HeaderSync, TLC
CONSTANTS g, x1, x2, y1, y2, y3, t1, t2

\* A chain of three headers and, from the genesis on, a longer branch.
ForkParent == x1 :> g @@ x2 :> x1 @@ y1 :> g @@ y2 :> y1 @@ y3 :> y2
ForkHeight == g :> 0 @@ x1 :> 1 @@ x2 :> 2 @@ y1 :> 1 @@ y2 :> 2 @@ y3 :> 3
\* One chain: the server never reorganises.
LineParent == y1 :> g @@ y2 :> y1 @@ y3 :> y2
LineHeight == g :> 0 @@ y1 :> 1 @@ y2 :> 2 @@ y3 :> 3
\* A short fork, for the server that answers anything.
BushParent == x1 :> g @@ y1 :> g @@ y2 :> y1 @@ y3 :> y2
BushHeight == g :> 0 @@ x1 :> 1 @@ y1 :> 1 @@ y2 :> 2 @@ y3 :> 3
MCSymmetry == Permutations(Tasks)
=============================================================================
