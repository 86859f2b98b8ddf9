----------------------------- MODULE MCDataFile -----------------------------
(* Two keys on one page, which part when the table has seven.              *)
EXTENDS DataFile, TLC

CONSTANTS k1, k2, w1, w2
MCHash == k1 :> 0 @@ k2 :> 4
MCProbe == k1 :> 0 @@ k2 :> 6
Symmetry == Permutations(Writers)
=============================================================================
