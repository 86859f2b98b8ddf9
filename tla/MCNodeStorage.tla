--------------------------- MODULE MCNodeStorage ---------------------------
(* NodeStorage with two ids and two committing threads.                    *)
EXTENDS NodeStorage, TLC

Symmetry == Permutations(Ids) \cup Permutations(Writers)
=============================================================================
