--------------------------- MODULE MCLiveTracker ---------------------------
(* Small instances of LiveTracker.                                         *)
EXTENDS LiveTracker, TLC

TaskSymmetry == Permutations(Tasks)
=============================================================================
