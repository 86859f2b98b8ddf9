---------------------------- MODULE MCPagedStore ----------------------------
(* Small instances of PagedStore.                                          *)
EXTENDS PagedStore, TLC

CONSTANTS t1, t2, p1, p2, p3, p4, p5

TwoTypes == {t1, t2}
OneType == {t1}
FivePlaces == {p1, p2, p3, p4, p5}
FourPlaces == {p1, p2, p3, p4}
ThreePlaces == {p1, p2, p3}

\* Two ids that share the slot of a one-slot directory and part in a longer one.
TwoIds == {1, 2}
HashOfIds == [i \in {1, 2} |-> i]
OneId == {1}
HashOfOne == [i \in {1} |-> i]

TypeSymmetry == Permutations(FourPlaces) \cup Permutations(TwoTypes)
SmallSymmetry == Permutations(ThreePlaces) \cup Permutations(TwoTypes)
PlaceSymmetry == Permutations(FivePlaces)

\* Past a loss there is nothing left to check.
Intact == ~broken
=============================================================================
