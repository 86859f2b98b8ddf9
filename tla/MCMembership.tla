---- MODULE MCMembership ----
(* Three Quick-Nodes: n2 and n3 know only the seed n1 when they start. *)
EXTENDS Membership

CONSTANTS n1, n2, n3

MCNodes == {n1, n2, n3}
SeedConfig == [n \in MCNodes |-> IF n = n1 THEN {} ELSE {n1}]

SeedBeats == {n1}

\* Two nodes configured with each other.
PairNodes == {n1, n2}
PairConfig == [n \in PairNodes |-> PairNodes \ {n}]
====
