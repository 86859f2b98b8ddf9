---- MODULE MCQuickNode ----
(* Two nodes hold the partition; the first is its owner by the full ring. *)
EXTENDS QuickNode

CONSTANTS a, b

MCOrder == <<a, b>>
====
