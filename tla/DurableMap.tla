----------------------------- MODULE DurableMap -----------------------------
(***************************************************************************)
(* What a page table promises: a map that changes one key at a time, a     *)
(* saved copy of it, and a restart that goes back to the saved copy.       *)
(***************************************************************************)
CONSTANTS Keys, Values

VARIABLES store,   \* what a read returns for each key
          saved    \* what the file would return for each key

Put(k, v) == store' = [store EXCEPT ![k] = v] /\ UNCHANGED saved
Save == saved' = store /\ UNCHANGED store
Restart == store' = saved /\ UNCHANGED saved

Init == \E v \in Values : store = [k \in Keys |-> v] /\ saved = store
Next == (\E k \in Keys, v \in Values : Put(k, v)) \/ Save \/ Restart

Spec == Init /\ [][Next]_<<store, saved>>
=============================================================================
