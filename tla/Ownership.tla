----------------------------- MODULE Ownership ------------------------------
(***************************************************************************)
(* The pins that override the ring while a range moves, and the tracker of *)
(* the moves.  A range is the interval of two shard numbers.  Pins may     *)
(* overlap and repeat, and the vector does not keep its order.             *)
(***************************************************************************)
EXTENDS Integers, Sequences, Functions

CONSTANTS PinTenants, Shards,
          RingOwned,     \* the <<tenant, shard>> the ring gives this node
          PinNodes,      \* ids of the nodes a partition moves between
          MaxPins, MaxTransfers

VARIABLES
    pins,       \* OwnershipMap.inner
    transfers,  \* id -> record
    nextId,     \* next_id
    claims,     \* history: how often each pin was added, less how often removed
    begun       \* history: id -> the partition of the transfer

ownershipVars == <<pins, transfers, nextId, claims, begun>>

Ranges == Shards \X Shards   \* <<start, end>>, empty when start > end
Partitions == PinTenants \X Ranges
States == {"Pending", "Accepted", "Complete", "Rejected"}

OwnershipInit ==
    /\ pins = <<>> /\ transfers = <<>> /\ nextId = 0
    /\ claims = [p \in Partitions |-> 0] /\ begun = <<>>

contains(range, shard) == range[1] <= shard /\ shard <= range[2]

add(p) ==
    /\ Len(pins) < MaxPins
    /\ pins' = Append(pins, p)
    /\ claims' = [claims EXCEPT ![p] = @ + 1]
    /\ UNCHANGED <<transfers, nextId, begun>>

\* swap_remove: the last element takes the place of the removed one.
MutSwapRemoved(s, k) == SubSeq([s EXCEPT ![k] = s[Len(s)]], 1, Len(s))
SwapRemoved(s, k) == SubSeq([s EXCEPT ![k] = s[Len(s)]], 1, Len(s) - 1)

remove(p) ==
    /\ p \in Range(pins)
    /\ LET pos == CHOOSE k \in DOMAIN pins : pins[k] = p /\ \A j \in 1..(k - 1) : pins[j] # p
       IN  pins' = SwapRemoved(pins, pos)
    /\ claims' = [claims EXCEPT ![p] = @ - 1]
    /\ UNCHANGED <<transfers, nextId, begun>>

pin_owns(t, shard) == \E k \in DOMAIN pins : pins[k][1] = t /\ contains(pins[k][2], shard)

\* QuickNode::owns: a pin, else the ring.
node_owns(t, shard) == pin_owns(t, shard) \/ <<t, shard>> \in RingOwned

begin(p, from, to) ==
    /\ nextId < MaxTransfers
    /\ nextId' = nextId + 1
    /\ transfers' = [x \in DOMAIN transfers \cup {nextId} |->
            IF x = nextId THEN [ownership |-> p, from |-> from, to |-> to, state |-> "Pending"]
            ELSE transfers[x]]
    /\ begun' = Append(begun, p)
    /\ UNCHANGED <<pins, claims>>

\* Any state may follow any other.
advance(id, state) ==
    /\ id \in DOMAIN transfers
    /\ transfers' = [transfers EXCEPT ![id].state = state]
    /\ UNCHANGED <<pins, nextId, claims, begun>>

finish(id) ==
    /\ id \in DOMAIN transfers
    /\ transfers' = [x \in DOMAIN transfers \ {id} |-> transfers[x]]
    /\ UNCHANGED <<pins, nextId, claims, begun>>

OwnershipNext ==
    \/ \E p \in Partitions : add(p) \/ remove(p)
    \/ \E p \in Partitions, from, to \in PinNodes : from # to /\ begin(p, from, to)
    \/ \E id \in DOMAIN transfers : finish(id) \/ \E s \in States : advance(id, s)

OwnershipSpec == OwnershipInit /\ [][OwnershipNext]_ownershipVars

-----------------------------------------------------------------------------

\* A node serves a shard exactly when the ring gives it the shard or some range with
\* the shard was claimed more often than released, whatever order overlapping and
\* repeated claims were released in (add, remove with swap_remove, owns).
OwnsExact ==
    \A t \in PinTenants, shard \in Shards :
        node_owns(t, shard) <=>
            \/ <<t, shard>> \in RingOwned
            \/ \E r \in Ranges : claims[<<t, r>>] > 0 /\ r[1] <= shard /\ shard <= r[2]

\* A transfer id always stands for the partition it was begun for, although finished
\* transfers leave the table (begin, finish).
TransferIdsFresh == \A id \in DOMAIN transfers : transfers[id].ownership = begun[id + 1]

\* The pins and the transfers of partitions together.
OwnershipExact == OwnsExact /\ TransferIdsFresh

\* Does not hold: advance takes any state, so a transfer can be complete without
\* having been accepted.
HandshakeOrder ==
    [][\A id \in DOMAIN transfers : id \in DOMAIN transfers' /\ transfers'[id].state = "Complete"
            => transfers[id].state \in {"Accepted", "Complete"}]_ownershipVars

=============================================================================
