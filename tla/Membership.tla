----------------------------- MODULE Membership -----------------------------
(***************************************************************************)
(* Cluster membership of the Quick-Nodes: every node keeps a consistent-   *)
(* hash ring and a table of replication peers.  It announces itself when   *)
(* it starts, heartbeats its peers, evicts those that do not answer, and   *)
(* withdraws when it drains.  A novel announce or withdraw is relayed to   *)
(* the receiver's other peers.                                             *)
(*                                                                         *)
(* Calls between nodes are HTTP requests: the handler runs, then the       *)
(* answer returns.  A call fails when the callee is down or the link is    *)
(* cut, before or after the handler ran.  Relays are sent by a spawned     *)
(* task and nobody waits for them.  A restart loses the ring, the epoch    *)
(* counter and the set of events seen.                                     *)
(***************************************************************************)
EXTENDS Integers, FiniteSets

CONSTANTS Nodes,      \* Quick-Node addresses
          Config,     \* Config[n]: the peers in n's configuration
          Beating,    \* nodes whose process starts the heartbeat loop
          Strikes,    \* missed heartbeats before an eviction
          EpochCap,   \* epochs told apart; later ones are always novel
          Faulty,     \* nodes that crash, drain or lose the links between them
          MaxFaults   \* crashes, cuts and drains

ASSUME MembershipLimits ==
    /\ Config \in [Nodes -> SUBSET Nodes]
    /\ Beating \subseteq Nodes /\ Faulty \subseteq Nodes
    /\ Strikes \in Nat \ {0}
    /\ {EpochCap, MaxFaults} \subseteq Nat

VARIABLES up,        \* up[n]: the process runs
          draining,  \* draining[n]: the draining flag
          ring,      \* ring[n]: the physical nodes in n's ConsistentRing
          tracked,   \* tracked[n]: the peers in n's ReplicationWatermark
          seen,      \* seen[n]: (origin, epoch) pairs of GossipState
          epoch,     \* epoch[n]: the epoch counter of GossipState
          misses,    \* misses[n][p]: consecutive heartbeats p missed
          tick,      \* tick[n]: peers the current heartbeat round has left
          beat,      \* beat[n]: the heartbeat call in progress
          op,        \* op[n]: announce_self or drain in progress
          relays,    \* gossip messages fanout tasks are sending
          cut,       \* pairs of nodes whose link is cut
          faults,    \* crashes, cuts and drains so far
          lossy      \* history: a crash, a drain, a cut or a failed call

vars == <<up, draining, ring, tracked, seen, epoch, misses, tick, beat, op,
          relays, cut, faults, lossy>>

-----------------------------------------------------------------------------
NoCall == [st |-> "idle"]

\* A call of `from` with a gossip message; `nodes` is the NodeList returned.
Call(to, k, e) == [st |-> "sent", to |-> to, kind |-> k, epoch |-> e, nodes |-> {}]

NoOp == [kind |-> "none", epoch |-> 0, todo |-> {}, call |-> NoCall]

\* The loop of announce_self or drain goes on to its next peer, or ends.
GoOn(o) == IF o.todo = {} THEN NoOp ELSE [o EXCEPT !.call = NoCall]

Link(a, b) == {a, b} \notin cut

\* Of a ConsistentRing only the physical nodes matter here.
add_node(members, n) == members \cup {n}
remove_node(members, n) == members \ {n}

peer_addresses(n) == ring[n] \ {n}

\* Epochs are minted in order; past the cap they are not told apart.
NextEpoch(n) == IF epoch[n] <= EpochCap THEN epoch[n] + 1 ELSE epoch[n]

\* GossipState::mark_seen inserts; epochs past the cap are never duplicates.
Seen(n, o, e) == <<o, e>> \in seen[n]
MarkSeen(n, o, e) ==
    seen' = [seen EXCEPT ![n] = IF e > EpochCap THEN @ ELSE @ \cup {<<o, e>>}]

\* The messages fanout sends: to every peer but the originator.
Fanout(n, peers, k, o, e) ==
    IF e > EpochCap THEN {}
    ELSE {[kind |-> k, origin |-> o, epoch |-> e, from |-> n, to |-> p] :
             p \in peers \ {n, o}}

-----------------------------------------------------------------------------
\* handle_gossip at node t of the event (k, o, e).  `rest` are the relays that
\* remain once this message is taken.
HandleGossip(t, k, o, e, rest) ==
    IF Seen(t, o, e)
    THEN relays' = rest /\ UNCHANGED <<ring, tracked, seen>>
    ELSE /\ MarkSeen(t, o, e)
         /\ ring' = [ring EXCEPT ![t] = IF k = "Announce" THEN add_node(@, o) ELSE remove_node(@, o)]
         /\ tracked' = [tracked EXCEPT ![t] = IF k = "Announce" THEN @ \cup {o} ELSE @ \ {o}]
         /\ relays' = rest \cup Fanout(t, ring[t] \cup {o}, k, o, e)

-----------------------------------------------------------------------------
\* QuickNode::build and the start of announce_self in Server::start: the ring
\* is this node and its configured peers, and the announce is minted.
Announcing(n) ==
    IF Config[n] = {} THEN NoOp
    ELSE [kind |-> "Announce", epoch |-> 1, todo |-> Config[n] \ {n}, call |-> NoCall]

Start(n) ==
    /\ ~up[n]
    /\ up' = [up EXCEPT ![n] = TRUE]
    /\ draining' = [draining EXCEPT ![n] = FALSE]
    /\ ring' = [ring EXCEPT ![n] = {n} \cup Config[n]]
    /\ tracked' = [tracked EXCEPT ![n] = Config[n]]
    /\ op' = [op EXCEPT ![n] = Announcing(n)]
    /\ epoch' = [epoch EXCEPT ![n] = Announcing(n).epoch]
    /\ seen' = [seen EXCEPT ![n] = IF Config[n] = {} THEN {} ELSE {<<n, 1>>}]
    /\ UNCHANGED <<misses, tick, beat, relays, cut, faults, lossy>>

\* The process stops: nothing of its membership state is on disk.
Crash(n) ==
    /\ up[n] /\ n \in Faulty
    /\ faults < MaxFaults
    /\ faults' = faults + 1
    /\ up' = [up EXCEPT ![n] = FALSE]
    /\ draining' = [draining EXCEPT ![n] = FALSE]
    /\ ring' = [ring EXCEPT ![n] = {}]
    /\ tracked' = [tracked EXCEPT ![n] = {}]
    /\ seen' = [seen EXCEPT ![n] = {}]
    /\ epoch' = [epoch EXCEPT ![n] = 0]
    /\ misses' = [misses EXCEPT ![n] = [p \in Nodes |-> 0]]
    /\ tick' = [tick EXCEPT ![n] = {}]
    /\ beat' = [beat EXCEPT ![n] = NoCall]
    /\ op' = [op EXCEPT ![n] = NoOp]
    /\ lossy' = TRUE
    /\ UNCHANGED <<relays, cut>>

CutLink(a, b) ==
    /\ a # b /\ Link(a, b) /\ {a, b} \subseteq Faulty
    /\ faults < MaxFaults
    /\ faults' = faults + 1
    /\ cut' = cut \cup {{a, b}}
    /\ lossy' = TRUE
    /\ UNCHANGED <<up, draining, ring, tracked, seen, epoch, misses, tick, beat, op, relays>>

HealLink(a, b) ==
    /\ a # b /\ ~Link(a, b)
    /\ cut' = cut \ {{a, b}}
    /\ UNCHANGED <<up, draining, ring, tracked, seen, epoch, misses, tick, beat, op,
                   relays, faults, lossy>>

-----------------------------------------------------------------------------
\* start_heartbeat_loop, which Server::start spawns and the quick-node binary
\* does not.  The peers the heartbeat has yet to announce to.  A new round takes its
\* snapshot of the ring; the draining flag is only read at that point.
Round(n) ==
    IF tick[n] # {} THEN tick[n]
    ELSE IF draining[n] \/ n \notin Beating THEN {} ELSE peer_addresses(n)

\* heartbeat_tick announces to the next peer of the round, evicted or not.
HeartbeatSend(n) ==
    /\ up[n] /\ beat[n] = NoCall
    /\ \E p \in Round(n) :
          /\ tick' = [tick EXCEPT ![n] = Round(n) \ {p}]
          /\ epoch' = [epoch EXCEPT ![n] = NextEpoch(n)]
          /\ MarkSeen(n, n, NextEpoch(n))
          /\ beat' = [beat EXCEPT ![n] = Call(p, "Announce", NextEpoch(n))]
    /\ UNCHANGED <<up, draining, ring, tracked, misses, op, relays, cut, faults, lossy>>

\* The callee handles the heartbeat and answers.  The node list of the answer
\* is not used.
HeartbeatArrives(n) ==
    LET c == beat[n] IN
    /\ c.st = "sent" /\ up[c.to] /\ Link(n, c.to)
    /\ HandleGossip(c.to, c.kind, n, c.epoch, relays)
    /\ misses' = [misses EXCEPT ![n][c.to] = 0]
    /\ beat' = [beat EXCEPT ![n] = NoCall]
    /\ UNCHANGED <<up, draining, epoch, tick, op, cut, faults, lossy>>

\* The callee handles the heartbeat, and the link breaks before the answer.
HeartbeatUnanswered(n) ==
    LET c == beat[n] IN
    /\ c.st = "sent" /\ up[c.to] /\ Link(n, c.to)
    /\ {n, c.to} \subseteq Faulty
    /\ faults < MaxFaults
    /\ faults' = faults + 1
    /\ cut' = cut \cup {{n, c.to}}
    /\ lossy' = TRUE
    /\ HandleGossip(c.to, c.kind, n, c.epoch, relays)
    /\ UNCHANGED <<up, draining, epoch, misses, tick, beat, op>>

\* evict_peer
EvictPeer(n, p) ==
    /\ ring' = [ring EXCEPT ![n] = remove_node(@, p)]
    /\ tracked' = [tracked EXCEPT ![n] = @ \ {p}]

\* The call timed out or was refused: a strike, and an eviction at the last.
MutHeartbeatFails(n) ==
    LET c == beat[n] IN
    /\ c.st # "idle"
    /\ ~up[c.to] \/ ~Link(n, c.to)
    /\ beat' = [beat EXCEPT ![n] = NoCall]
    /\ misses' = [misses EXCEPT ![n][c.to] = IF @ < Strikes THEN @ + 1 ELSE @]
    /\ ring' = ring /\ tracked' = tracked /\ lossy' = TRUE
    /\ UNCHANGED <<up, draining, seen, epoch, tick, op, relays, cut, faults>>

HeartbeatFails(n) ==
    LET c == beat[n]
        strikes == misses[n][c.to] + 1
    IN
    /\ c.st # "idle"
    /\ ~up[c.to] \/ ~Link(n, c.to)
    /\ beat' = [beat EXCEPT ![n] = NoCall]
    /\ IF strikes >= Strikes
       THEN /\ misses' = [misses EXCEPT ![n][c.to] = 0]
            /\ EvictPeer(n, c.to)
            /\ lossy' = TRUE
       ELSE /\ misses' = [misses EXCEPT ![n][c.to] = strikes]
            /\ UNCHANGED <<ring, tracked, lossy>>
    /\ UNCHANGED <<up, draining, seen, epoch, tick, op, relays, cut, faults>>

-----------------------------------------------------------------------------
\* drain sets the flag; the withdraw is minted once the last flush is over.
BeginDrain(n) ==
    /\ up[n] /\ n \in Faulty /\ ~draining[n] /\ op[n] = NoOp
    /\ faults < MaxFaults
    /\ faults' = faults + 1
    /\ draining' = [draining EXCEPT ![n] = TRUE]
    /\ op' = [op EXCEPT ![n] = [NoOp EXCEPT !.kind = "Flush"]]
    /\ lossy' = TRUE
    /\ UNCHANGED <<up, ring, tracked, seen, epoch, misses, tick, beat, relays, cut>>

Withdraw(n) ==
    /\ op[n].kind = "Flush"
    /\ epoch' = [epoch EXCEPT ![n] = NextEpoch(n)]
    /\ MarkSeen(n, n, NextEpoch(n))
    /\ op' = [op EXCEPT ![n] = GoOn([kind |-> "Withdraw", epoch |-> NextEpoch(n),
                                     todo |-> peer_addresses(n), call |-> NoCall])]
    /\ UNCHANGED <<up, draining, ring, tracked, misses, tick, beat, relays, cut, faults, lossy>>

\* announce_self and drain call their peers one after the other.
OpSend(n) ==
    LET o == op[n] IN
    /\ o.call = NoCall
    /\ \E p \in o.todo :
          op' = [op EXCEPT ![n] = [o EXCEPT !.todo = @ \ {p},
                                            !.call = Call(p, o.kind, o.epoch)]]
    /\ UNCHANGED <<up, draining, ring, tracked, seen, epoch, misses, tick, beat, relays,
                   cut, faults, lossy>>

\* The callee handles the message; the answer to a withdraw is ignored.
OpArrives(n) ==
    LET c == op[n].call IN
    /\ c.st = "sent" /\ up[c.to] /\ Link(n, c.to)
    /\ HandleGossip(c.to, c.kind, n, c.epoch, relays)
    /\ op' = [op EXCEPT ![n] =
                 IF c.kind = "Withdraw" THEN GoOn(op[n])
                 ELSE [op[n] EXCEPT !.call.st = "answered", !.call.nodes = ring'[c.to]]]
    /\ UNCHANGED <<up, draining, epoch, misses, tick, beat, cut, faults, lossy>>

\* The node list of the answer, other than this node, joins the ring.
MutMerge(n, nodes) ==
    /\ ring' = [ring EXCEPT ![n] = @ \cup (nodes \cap {op[n].call.to})]
    /\ tracked' = [tracked EXCEPT ![n] = @ \cup ((nodes \cap {op[n].call.to}) \ {n})]

Merge(n, nodes) ==
    /\ ring' = [ring EXCEPT ![n] = @ \cup (nodes \ {n})]
    /\ tracked' = [tracked EXCEPT ![n] = @ \cup (nodes \ {n})]

OpReturns(n) ==
    LET c == op[n].call IN
    /\ c.st = "answered" /\ up[c.to] /\ Link(n, c.to)
    /\ Merge(n, c.nodes)
    /\ op' = [op EXCEPT ![n] = GoOn(op[n])]
    /\ UNCHANGED <<up, draining, seen, epoch, misses, tick, beat, relays, cut, faults, lossy>>

\* A failed call is logged and not repeated.
OpFails(n) ==
    LET c == op[n].call IN
    /\ c.st # "idle"
    /\ ~up[c.to] \/ ~Link(n, c.to)
    /\ op' = [op EXCEPT ![n] = GoOn(op[n])]
    /\ lossy' = TRUE
    /\ UNCHANGED <<up, draining, ring, tracked, seen, epoch, misses, tick, beat, relays,
                   cut, faults>>

-----------------------------------------------------------------------------
\* A relay reaches its target.  Its answer is only logged.
RelayArrives ==
    \E m \in relays :
       /\ up[m.to] /\ Link(m.from, m.to)
       /\ HandleGossip(m.to, m.kind, m.origin, m.epoch, relays \ {m})
       /\ UNCHANGED <<up, draining, epoch, misses, tick, beat, op, cut, faults, lossy>>

\* Sender or target is gone, or the link is cut.
RelayLost ==
    \E m \in relays :
       /\ ~up[m.to] \/ ~up[m.from] \/ ~Link(m.from, m.to)
       /\ relays' = relays \ {m}
       /\ lossy' = TRUE
       /\ UNCHANGED <<up, draining, ring, tracked, seen, epoch, misses, tick, beat, op,
                      cut, faults>>

-----------------------------------------------------------------------------
Init ==
    /\ up = [n \in Nodes |-> FALSE]
    /\ draining = [n \in Nodes |-> FALSE]
    /\ ring = [n \in Nodes |-> {}]
    /\ tracked = [n \in Nodes |-> {}]
    /\ seen = [n \in Nodes |-> {}]
    /\ epoch = [n \in Nodes |-> 0]
    /\ misses = [n \in Nodes |-> [p \in Nodes |-> 0]]
    /\ tick = [n \in Nodes |-> {}]
    /\ beat = [n \in Nodes |-> NoCall]
    /\ op = [n \in Nodes |-> NoOp]
    /\ relays = {}
    /\ cut = {}
    /\ faults = 0
    /\ lossy = FALSE

Heartbeat(n) ==
    HeartbeatSend(n) \/ HeartbeatArrives(n) \/ HeartbeatFails(n)

Operation(n) ==
    Withdraw(n) \/ OpSend(n) \/ OpArrives(n) \/ OpReturns(n) \/ OpFails(n)

Next ==
    \/ \E n \in Nodes :
          Start(n) \/ Crash(n) \/ BeginDrain(n) \/ HeartbeatUnanswered(n) \/ Heartbeat(n) \/ Operation(n)
    \/ \E a, b \in Nodes : CutLink(a, b) \/ HealLink(a, b)
    \/ RelayArrives \/ RelayLost

Spec == Init /\ [][Next]_vars

\* The tasks of a live process run: the heartbeat loop ticks, and a call
\* returns or fails within its timeout.
FairSpec ==
    /\ Spec
    /\ \A n \in Nodes : WF_vars(Heartbeat(n)) /\ WF_vars(Operation(n))
    /\ WF_vars(RelayArrives) /\ WF_vars(RelayLost)

-----------------------------------------------------------------------------
\* No call is in progress and no relay is on its way.
Quiet == relays = {} /\ \A n \in Nodes : beat[n] = NoCall /\ op[n] = NoOp

\* A running node is always in its own ring, so it can own partitions.  A
\* withdraw of its earlier life is never applied to itself: fanout skips the
\* originator, and its own `seen` set would not stop it after a restart.
SelfInRing == \A n \in Nodes : up[n] => n \in ring[n]

\* The replication table holds exactly the other members of the ring, whichever
\* of build, announce, withdraw, merge and eviction changed the ring.
TrackedIsRing == \A n \in Nodes : up[n] => tracked[n] = ring[n] \ {n}

\* "Every node computes the same owner from the same ring membership": when no
\* gossip is in flight and nothing crashed, drained or was lost, all running
\* nodes have the same ring, whatever the order in which they joined through
\* their configured peers.
RingsAgree ==
    Quiet /\ ~lossy => \A m, n \in Nodes : up[m] /\ up[n] => ring[m] = ring[n]

\* Rings as a whole: every node serves in its own, replicates to its other members,
\* and nodes at rest agree.
RingsSound == SelfInRing /\ TrackedIsRing /\ RingsAgree

\* A node that stops for good leaves the ring of every node that keeps running
\* and heartbeating: its partitions re-derive to the survivors.
StoppedIsEvicted ==
    \A m \in Nodes, n \in Beating :
       <>[](~up[m]) /\ <>[](up[n] /\ ~draining[n]) => <>[](m \notin ring[n])

\* "An evicted node that was merely partitioned re-adds itself with its own next
\* announce - membership converges from the gossip stream": two nodes that run
\* and can reach each other for good end up in each other's rings.
MembershipConverges ==
    \A m, n \in Beating :
       <>[](up[m] /\ up[n] /\ ~draining[m] /\ ~draining[n] /\ Link(m, n))
          => <>[](m \in ring[n])

\* A drain "sends Withdraw to all peers so they remove this node from their
\* rings before it stops accepting connections": a running node whose ring the
\* drained node has left does not take it back while the drain lasts.
WithdrawnStaysOut ==
    [][\A m, n \in Nodes :
          draining[n] /\ draining'[n] /\ op[n] = NoOp /\ up[m] /\ up'[m] /\ n \notin ring[m]
             => n \notin ring'[m]]_vars

\* An announce that is answered has put its sender in the callee's ring.
AnnounceReadds ==
    \A n \in Nodes : op[n].call.st = "answered" /\ op[n].kind = "Announce"
       => n \in op[n].call.nodes

=============================================================================
