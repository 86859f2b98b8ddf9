--------------------------- MODULE ServicesProofs ---------------------------
(***************************************************************************)
(* Services around the data path.                                          *)
(*                                                                         *)
(* Membership: a running node stays in its own ring, and its replication   *)
(* table follows its ring, for every number of nodes, every configuration  *)
(* and every sequence of crashes, drains, cuts, evictions and late gossip. *)
(*                                                                         *)
(* Browser: a call of the browser client resolves with the answer to its   *)
(* own request, for any number of tabs and calls and any order of answers, *)
(* lost sockets, disconnects and reloads.                                  *)
(*                                                                         *)
(* Ownership: a node serves a shard exactly while the ring gives it or a   *)
(* claim covers it, and transfer ids are fresh, for any pins and transfers.*)
(***************************************************************************)
EXTENDS Membership, Browser, Ownership, FiniteSetTheorems, WellFoundedInduction, TLAPS

-----------------------------------------------------------------------------
(* Membership: the inductive invariant.                                    *)

Kinds == {"none", "Announce", "Flush", "Withdraw"}
Messages == [kind : Kinds, origin : Nodes, epoch : Nat, from : Nodes, to : Nodes]
GossipCalls == [st : {"sent", "answered"}, to : Nodes, kind : Kinds, epoch : Nat,
                nodes : SUBSET Nodes]
Operations == [kind : Kinds, epoch : Nat, todo : SUBSET Nodes, call : GossipCalls \cup {NoCall}]

RingTypeOK ==
    /\ up \in [Nodes -> BOOLEAN]
    /\ ring \in [Nodes -> SUBSET Nodes]
    /\ tracked \in [Nodes -> SUBSET Nodes]
    /\ epoch \in [Nodes -> Nat]
    /\ tick \in [Nodes -> SUBSET Nodes]
    /\ beat \in [Nodes -> GossipCalls \cup {NoCall}]
    /\ op \in [Nodes -> Operations]
    /\ relays \subseteq Messages

\* Nobody is told of itself: the rounds of heartbeat, announce_self and drain leave
\* out the node that runs them, and relays leave out the originator.
ToldOfOthers ==
    /\ \A n \in Nodes :
          /\ n \notin tick[n] /\ n \notin op[n].todo
          /\ beat[n] # NoCall => beat[n].to # n
          /\ op[n].call # NoCall => op[n].call.to # n
    /\ \A m \in relays : m.to # m.origin

\* No node is configured as its own peer.
NoSelfPeer == \A n \in Nodes : n \notin Config[n]

RingInv == RingTypeOK /\ ToldOfOthers /\ SelfInRing /\ (NoSelfPeer => TrackedIsRing)

-----------------------------------------------------------------------------
(* What handlers and calls do to it.                                       *)

\* A call is a call, and not the absence of one.
LEMMA CallsAreCalls ==
    /\ \A c \in GossipCalls : c # NoCall /\ c.st # "idle"
    /\ NoCall.st = "idle"
BY DEF GossipCalls, NoCall

\* handle_gossip of an event of another node leaves the node in its own ring and
\* changes the ring and the replication table alike.
LEMMA HandleGossipStep ==
    ASSUME RingTypeOK, ToldOfOthers, NEW t \in Nodes, NEW k \in Kinds, NEW o \in Nodes \ {t},
           NEW e \in Nat, NEW rest \in SUBSET relays, HandleGossip(t, k, o, e, rest)
    PROVE  /\ ring' \in [Nodes -> SUBSET Nodes] /\ tracked' \in [Nodes -> SUBSET Nodes]
           /\ relays' \subseteq Messages /\ \A m \in relays' : m.to # m.origin
           /\ \A n \in Nodes : n \in ring[n] => n \in ring'[n]
           /\ \A n \in Nodes : tracked[n] = ring[n] \ {n} => tracked'[n] = ring'[n] \ {n}
<1>1. CASE Seen(t, o, e)
  BY <1>1 DEF HandleGossip, RingTypeOK, ToldOfOthers
<1>2. CASE ~Seen(t, o, e)
  <2>1. /\ ring' = [ring EXCEPT ![t] = IF k = "Announce" THEN @ \cup {o} ELSE @ \ {o}]
        /\ tracked' = [tracked EXCEPT ![t] = IF k = "Announce" THEN @ \cup {o} ELSE @ \ {o}]
        /\ relays' = rest \cup Fanout(t, ring[t] \cup {o}, k, o, e)
    BY <1>2 DEF HandleGossip, add_node, remove_node
  <2>2. ring[t] \cup {o} \subseteq Nodes
    BY DEF RingTypeOK
  <2>3. \A m \in Fanout(t, ring[t] \cup {o}, k, o, e) : m \in Messages /\ m.to # m.origin
    BY <2>2 DEF Fanout, Messages
  <2>4. relays' \subseteq Messages /\ \A m \in relays' : m.to # m.origin
    BY <2>1, <2>3 DEF RingTypeOK, ToldOfOthers
  <2>5. ring' \in [Nodes -> SUBSET Nodes] /\ tracked' \in [Nodes -> SUBSET Nodes]
    BY <2>1 DEF RingTypeOK
  <2>6. \A n \in Nodes : n \in ring[n] => n \in ring'[n]
    BY <2>1 DEF RingTypeOK
  <2>7. \A n \in Nodes : tracked[n] = ring[n] \ {n} => tracked'[n] = ring'[n] \ {n}
    BY <2>1 DEF RingTypeOK
  <2> QED BY <2>4, <2>5, <2>6, <2>7
<1> QED BY <1>1, <1>2

\* The loop of announce_self or drain goes on, or is over.
LEMMA GoOnStep ==
    ASSUME NEW o \in Operations
    PROVE  /\ GoOn(o) \in Operations /\ GoOn(o).todo \subseteq o.todo
           /\ GoOn(o).call = NoCall
BY DEF GoOn, NoOp, Operations, Kinds

LEMMA NextEpochType == ASSUME RingTypeOK, NEW n \in Nodes PROVE NextEpoch(n) \in Nat
BY MembershipLimits DEF RingTypeOK, NextEpoch

\* A step that changes one operation, and the rings as handlers do.
LEMMA OperationStep ==
    ASSUME RingInv, NEW n \in Nodes, NEW o \in Operations, op' = [op EXCEPT ![n] = o],
           n \notin o.todo, o.call # NoCall => o.call.to # n,
           ring' \in [Nodes -> SUBSET Nodes], tracked' \in [Nodes -> SUBSET Nodes],
           relays' \subseteq Messages, \A m \in relays' : m.to # m.origin,
           \A m \in Nodes : m \in ring[m] => m \in ring'[m],
           \A m \in Nodes : tracked[m] = ring[m] \ {m} => tracked'[m] = ring'[m] \ {m},
           epoch' \in [Nodes -> Nat], UNCHANGED <<up, tick, beat>>
    PROVE  RingInv'
<1>1. RingTypeOK'
  BY DEF RingInv, RingTypeOK
<1>2. ToldOfOthers'
  BY DEF RingInv, RingTypeOK, ToldOfOthers
<1>3. SelfInRing' /\ (NoSelfPeer => TrackedIsRing')
  BY DEF RingInv, SelfInRing, TrackedIsRing
<1> QED BY <1>1, <1>2, <1>3 DEF RingInv, NoSelfPeer

\* A step that changes one heartbeat, and the rings as handlers do.
LEMMA BeatStep ==
    ASSUME RingInv, NEW n \in Nodes, NEW c \in GossipCalls \cup {NoCall}, beat' = [beat EXCEPT ![n] = c],
           NEW T \in SUBSET (Nodes \ {n}), tick' = [tick EXCEPT ![n] = T],
           c # NoCall => c.to # n,
           ring' \in [Nodes -> SUBSET Nodes], tracked' \in [Nodes -> SUBSET Nodes],
           relays' \subseteq Messages, \A m \in relays' : m.to # m.origin,
           \A m \in Nodes : m \in ring[m] => m \in ring'[m],
           \A m \in Nodes : tracked[m] = ring[m] \ {m} => tracked'[m] = ring'[m] \ {m},
           epoch' \in [Nodes -> Nat], UNCHANGED <<up, op>>
    PROVE  RingInv'
<1>1. RingTypeOK'
  BY DEF RingInv, RingTypeOK
<1>2. ToldOfOthers'
  BY DEF RingInv, RingTypeOK, ToldOfOthers
<1>3. SelfInRing' /\ (NoSelfPeer => TrackedIsRing')
  BY DEF RingInv, SelfInRing, TrackedIsRing
<1> QED BY <1>1, <1>2, <1>3 DEF RingInv, NoSelfPeer

-----------------------------------------------------------------------------
(* Every step preserves the invariant, one lemma per action.               *)

LEMMA InitRingInv == Init => RingInv
<1> SUFFICES ASSUME Init PROVE RingInv
  OBVIOUS
<1>1. RingTypeOK
  BY DEF Init, RingTypeOK, NoOp, Operations, Kinds
<1>2. ToldOfOthers /\ SelfInRing /\ TrackedIsRing
  BY DEF Init, ToldOfOthers, SelfInRing, TrackedIsRing, NoOp
<1> QED BY <1>1, <1>2 DEF RingInv

LEMMA StartStep == ASSUME RingInv, NEW n \in Nodes, Start(n) PROVE RingInv'
<1>1. /\ up' = [up EXCEPT ![n] = TRUE] /\ ring' = [ring EXCEPT ![n] = {n} \cup Config[n]]
      /\ tracked' = [tracked EXCEPT ![n] = Config[n]]
      /\ op' = [op EXCEPT ![n] = Announcing(n)]
      /\ epoch' = [epoch EXCEPT ![n] = Announcing(n).epoch]
      /\ UNCHANGED <<tick, beat, relays>>
  BY DEF Start
<1>2. Config[n] \subseteq Nodes
  BY MembershipLimits
<1>3. Announcing(n) \in Operations /\ n \notin Announcing(n).todo /\ Announcing(n).call = NoCall
  BY <1>2 DEF Announcing, NoOp, Operations, Kinds
<1>4. Announcing(n).epoch \in Nat
  BY <1>3 DEF Operations
<1>5. RingTypeOK'
  BY <1>1, <1>2, <1>3, <1>4 DEF RingInv, RingTypeOK
<1>6. ToldOfOthers'
  BY <1>1, <1>3 DEF RingInv, RingTypeOK, ToldOfOthers
<1>7. SelfInRing' /\ (NoSelfPeer => TrackedIsRing')
  BY <1>1 DEF RingInv, RingTypeOK, SelfInRing, TrackedIsRing, NoSelfPeer
<1> QED BY <1>5, <1>6, <1>7 DEF RingInv, NoSelfPeer

LEMMA CrashStep == ASSUME RingInv, NEW n \in Nodes, Crash(n) PROVE RingInv'
<1>1. /\ up' = [up EXCEPT ![n] = FALSE] /\ ring' = [ring EXCEPT ![n] = {}]
      /\ tracked' = [tracked EXCEPT ![n] = {}] /\ epoch' = [epoch EXCEPT ![n] = 0]
      /\ tick' = [tick EXCEPT ![n] = {}] /\ beat' = [beat EXCEPT ![n] = NoCall]
      /\ op' = [op EXCEPT ![n] = NoOp] /\ UNCHANGED relays
  BY DEF Crash
<1>2. NoOp \in Operations /\ NoOp.todo = {} /\ NoOp.call = NoCall
  BY DEF NoOp, Operations, Kinds
<1>3. RingTypeOK'
  BY <1>1, <1>2 DEF RingInv, RingTypeOK
<1>4. ToldOfOthers'
  BY <1>1, <1>2 DEF RingInv, RingTypeOK, ToldOfOthers
<1>5. SelfInRing' /\ (NoSelfPeer => TrackedIsRing')
  BY <1>1 DEF RingInv, RingTypeOK, SelfInRing, TrackedIsRing
<1> QED BY <1>3, <1>4, <1>5 DEF RingInv, NoSelfPeer

LEMMA HeartbeatSendStep == ASSUME RingInv, NEW n \in Nodes, HeartbeatSend(n) PROVE RingInv'
<1>1. PICK p \in Round(n) :
        /\ tick' = [tick EXCEPT ![n] = Round(n) \ {p}]
        /\ epoch' = [epoch EXCEPT ![n] = NextEpoch(n)]
        /\ beat' = [beat EXCEPT ![n] = Call(p, "Announce", NextEpoch(n))]
  BY DEF HeartbeatSend
<1>2. Round(n) \subseteq Nodes \ {n}
  BY DEF Round, peer_addresses, RingInv, RingTypeOK, ToldOfOthers
<1>3. NextEpoch(n) \in Nat
  BY NextEpochType DEF RingInv
<1>4. Call(p, "Announce", NextEpoch(n)) \in GossipCalls /\ Call(p, "Announce", NextEpoch(n)).to # n
  BY <1>2, <1>3 DEF Call, GossipCalls, Kinds
<1>5. epoch' \in [Nodes -> Nat]
  BY <1>1, <1>3 DEF RingInv, RingTypeOK
<1>6. UNCHANGED <<up, op, ring, tracked, relays>>
  BY DEF HeartbeatSend
<1>7. Round(n) \ {p} \in SUBSET (Nodes \ {n})
  BY <1>2
<1> QED BY <1>1, <1>4, <1>5, <1>6, <1>7, BeatStep DEF RingInv, RingTypeOK, ToldOfOthers

\* A heartbeat is handled by another node than the sender, answered or not.
LEMMA HeartbeatArrivesStep ==
    ASSUME RingInv, NEW n \in Nodes, HeartbeatArrives(n) \/ HeartbeatUnanswered(n)
    PROVE  RingInv'
<1> DEFINE c == beat[n]
<1>1. /\ c.st = "sent" /\ HandleGossip(c.to, c.kind, n, c.epoch, relays)
      /\ UNCHANGED <<up, epoch, tick, op>>
      /\ beat' = [beat EXCEPT ![n] = NoCall] \/ beat' = beat
  BY DEF HeartbeatArrives, HeartbeatUnanswered
<1>2. c \in GossipCalls /\ c.to # n
  BY <1>1, CallsAreCalls DEF RingInv, RingTypeOK, ToldOfOthers
<1>3. c.to \in Nodes /\ c.kind \in Kinds /\ c.epoch \in Nat /\ n \in Nodes \ {c.to}
  BY <1>2 DEF GossipCalls
<1>4. /\ ring' \in [Nodes -> SUBSET Nodes] /\ tracked' \in [Nodes -> SUBSET Nodes]
      /\ relays' \subseteq Messages /\ \A m \in relays' : m.to # m.origin
      /\ \A m \in Nodes : m \in ring[m] => m \in ring'[m]
      /\ \A m \in Nodes : tracked[m] = ring[m] \ {m} => tracked'[m] = ring'[m] \ {m}
  BY <1>1, <1>3, HandleGossipStep DEF RingInv
<1>5. PICK d \in GossipCalls \cup {NoCall} :
        beat' = [beat EXCEPT ![n] = d] /\ (d # NoCall => d.to # n)
  <2>1. CASE beat' = [beat EXCEPT ![n] = NoCall]
    BY <2>1
  <2>2. CASE beat' = beat
    <3>1. beat' = [beat EXCEPT ![n] = c]
      BY <2>2 DEF RingInv, RingTypeOK
    <3> QED BY <1>2, <3>1
  <2> QED BY <1>1, <2>1, <2>2
<1>6. tick[n] \in SUBSET (Nodes \ {n}) /\ tick' = [tick EXCEPT ![n] = tick[n]]
      /\ epoch' \in [Nodes -> Nat]
  BY <1>1 DEF RingInv, RingTypeOK, ToldOfOthers
<1> QED BY ZenonT(30), <1>1, <1>4, <1>5, <1>6, BeatStep

\* An eviction is of another node, and from both tables.
LEMMA HeartbeatFailsStep == ASSUME RingInv, NEW n \in Nodes, HeartbeatFails(n) PROVE RingInv'
<1> DEFINE c == beat[n]
<1>1. /\ c.st # "idle" /\ beat' = [beat EXCEPT ![n] = NoCall]
      /\ UNCHANGED <<up, epoch, tick, op, relays>>
      /\ \/ EvictPeer(n, c.to)
         \/ UNCHANGED <<ring, tracked>>
  BY DEF HeartbeatFails
<1>2. c.to # n
  BY <1>1, CallsAreCalls DEF RingInv, RingTypeOK, ToldOfOthers
<1>3. /\ ring' \in [Nodes -> SUBSET Nodes] /\ tracked' \in [Nodes -> SUBSET Nodes]
      /\ \A m \in Nodes : m \in ring[m] => m \in ring'[m]
      /\ \A m \in Nodes : tracked[m] = ring[m] \ {m} => tracked'[m] = ring'[m] \ {m}
  <2>1. CASE EvictPeer(n, c.to)
    BY <1>2, <2>1 DEF EvictPeer, remove_node, RingInv, RingTypeOK
  <2>2. CASE UNCHANGED <<ring, tracked>>
    BY <2>2 DEF RingInv, RingTypeOK
  <2> QED BY <1>1, <2>1, <2>2
<1>4. relays' \subseteq Messages /\ \A m \in relays' : m.to # m.origin
  BY <1>1 DEF RingInv, RingTypeOK, ToldOfOthers
<1>5. tick[n] \in SUBSET (Nodes \ {n}) /\ tick' = [tick EXCEPT ![n] = tick[n]]
      /\ epoch' \in [Nodes -> Nat]
  BY <1>1 DEF RingInv, RingTypeOK, ToldOfOthers
<1> QED BY <1>1, <1>3, <1>4, <1>5, BeatStep

\* The steps of announce_self and drain at the calling node.
LEMMA CallerSteps ==
    ASSUME RingInv, NEW n \in Nodes,
           BeginDrain(n) \/ Withdraw(n) \/ OpSend(n) \/ OpFails(n)
    PROVE  RingInv'
<1>1. /\ UNCHANGED <<up, tick, beat, ring, tracked, relays>>
      /\ epoch' = [epoch EXCEPT ![n] = NextEpoch(n)] \/ epoch' = epoch
  BY DEF BeginDrain, Withdraw, OpSend, OpFails
<1>2. epoch' \in [Nodes -> Nat]
  BY <1>1, NextEpochType DEF RingInv, RingTypeOK
<1>3. op[n] \in Operations /\ op[n].todo \in SUBSET Nodes /\ n \notin op[n].todo
  BY DEF RingInv, RingTypeOK, Operations, ToldOfOthers
<1>4. PICK o \in Operations :
        op' = [op EXCEPT ![n] = o] /\ n \notin o.todo /\ (o.call # NoCall => o.call.to # n)
  <2>1. CASE BeginDrain(n)
    <3>1. [NoOp EXCEPT !.kind = "Flush"] \in Operations
      BY DEF NoOp, Operations, Kinds
    <3> QED BY <2>1, <3>1 DEF BeginDrain, NoOp
  <2>2. CASE Withdraw(n)
    <3> DEFINE o == [kind |-> "Withdraw", epoch |-> NextEpoch(n), todo |-> peer_addresses(n),
                     call |-> NoCall]
    <3>1. o \in Operations /\ n \notin o.todo
      BY NextEpochType DEF RingInv, RingTypeOK, peer_addresses, Operations, Kinds
    <3>2. op' = [op EXCEPT ![n] = GoOn(o)]
      BY <2>2 DEF Withdraw
    <3> QED BY <3>1, <3>2, GoOnStep
  <2>3. CASE OpSend(n)
    <3>1. PICK p \in op[n].todo :
            op' = [op EXCEPT ![n] = [op[n] EXCEPT !.todo = @ \ {p},
                                                  !.call = Call(p, op[n].kind, op[n].epoch)]]
      BY <2>3 DEF OpSend
    <3> DEFINE c == Call(p, op[n].kind, op[n].epoch)
               o == [op[n] EXCEPT !.todo = @ \ {p}, !.call = c]
    <3>2. c \in GossipCalls /\ c.to = p
      BY <1>3, <3>1 DEF Call, GossipCalls, Operations
    <3> HIDE DEF c
    <3>3. o \in Operations /\ o.todo = op[n].todo \ {p} /\ o.call = c
      BY <1>3, <3>2 DEF Operations
    <3> QED BY <1>3, <3>1, <3>2, <3>3 DEF c
  <2>4. CASE OpFails(n)
    BY <1>3, <2>4, GoOnStep DEF OpFails
  <2> QED BY <2>1, <2>2, <2>3, <2>4
<1>5. /\ ring' \in [Nodes -> SUBSET Nodes] /\ tracked' \in [Nodes -> SUBSET Nodes]
      /\ relays' \subseteq Messages /\ \A m \in relays' : m.to # m.origin
  BY <1>1 DEF RingInv, RingTypeOK, ToldOfOthers
<1> QED BY <1>1, <1>2, <1>4, <1>5, OperationStep

LEMMA OpArrivesStep == ASSUME RingInv, NEW n \in Nodes, OpArrives(n) PROVE RingInv'
<1> DEFINE c == op[n].call
<1>1. /\ c.st = "sent" /\ HandleGossip(c.to, c.kind, n, c.epoch, relays)
      /\ UNCHANGED <<up, epoch, tick, beat>>
      /\ op' = [op EXCEPT ![n] =
                   IF c.kind = "Withdraw" THEN GoOn(op[n])
                   ELSE [op[n] EXCEPT !.call.st = "answered", !.call.nodes = ring'[c.to]]]
  BY DEF OpArrives
<1>2. op[n] \in Operations /\ n \notin op[n].todo
  BY DEF RingInv, RingTypeOK, ToldOfOthers
<1>3. c \in GossipCalls /\ c.to # n
  BY <1>1, <1>2, CallsAreCalls DEF Operations, RingInv, ToldOfOthers
<1>4. c.to \in Nodes /\ c.kind \in Kinds /\ c.epoch \in Nat /\ n \in Nodes \ {c.to}
  BY <1>3 DEF GossipCalls
<1>5. /\ ring' \in [Nodes -> SUBSET Nodes] /\ tracked' \in [Nodes -> SUBSET Nodes]
      /\ relays' \subseteq Messages /\ \A m \in relays' : m.to # m.origin
      /\ \A m \in Nodes : m \in ring[m] => m \in ring'[m]
      /\ \A m \in Nodes : tracked[m] = ring[m] \ {m} => tracked'[m] = ring'[m] \ {m}
  BY <1>1, <1>4, HandleGossipStep DEF RingInv
<1>6. PICK o \in Operations :
        op' = [op EXCEPT ![n] = o] /\ n \notin o.todo /\ (o.call # NoCall => o.call.to # n)
  <2>1. CASE c.kind = "Withdraw"
    BY <1>1, <1>2, <2>1, GoOnStep
  <2>2. CASE c.kind # "Withdraw"
    <3> DEFINE d == [c EXCEPT !.st = "answered", !.nodes = ring'[c.to]]
               o == [op[n] EXCEPT !.call = d]
    <3>1. d \in GossipCalls /\ d.to = c.to
      BY <1>3, <1>4, <1>5 DEF GossipCalls
    <3>2. op' = [op EXCEPT ![n] = o]
      BY <1>1, <1>2, <2>2 DEF Operations
    <3> HIDE DEF d
    <3>3. o \in Operations /\ o.todo = op[n].todo /\ o.call = d
      BY <1>2, <3>1 DEF Operations
    <3> QED BY <1>2, <1>3, <3>1, <3>2, <3>3
  <2> QED BY <2>1, <2>2
<1>7. epoch' \in [Nodes -> Nat]
  BY <1>1 DEF RingInv, RingTypeOK
<1> QED BY <1>1, <1>5, <1>6, <1>7, OperationStep

\* The nodes of an answer join both tables, without the node itself.
LEMMA OpReturnsStep == ASSUME RingInv, NEW n \in Nodes, OpReturns(n) PROVE RingInv'
<1> DEFINE c == op[n].call
<1>1. /\ c.st = "answered" /\ Merge(n, c.nodes) /\ op' = [op EXCEPT ![n] = GoOn(op[n])]
      /\ UNCHANGED <<up, epoch, tick, beat, relays>>
  BY DEF OpReturns
<1>2. op[n] \in Operations /\ n \notin op[n].todo
  BY DEF RingInv, RingTypeOK, ToldOfOthers
<1>3. c.nodes \subseteq Nodes
  BY <1>1, <1>2, CallsAreCalls DEF Operations, GossipCalls
<1>4. /\ ring' \in [Nodes -> SUBSET Nodes] /\ tracked' \in [Nodes -> SUBSET Nodes]
      /\ \A m \in Nodes : m \in ring[m] => m \in ring'[m]
      /\ \A m \in Nodes : tracked[m] = ring[m] \ {m} => tracked'[m] = ring'[m] \ {m}
  BY <1>1, <1>3 DEF Merge, RingInv, RingTypeOK
<1>5. /\ relays' \subseteq Messages /\ \A m \in relays' : m.to # m.origin
      /\ epoch' \in [Nodes -> Nat]
  BY <1>1 DEF RingInv, RingTypeOK, ToldOfOthers
<1> QED BY <1>1, <1>2, <1>4, <1>5, GoOnStep, OperationStep

LEMMA RelaySteps == ASSUME RingInv, RelayArrives \/ RelayLost PROVE RingInv'
<1>1. CASE RelayArrives
  <2>1. PICK m \in relays : HandleGossip(m.to, m.kind, m.origin, m.epoch, relays \ {m})
    BY <1>1 DEF RelayArrives
  <2>2. /\ m.to \in Nodes /\ m.kind \in Kinds /\ m.epoch \in Nat /\ m.origin \in Nodes \ {m.to}
        /\ relays \ {m} \in SUBSET relays
    BY DEF RingInv, RingTypeOK, Messages, ToldOfOthers
  <2>3. /\ ring' \in [Nodes -> SUBSET Nodes] /\ tracked' \in [Nodes -> SUBSET Nodes]
        /\ relays' \subseteq Messages /\ \A x \in relays' : x.to # x.origin
        /\ \A x \in Nodes : x \in ring[x] => x \in ring'[x]
        /\ \A x \in Nodes : tracked[x] = ring[x] \ {x} => tracked'[x] = ring'[x] \ {x}
    BY <2>1, <2>2, HandleGossipStep DEF RingInv
  <2>4. UNCHANGED <<up, epoch, tick, beat, op>>
    BY <1>1 DEF RelayArrives
  <2>5. RingTypeOK' /\ ToldOfOthers'
    BY <2>3, <2>4 DEF RingInv, RingTypeOK, ToldOfOthers
  <2>6. SelfInRing' /\ (NoSelfPeer => TrackedIsRing')
    BY <2>3, <2>4 DEF RingInv, SelfInRing, TrackedIsRing
  <2> QED BY <2>5, <2>6 DEF RingInv, NoSelfPeer
<1>2. CASE RelayLost
  <2>1. relays' \subseteq relays /\ UNCHANGED <<up, ring, tracked, epoch, tick, beat, op>>
    BY <1>2 DEF RelayLost
  <2> QED BY <2>1 DEF RingInv, RingTypeOK, ToldOfOthers, SelfInRing, TrackedIsRing, NoSelfPeer
<1> QED BY <1>1, <1>2

LEMMA RingInductive == RingInv /\ [Next]_vars => RingInv'
<1> SUFFICES ASSUME RingInv, [Next]_vars PROVE RingInv'
  OBVIOUS
<1>1. ASSUME NEW n \in Nodes,
             Start(n) \/ Crash(n) \/ BeginDrain(n) \/ HeartbeatUnanswered(n) \/ Heartbeat(n)
      PROVE  RingInv'
  BY <1>1, StartStep, CrashStep, CallerSteps, HeartbeatSendStep, HeartbeatArrivesStep,
     HeartbeatFailsStep DEF Heartbeat
<1>2. ASSUME NEW n \in Nodes, Operation(n) PROVE RingInv'
  BY <1>2, CallerSteps, OpArrivesStep, OpReturnsStep DEF Operation
<1>3. ASSUME UNCHANGED <<up, ring, tracked, epoch, tick, beat, op, relays>> PROVE RingInv'
  BY <1>3 DEF RingInv, RingTypeOK, ToldOfOthers, SelfInRing, TrackedIsRing, NoSelfPeer
<1>4. ASSUME NEW a \in Nodes, NEW b \in Nodes, CutLink(a, b) \/ HealLink(a, b) PROVE RingInv'
  BY <1>3, <1>4 DEF CutLink, HealLink
<1>5. CASE RelayArrives \/ RelayLost
  BY <1>5, RelaySteps
<1>6. CASE UNCHANGED vars
  BY <1>3, <1>6 DEF vars
<1> QED BY <1>1, <1>2, <1>4, <1>5, <1>6 DEF Next

-----------------------------------------------------------------------------
\* No withdraw, eviction or restart takes a running node out of its own ring, so it
\* goes on to own its partitions: a late withdraw of an earlier life is relayed to
\* everyone but its originator (handle_gossip, fanout, evict_peer).
THEOREM StaysInOwnRing == Spec => []SelfInRing
<1>1. RingInv => SelfInRing
  BY DEF RingInv
<1> QED BY InitRingInv, RingInductive, <1>1, PTL DEF Spec

\* The replication table is the ring without the node itself, after any gossip,
\* merge or eviction, unless a node is configured as its own peer (add_peer and
\* remove_peer beside add_node and remove_node).
THEOREM ReplicatesToItsRing == Spec => [](NoSelfPeer => TrackedIsRing)
<1>1. RingInv => (NoSelfPeer => TrackedIsRing)
  BY DEF RingInv
<1> QED BY InitRingInv, RingInductive, <1>1, PTL DEF Spec

-----------------------------------------------------------------------------
(* Browser: the inductive invariant, tab by tab.                           *)

Wire == [seq : Nat, kind : Calls \cup {"connect"}, call : Nat]
Inbox == [seq : Nat, of : Wire, owner : Owners \cup {NoOwner}]
TabRecords ==
    [st : {"idle", "opening", "handshake", "saving", "ready"},
     socket : {"none", "open", "closing", "closed"}, seq : Nat, owner : Owners \cup {NoOwner},
     pending : SUBSET Nat, wire : SUBSET Wire, inbox : SUBSET Inbox,
     done : SUBSET (Nat \X Wire), calls : Nat]

\* A request with a number other than 0 is the call of that number.
Numbered(q) == q.seq > 0 => q.kind \in Calls /\ q.call = q.seq

\* Only a session that is ready has calls.  The handshake waits for number 0, and
\* what comes after it has a number of its own.
Waiting(tab) ==
    /\ tab.st = "ready" => tab.seq = tab.calls + 1 /\ tab.pending \subseteq 1..tab.calls
    /\ tab.st # "ready" => tab.calls = 0 /\ tab.done = {}
    /\ tab.st \in {"idle", "opening", "saving"} => tab.pending = {}
    /\ tab.st = "handshake" => tab.pending \subseteq {0}

\* A number that was answered is waited for no more.
Resolved(tab) ==
    /\ \A d \in tab.done : /\ d[1] \in 1..tab.calls /\ d[1] \notin tab.pending
                           /\ d[2].kind \in Calls /\ d[2].call = d[1]
    /\ \A d, e \in tab.done : e[1] = d[1] => e = d

TabOK(tab) ==
    /\ tab \in TabRecords
    /\ \A q \in tab.wire : Numbered(q)
    /\ \A a \in tab.inbox : a.of.seq = a.seq /\ Numbered(a.of)
    /\ Waiting(tab) /\ Resolved(tab)

BrowserInv == tabs = [b \in Tabs |-> tabs[b]] /\ \A b \in Tabs : TabOK(tabs[b])

LEMMA ReplaceTab ==
    ASSUME BrowserInv, NEW b \in Tabs, NEW tab, TabOK(tab), tabs' = [tabs EXCEPT ![b] = tab]
    PROVE  BrowserInv'
BY DEF BrowserInv

LEMMA FreshTabOK == TabOK(FreshTab)
BY DEF TabOK, FreshTab, TabRecords, Waiting, Resolved

-----------------------------------------------------------------------------
(* Every step preserves it.                                                *)

LEMMA ConnectSteps ==
    ASSUME BrowserInv, NEW b \in Tabs, connect(b) \/ OpenFails(b) \/ Opened(b) PROVE BrowserInv'
<1> DEFINE tab == tabs[b]
<1>1. TabOK(tab)
  BY DEF BrowserInv
<1>2. CASE connect(b)
  <2>1. tabs' = [tabs EXCEPT ![b] = [tab EXCEPT !.st = "opening"]] /\ tab.st = "idle"
    BY <1>2 DEF connect
  <2>2. TabOK([tab EXCEPT !.st = "opening"])
    BY <1>1, <2>1 DEF TabOK, TabRecords, Waiting, Resolved
  <2> QED BY <2>1, <2>2, ReplaceTab
<1>3. CASE OpenFails(b)
  <2>1. tabs' = [tabs EXCEPT ![b] = [tab EXCEPT !.st = "idle"]] /\ tab.st = "opening"
    BY <1>3 DEF OpenFails
  <2>2. TabOK([tab EXCEPT !.st = "idle"])
    BY <1>1, <2>1 DEF TabOK, TabRecords, Waiting, Resolved
  <2> QED BY <2>1, <2>2, ReplaceTab
<1>4. CASE Opened(b)
  <2> DEFINE zero == {0}
             first == {Request(0, "connect", 0)}
             new == [tab EXCEPT !.st = "handshake", !.socket = "open", !.pending = zero,
                                !.wire = first]
  <2>1. tabs' = [tabs EXCEPT ![b] = new] /\ tab.st = "opening"
    BY <1>4 DEF Opened, BrowserInv
  <2>2. /\ zero \in SUBSET Nat /\ zero \subseteq {0}
        /\ first \in SUBSET Wire /\ \A q \in first : q.seq = 0
    BY DEF Request, Wire
  <2> HIDE DEF zero, first
  <2>3. TabOK(new)
    <3>1. new \in TabRecords
      BY <1>1, <2>2 DEF TabOK, TabRecords
    <3>2. /\ new.st = "handshake" /\ new.pending = zero /\ new.calls = tab.calls
          /\ new.done = tab.done /\ new.inbox = tab.inbox
          /\ new.wire = first
      BY <1>1 DEF TabOK, TabRecords
    <3>3. tab.calls = 0 /\ tab.done = {}
      BY <1>1, <2>1 DEF TabOK, Waiting
    <3> QED BY <1>1, <2>2, <3>1, <3>2, <3>3 DEF TabOK, Waiting, Resolved, Numbered
  <2> QED BY <2>1, <2>3, ReplaceTab
<1> QED BY <1>2, <1>3, <1>4

\* An answer carries the number of the request it answers.
LEMMA AnswerStep ==
    ASSUME BrowserInv, NEW b \in Tabs, NEW q \in tabs[b].wire,
           NEW owner \in IF q.kind = "connect" THEN Owners ELSE {NoOwner},
           NodeAnswers(b, q, owner)
    PROVE  BrowserInv'
<1> DEFINE tab == tabs[b]
           a == [seq |-> q.seq, of |-> q, owner |-> owner]
           new == [tab EXCEPT !.wire = @ \ {q}, !.inbox = @ \cup {a}]
<1>1. TabOK(tab) /\ tab \in TabRecords
  BY DEF BrowserInv, TabOK
<1>2. tabs' = [tabs EXCEPT ![b] = new]
  BY <1>1 DEF NodeAnswers, BrowserInv, TabRecords
<1>3. a \in Inbox /\ a.of.seq = a.seq /\ Numbered(a.of)
  BY <1>1 DEF TabOK, TabRecords, Wire, Inbox
<1> HIDE DEF a
<1>4. /\ new \in TabRecords /\ new.wire = tab.wire \ {q} /\ new.inbox = tab.inbox \cup {a}
      /\ new.st = tab.st /\ new.seq = tab.seq /\ new.calls = tab.calls
      /\ new.pending = tab.pending /\ new.done = tab.done
  BY <1>1, <1>3 DEF TabRecords
<1> HIDE DEF new
<1>5. TabOK(new)
  BY <1>1, <1>3, <1>4 DEF TabOK, Waiting, Resolved
<1> QED BY <1>2, <1>5, ReplaceTab

\* An answer is taken by the call that waits for its number, once.
LEMMA MessageStep ==
    ASSUME BrowserInv, NEW b \in Tabs, NEW a \in tabs[b].inbox, onmessage(b, a)
    PROVE  BrowserInv'
<1> DEFINE tab == tabs[b]
           rest == [tab EXCEPT !.inbox = @ \ {a}, !.pending = @ \ {a.seq}]
<1>1. TabOK(tab) /\ tab \in TabRecords
  BY DEF BrowserInv, TabOK
<1>2. a \in Inbox /\ a.seq \in Nat /\ a.of \in Wire /\ a.owner \in Owners \cup {NoOwner}
      /\ a.of.seq = a.seq /\ Numbered(a.of)
  BY <1>1 DEF TabOK, TabRecords, Inbox
<1>3. /\ rest \in TabRecords
      /\ rest.inbox = tab.inbox \ {a} /\ rest.pending = tab.pending \ {a.seq}
      /\ rest.wire = tab.wire /\ rest.st = tab.st /\ rest.seq = tab.seq
      /\ rest.calls = tab.calls /\ rest.done = tab.done
  BY <1>1 DEF TabRecords
<1>4. TabOK(rest)
  BY <1>1, <1>3 DEF TabOK, Waiting, Resolved
<1>5. tabs' = [tabs EXCEPT ![b] =
                  IF a.seq \notin tab.pending THEN rest
                  ELSE IF tab.st = "handshake"
                  THEN [rest EXCEPT !.st = "saving", !.owner = a.owner]
                  ELSE [rest EXCEPT !.done = @ \cup {<<a.seq, a.of>>}]]
  BY DEF onmessage
<1> HIDE DEF rest
<1>6. CASE a.seq \notin tab.pending
  BY <1>4, <1>5, <1>6, ReplaceTab
<1>7. CASE a.seq \in tab.pending /\ tab.st = "handshake"
  <2> DEFINE new == [rest EXCEPT !.st = "saving", !.owner = a.owner]
  <2>1. /\ new \in TabRecords
        /\ new.inbox = rest.inbox /\ new.pending = rest.pending /\ new.wire = rest.wire
        /\ new.st = "saving" /\ new.calls = rest.calls /\ new.done = rest.done
    BY <1>2, <1>3 DEF TabRecords
  <2>2. rest.pending = {}
    BY <1>1, <1>3, <1>7 DEF TabOK, Waiting
  <2>3. TabOK(new)
    BY <1>3, <1>4, <1>7, <2>1, <2>2 DEF TabOK, Waiting, Resolved
  <2> QED BY <1>5, <1>7, <2>3, ReplaceTab
<1>8. CASE a.seq \in tab.pending /\ tab.st # "handshake"
  <2> DEFINE d == <<a.seq, a.of>>
             new == [rest EXCEPT !.done = @ \cup {d}]
  <2>1. tab.st = "ready" /\ a.seq \in 1..tab.calls
    BY <1>1, <1>8 DEF TabOK, Waiting, TabRecords
  <2>2. tab.calls \in Nat
    BY <1>1 DEF TabRecords
  <2>3. /\ d \in Nat \X Wire /\ d[1] = a.seq /\ d[2] = a.of
        /\ d[2].kind \in Calls /\ d[2].call = d[1]
    BY <1>2, <2>1, <2>2 DEF Numbered
  <2> HIDE DEF d
  <2>4. /\ new \in TabRecords
        /\ new.inbox = rest.inbox /\ new.pending = rest.pending /\ new.wire = rest.wire
        /\ new.st = rest.st /\ new.seq = rest.seq /\ new.calls = rest.calls
        /\ new.done = rest.done \cup {d}
    BY <1>3, <2>3 DEF TabRecords
  <2> HIDE DEF new
  <2>5. \A e \in tab.done : e[1] # d[1]
    BY <1>1, <1>8, <2>3 DEF TabOK, Resolved
  <2>6. Resolved(new)
    BY <1>3, <1>4, <2>1, <2>3, <2>4, <2>5 DEF TabOK, Resolved
  <2>7. Waiting(new)
    BY <1>3, <1>4, <2>1, <2>4 DEF TabOK, Waiting
  <2>8. TabOK(new)
    BY <1>4, <2>4, <2>6, <2>7 DEF TabOK
  <2> QED BY <1>5, <1>8, <2>8, ReplaceTab DEF new, d
<1> QED BY <1>6, <1>7, <1>8

LEMMA SaveOwnerStep ==
    ASSUME BrowserInv, NEW b \in Tabs, NEW works \in BOOLEAN, save_owner(b, works) PROVE BrowserInv'
<1> DEFINE tab == tabs[b]
           new == [tab EXCEPT !.st = "ready", !.seq = 1]
<1>1. TabOK(tab) /\ tab \in TabRecords
  BY DEF BrowserInv, TabOK
<1>2. tabs' = [tabs EXCEPT ![b] = new] /\ tab.st = "saving"
  BY DEF save_owner, BrowserInv
<1>3. /\ new \in TabRecords
      /\ new.inbox = tab.inbox /\ new.pending = tab.pending /\ new.wire = tab.wire
      /\ new.st = "ready" /\ new.seq = 1 /\ new.calls = tab.calls /\ new.done = tab.done
  BY <1>1 DEF TabRecords
<1> HIDE DEF new
<1>4. TabOK(new)
  BY <1>1, <1>2, <1>3 DEF TabOK, Waiting, Resolved
<1> QED BY <1>2, <1>4, ReplaceTab

\* A new call has a number nobody waits for and nothing was answered under.
LEMMA SendStep ==
    ASSUME BrowserInv, NEW b \in Tabs, NEW kind \in Calls, send_raw(b, kind) PROVE BrowserInv'
<1> DEFINE tab == tabs[b]
           q == Request(tab.seq, kind, tab.calls + 1)
           w == Sent(tab, q)
           more == tab.pending \cup {tab.seq}
           next == tab.seq + 1
           made == tab.calls + 1
           new == [tab EXCEPT !.seq = next, !.calls = made, !.pending = more, !.wire = w]
<1>1. TabOK(tab) /\ tab \in TabRecords
  BY DEF BrowserInv, TabOK
<1>2. tabs' = [tabs EXCEPT ![b] = new] /\ tab.st = "ready"
  BY DEF send_raw
<1>3. tab.seq = tab.calls + 1 /\ tab.calls \in Nat /\ tab.seq \in Nat
  BY <1>1, <1>2 DEF TabOK, Waiting, TabRecords
<1>4. q \in Wire /\ Numbered(q)
  BY <1>3 DEF Request, Wire, Numbered
<1>5. w \in SUBSET Wire /\ \A x \in w : Numbered(x)
  BY <1>1, <1>4 DEF Sent, TabOK, TabRecords
<1>6. more \in SUBSET Nat /\ next \in Nat /\ made \in Nat
  BY <1>1, <1>3 DEF TabRecords
<1> HIDE DEF w, more, next, made
<1>7. /\ new \in TabRecords
      /\ new.inbox = tab.inbox /\ new.pending = more /\ new.wire = w
      /\ new.st = tab.st /\ new.seq = next /\ new.calls = made /\ new.done = tab.done
  BY ZenonT(30), <1>1, <1>5, <1>6 DEF TabRecords
<1> HIDE DEF new
<1>8. Waiting(new)
  BY <1>1, <1>2, <1>3, <1>7 DEF TabOK, Waiting, more, next, made
<1>9. Resolved(new)
  BY <1>1, <1>3, <1>7 DEF TabOK, Resolved, more, next, made
<1>10. TabOK(new)
  BY <1>1, <1>5, <1>7, <1>8, <1>9 DEF TabOK
<1> QED BY <1>2, <1>10, ReplaceTab DEF new, w, more, next, made

\* A socket that closes takes with it what was on its way.
LEMMA CloseSteps ==
    ASSUME BrowserInv, NEW b \in Tabs, disconnect(b) \/ SocketLost(b) PROVE BrowserInv'
<1> DEFINE tab == tabs[b]
           closed(s) == [tab EXCEPT !.socket = s, !.wire = {}, !.inbox = {}]
<1>1. TabOK(tab) /\ tab \in TabRecords
  BY DEF BrowserInv, TabOK
<1>2. PICK s \in {"closing", "closed"} : tabs' = [tabs EXCEPT ![b] = closed(s)]
  BY DEF disconnect, SocketLost, BrowserInv
<1>3. /\ closed(s) \in TabRecords
      /\ closed(s).inbox = {} /\ closed(s).wire = {} /\ closed(s).pending = tab.pending
      /\ closed(s).st = tab.st /\ closed(s).seq = tab.seq /\ closed(s).calls = tab.calls
      /\ closed(s).done = tab.done
  BY ZenonT(30), <1>1 DEF TabRecords
<1> HIDE DEF closed
<1>4. TabOK(closed(s))
  BY <1>1, <1>3 DEF TabOK, Waiting, Resolved
<1> QED BY <1>2, <1>4, ReplaceTab

LEMMA BrowserInductive == BrowserInv /\ [BrowserNext]_browserVars => BrowserInv'
<1> SUFFICES ASSUME BrowserInv, [BrowserNext]_browserVars PROVE BrowserInv'
  OBVIOUS
<1>1. ASSUME NEW b \in Tabs, connect(b) \/ OpenFails(b) \/ Opened(b) PROVE BrowserInv'
  BY <1>1, ConnectSteps
<1>2. ASSUME NEW b \in Tabs, NEW q \in tabs[b].wire,
             NEW owner \in IF q.kind = "connect" THEN Owners ELSE {NoOwner},
             NodeAnswers(b, q, owner)
      PROVE  BrowserInv'
  BY <1>2, AnswerStep
<1>3. ASSUME NEW b \in Tabs, NEW a \in tabs[b].inbox, onmessage(b, a) PROVE BrowserInv'
  BY <1>3, MessageStep
<1>4. ASSUME NEW b \in Tabs, NEW works \in BOOLEAN, save_owner(b, works) PROVE BrowserInv'
  BY <1>4, SaveOwnerStep
<1>5. ASSUME NEW b \in Tabs, NEW kind \in Calls, send_raw(b, kind) PROVE BrowserInv'
  BY <1>5, SendStep
<1>6. ASSUME NEW b \in Tabs, disconnect(b) \/ SocketLost(b) PROVE BrowserInv'
  BY <1>6, CloseSteps
<1>7. ASSUME NEW b \in Tabs, Reload(b) PROVE BrowserInv'
  BY <1>7, FreshTabOK, ReplaceTab DEF Reload
<1>8. ASSUME UNCHANGED tabs PROVE BrowserInv'
  BY <1>8 DEF BrowserInv
<1>9. ASSUME NEW i \in ObjectIds, put_object(i) \/ delete_object(i) PROVE BrowserInv'
  BY <1>8, <1>9 DEF put_object, delete_object
<1>10. CASE UNCHANGED browserVars
  BY <1>8, <1>10 DEF browserVars
<1> QED BY <1>1, <1>2, <1>3, <1>4, <1>5, <1>6, <1>7, <1>9, <1>10 DEF BrowserNext

-----------------------------------------------------------------------------
\* A call resolves with the answer to the very request it sent and with no second
\* one, whatever overlaps it and although disconnect reuses a number (send_raw,
\* onmessage, disconnect).
THEOREM AnswersAreOwn == BrowserSpec => []BrowserOwnAnswer
<1>1. BrowserInit => BrowserInv
  BY FreshTabOK DEF BrowserInit, BrowserInv
<1>2. BrowserInv => BrowserOwnAnswer
  BY DEF BrowserInv, TabOK, Resolved, BrowserOwnAnswer
<1> QED BY <1>1, BrowserInductive, <1>2, PTL DEF BrowserSpec

-----------------------------------------------------------------------------
(* The pins and the transfers.                                             *)

Positions(s, p) == {k \in DOMAIN s : s[k] = p}
TransferRecords == [ownership : Partitions, from : PinNodes, to : PinNodes, state : States]

\* The inductive invariant: a partition is pinned as often as it is claimed, and
\* the transfers in the table are among the ones begun, under the numbers given out.
OwnershipInv ==
    /\ pins \in Seq(Partitions) /\ claims \in [Partitions -> Nat]
    /\ \A p \in Partitions : claims[p] = Cardinality(Positions(pins, p))
    /\ nextId \in Nat /\ begun \in Seq(Partitions) /\ Len(begun) = nextId
    /\ DOMAIN transfers \subseteq 0..(nextId - 1)
    /\ transfers \in [DOMAIN transfers -> TransferRecords]
    /\ TransferIdsFresh

LEMMA LeastNatural ==
    ASSUME NEW T \in SUBSET Nat, T # {}
    PROVE  \E x \in T : \A y \in T : x <= y
<1> DEFINE R == OpToRel(<, Nat)
<1>1. IsWellFoundedOn(R, Nat)
  BY NatLessThanWellFounded
<1>2. \A x, y \in Nat : y < x => <<y, x>> \in R
  BY DEF OpToRel
<1> HIDE DEF R
<1>3. PICK x \in T : \A y \in T : ~(<<y, x>> \in R)
  BY <1>1, WFMin
<1>4. x \in Nat /\ \A y \in T : y \in Nat /\ ~(y < x)
  BY <1>2, <1>3
<1>5. \A y \in T : x <= y
  BY <1>4
<1> QED BY <1>5

LEMMA PositionsFinite ==
    ASSUME NEW s \in Seq(Partitions), NEW p
    PROVE  IsFiniteSet(Positions(s, p)) /\ Cardinality(Positions(s, p)) \in Nat
<1>1. Len(s) \in Nat /\ Positions(s, p) \in SUBSET (1..Len(s))
  BY DEF Positions
<1>2. IsFiniteSet(1..Len(s))
  BY <1>1, FS_Interval
<1> QED BY <1>1, <1>2, FS_Subset, FS_CardinalityType

\* Vec::push: one more of the pin, and the others as they were.
LEMMA PositionsAfterPush ==
    ASSUME NEW s \in Seq(Partitions), NEW p \in Partitions, NEW q \in Partitions
    PROVE  Cardinality(Positions(Append(s, p), q)) =
             IF q = p THEN Cardinality(Positions(s, q)) + 1 ELSE Cardinality(Positions(s, q))
<1>1. /\ Len(s) \in Nat /\ DOMAIN s = 1..Len(s)
      /\ DOMAIN Append(s, p) = 1..(Len(s) + 1)
      /\ \A k \in 1..(Len(s) + 1) : Append(s, p)[k] = IF k = Len(s) + 1 THEN p ELSE s[k]
  OBVIOUS
<1>2. CASE q = p
  <2>1. Positions(Append(s, p), q) = Positions(s, q) \cup {Len(s) + 1}
    BY <1>1, <1>2 DEF Positions
  <2>2. Len(s) + 1 \notin Positions(s, q)
    BY <1>1 DEF Positions
  <2> QED BY ZenonT(30), <1>2, <2>1, <2>2, PositionsFinite, FS_AddElement
<1>3. CASE q # p
  <2>1. Positions(Append(s, p), q) = Positions(s, q)
    BY <1>1, <1>3 DEF Positions
  <2> QED BY <1>3, <2>1
<1> QED BY <1>2, <1>3

\* Vec::swap_remove: one less of the pin that was there, although the last pin moves.
LEMMA PositionsAfterSwapRemove ==
    ASSUME NEW s \in Seq(Partitions), NEW k \in DOMAIN s, NEW q \in Partitions
    PROVE  /\ SwapRemoved(s, k) \in Seq(Partitions)
           /\ Cardinality(Positions(SwapRemoved(s, k), q)) =
                IF q = s[k] THEN Cardinality(Positions(s, q)) - 1 ELSE Cardinality(Positions(s, q))
<1> DEFINE n == Len(s)
           r == SwapRemoved(s, k)
           old == Positions(s, q) \ {k}
           new == Positions(r, q)
           from == [j \in new |-> IF j = k THEN n ELSE j]
<1>1. n \in Nat /\ DOMAIN s = 1..n /\ k \in 1..n
  OBVIOUS
<1>2. [s EXCEPT ![k] = s[n]] \in Seq(Partitions) /\ Len([s EXCEPT ![k] = s[n]]) = n
  BY <1>1
<1>3. /\ r \in Seq(Partitions) /\ DOMAIN r = 1..(n - 1)
      /\ \A j \in 1..(n - 1) : r[j] = IF j = k THEN s[n] ELSE s[j]
  BY <1>1, <1>2 DEF SwapRemoved
<1> HIDE DEF n, r
<1>4. new = {j \in 1..(n - 1) : r[j] = q} /\ old = {j \in 1..n : s[j] = q /\ j # k}
  BY <1>1, <1>3 DEF Positions
<1>5. from \in Bijection(new, old)
  <2>1. \A j \in new : from[j] \in old
    BY <1>1, <1>3, <1>4
  <2>2. \A i, j \in new : from[i] = from[j] => i = j
    BY <1>1, <1>4
  <2>3. \A j \in old : \E i \in new : from[i] = j
    <3> SUFFICES ASSUME NEW j \in old PROVE \E i \in new : from[i] = j
      OBVIOUS
    <3>1. CASE j = n
      <4>1. k \in new /\ from[k] = j
        BY <1>1, <1>3, <1>4, <3>1
      <4> QED BY <4>1
    <3>2. CASE j # n
      <4>1. j \in new /\ from[j] = j
        BY <1>1, <1>3, <1>4, <3>2
      <4> QED BY <4>1
    <3> QED BY <3>1, <3>2
  <2> HIDE DEF new, old
  <2> QED BY <2>1, <2>2, <2>3 DEF Bijection, Injection, Surjection, IsInjective
<1>6. IsFiniteSet(Positions(s, q)) /\ IsFiniteSet(new)
  BY <1>3, PositionsFinite
<1>7. Cardinality(old) = Cardinality(new)
  <2> HIDE DEF new, old, from
  <2> QED BY <1>5, <1>6, FS_Bijection DEF ExistsBijection
<1>8. Cardinality(old) = IF k \in Positions(s, q) THEN Cardinality(Positions(s, q)) - 1
                         ELSE Cardinality(Positions(s, q))
  BY <1>6, FS_RemoveElement
<1>9. k \in Positions(s, q) <=> q = s[k]
  BY DEF Positions
<1> QED BY <1>3, <1>7, <1>8, <1>9 DEF r

LEMMA PinSteps ==
    ASSUME OwnershipInv, NEW p \in Partitions, add(p) \/ remove(p) PROVE OwnershipInv'
<1>1. CASE add(p)
  <2>1. pins' = Append(pins, p) /\ claims' = [claims EXCEPT ![p] = @ + 1]
    BY <1>1 DEF add
  <2>2. pins' \in Seq(Partitions) /\ claims' \in [Partitions -> Nat]
    BY <2>1 DEF OwnershipInv
  <2>3. \A q \in Partitions : claims'[q] = Cardinality(Positions(pins', q))
    BY <2>1, PositionsAfterPush DEF OwnershipInv
  <2> QED BY <1>1, <2>2, <2>3 DEF OwnershipInv, add, TransferIdsFresh
<1>2. CASE remove(p)
  <2>1. PICK k \in DOMAIN pins : pins[k] = p /\ pins' = SwapRemoved(pins, k)
    <3> DEFINE First(k) == pins[k] = p /\ \A j \in 1..(k - 1) : pins[j] # p
    <3>1. \E k \in DOMAIN pins : First(k)
      <4>1. pins \in Seq(Partitions) /\ p \in Range(pins)
        BY <1>2 DEF remove, OwnershipInv
      <4>2. Positions(pins, p) \in SUBSET Nat /\ Positions(pins, p) # {}
        BY <4>1 DEF Range, Positions
      <4>3. PICK m \in Positions(pins, p) : \A j \in Positions(pins, p) : m <= j
        BY <4>2, LeastNatural
      <4>4. m \in Nat /\ m \in DOMAIN pins /\ pins[m] = p
        BY <4>2, <4>3 DEF Positions
      <4>5. \A j \in 1..(m - 1) : j \in DOMAIN pins /\ ~(m <= j)
        BY <4>1, <4>4
      <4>6. \A j \in 1..(m - 1) : pins[j] # p
        BY <4>3, <4>5 DEF Positions
      <4> QED BY <4>4, <4>6
    <3> QED BY <1>2, <3>1 DEF remove
  <2>2. claims' = [claims EXCEPT ![p] = @ - 1]
    BY <1>2 DEF remove
  <2>3. pins \in Seq(Partitions) /\ claims \in [Partitions -> Nat]
        /\ \A q \in Partitions : claims[q] = Cardinality(Positions(pins, q))
    BY DEF OwnershipInv
  <2>4. pins' \in Seq(Partitions)
        /\ \A q \in Partitions : claims'[q] = Cardinality(Positions(pins', q))
    BY <2>1, <2>2, <2>3, PositionsAfterSwapRemove
  <2>5. claims' \in [Partitions -> Nat]
    BY <2>2, <2>3, <2>4, PositionsFinite
  <2> QED BY <1>2, <2>4, <2>5 DEF OwnershipInv, remove, TransferIdsFresh
<1> QED BY <1>1, <1>2

LEMMA TransferSteps ==
    ASSUME OwnershipInv,
           \/ \E p \in Partitions, from, to \in PinNodes : begin(p, from, to)
           \/ \E id \in DOMAIN transfers : finish(id) \/ \E s \in States : advance(id, s)
    PROVE  OwnershipInv'
<1>0. /\ pins \in Seq(Partitions) /\ claims \in [Partitions -> Nat]
      /\ \A p \in Partitions : claims[p] = Cardinality(Positions(pins, p))
      /\ nextId \in Nat /\ begun \in Seq(Partitions) /\ Len(begun) = nextId
      /\ DOMAIN transfers \subseteq 0..(nextId - 1)
      /\ transfers \in [DOMAIN transfers -> TransferRecords]
      /\ \A id \in DOMAIN transfers : transfers[id].ownership = begun[id + 1]
  BY DEF OwnershipInv, TransferIdsFresh
<1>1. ASSUME NEW p \in Partitions, NEW from \in PinNodes, NEW to \in PinNodes, begin(p, from, to)
      PROVE  OwnershipInv'
  <2> DEFINE rec == [ownership |-> p, from |-> from, to |-> to, state |-> "Pending"]
  <2>1. /\ pins' = pins /\ claims' = claims /\ nextId' = nextId + 1 /\ begun' = Append(begun, p)
        /\ transfers' = [x \in DOMAIN transfers \cup {nextId} |->
                           IF x = nextId THEN rec ELSE transfers[x]]
    BY <1>1 DEF begin
  <2>2. rec \in TransferRecords /\ rec.ownership = p
    BY DEF TransferRecords, States
  <2> HIDE DEF rec
  <2>3. /\ DOMAIN transfers' = {nextId} \cup DOMAIN transfers
        /\ \A x \in DOMAIN transfers' : transfers'[x] = IF x = nextId THEN rec ELSE transfers[x]
    BY <2>1
  <2>4. DOMAIN transfers' \subseteq 0..(nextId' - 1)
    BY <1>0, <2>1, <2>3
  <2>5. transfers' \in [DOMAIN transfers' -> TransferRecords]
    BY <1>0, <2>1, <2>2, <2>3
  <2>6. begun' \in Seq(Partitions) /\ Len(begun') = nextId' /\ nextId' \in Nat
        /\ begun'[nextId + 1] = p /\ \A i \in 1..nextId : begun'[i] = begun[i]
    BY <1>0, <2>1
  <2>7. \A id \in DOMAIN transfers' : transfers'[id].ownership = begun'[id + 1]
    <3> SUFFICES ASSUME NEW id \in DOMAIN transfers'
                 PROVE  transfers'[id].ownership = begun'[id + 1]
      OBVIOUS
    <3>1. CASE id = nextId
      BY <2>2, <2>3, <2>6, <3>1
    <3>2. CASE id # nextId
      <4>1. id \in DOMAIN transfers /\ id + 1 \in 1..nextId
        BY <1>0, <2>3, <3>2
      <4> QED BY <1>0, <2>3, <2>6, <3>2, <4>1
    <3> QED BY <3>1, <3>2
  <2> QED BY <1>0, <2>1, <2>4, <2>5, <2>6, <2>7 DEF OwnershipInv, TransferIdsFresh
<1>2. ASSUME NEW id \in DOMAIN transfers, finish(id) PROVE OwnershipInv'
  <2>1. /\ UNCHANGED <<pins, claims, nextId, begun>>
        /\ transfers' = [x \in DOMAIN transfers \ {id} |-> transfers[x]]
    BY <1>2 DEF finish
  <2>2. DOMAIN transfers' \subseteq DOMAIN transfers
        /\ \A x \in DOMAIN transfers' : transfers'[x] = transfers[x]
    BY <2>1
  <2>3. transfers' \in [DOMAIN transfers' -> TransferRecords]
    BY <1>0, <2>1, <2>2
  <2> QED BY <1>0, <2>1, <2>2, <2>3 DEF OwnershipInv, TransferIdsFresh
<1>3. ASSUME NEW id \in DOMAIN transfers, NEW s \in States, advance(id, s) PROVE OwnershipInv'
  <2>1. /\ UNCHANGED <<pins, claims, nextId, begun>>
        /\ transfers' = [transfers EXCEPT ![id].state = s]
    BY <1>3 DEF advance
  <2>2. /\ DOMAIN transfers' = DOMAIN transfers
        /\ \A x \in DOMAIN transfers : /\ transfers'[x] \in TransferRecords
                                       /\ transfers'[x].ownership = transfers[x].ownership
    BY <1>0, <2>1 DEF TransferRecords
  <2>3. transfers' \in [DOMAIN transfers' -> TransferRecords]
    BY <1>0, <2>1, <2>2
  <2> QED BY <1>0, <2>1, <2>2, <2>3 DEF OwnershipInv, TransferIdsFresh
<1> QED BY <1>1, <1>2, <1>3

\* A node serves a shard exactly when the ring gives it the shard or a range with the
\* shard is claimed more often than released, in whatever order overlapping and
\* repeated pins come and go; and a transfer's id stands for the partition it was begun
\* for (OwnershipMap::add, remove and owns, TransferTracker::begin, advance and finish).
THEOREM PinsAreExact == OwnershipSpec => []OwnershipExact
<1>1. OwnershipInit => OwnershipInv
  <2> SUFFICES ASSUME OwnershipInit PROVE OwnershipInv
    OBVIOUS
  <2>1. \A p \in Partitions : Positions(pins, p) = {}
    BY DEF OwnershipInit, Positions
  <2> QED BY <2>1, FS_EmptySet DEF OwnershipInit, OwnershipInv, TransferIdsFresh
<1>2. OwnershipInv /\ [OwnershipNext]_ownershipVars => OwnershipInv'
  <2>1. ASSUME OwnershipInv, OwnershipNext PROVE OwnershipInv'
    BY <2>1, PinSteps, TransferSteps DEF OwnershipNext
  <2>2. ASSUME OwnershipInv, UNCHANGED ownershipVars PROVE OwnershipInv'
    BY <2>2 DEF OwnershipInv, ownershipVars, TransferIdsFresh
  <2> QED BY <2>1, <2>2
<1>3. OwnershipInv => OwnershipExact
  <2> SUFFICES ASSUME OwnershipInv PROVE OwnsExact
    BY DEF OwnershipExact, OwnershipInv
  <2>1. pins \in Seq(Partitions) /\ \A p \in Partitions : claims[p] = Cardinality(Positions(pins, p))
    BY DEF OwnershipInv
  <2>2. \A p \in Partitions : claims[p] > 0 <=> \E k \in DOMAIN pins : pins[k] = p
    <3> SUFFICES ASSUME NEW p \in Partitions
                 PROVE  claims[p] > 0 <=> \E k \in DOMAIN pins : pins[k] = p
      OBVIOUS
    <3>1. IsFiniteSet(Positions(pins, p)) /\ Cardinality(Positions(pins, p)) \in Nat
      BY <2>1, PositionsFinite
    <3>2. Cardinality(Positions(pins, p)) = 0 <=> Positions(pins, p) = {}
      BY <3>1, FS_EmptySet
    <3>3. Positions(pins, p) # {} <=> \E k \in DOMAIN pins : pins[k] = p
      BY DEF Positions
    <3> QED BY <2>1, <3>1, <3>2, <3>3
  <2> SUFFICES ASSUME NEW t \in PinTenants, NEW shard \in Shards
               PROVE  pin_owns(t, shard) <=>
                        \E r \in Ranges : claims[<<t, r>>] > 0 /\ r[1] <= shard /\ shard <= r[2]
    BY DEF OwnsExact, node_owns
  <2>3. ASSUME pin_owns(t, shard)
        PROVE  \E r \in Ranges : claims[<<t, r>>] > 0 /\ r[1] <= shard /\ shard <= r[2]
    <3>1. PICK k \in DOMAIN pins : pins[k][1] = t /\ contains(pins[k][2], shard)
      BY <2>3 DEF pin_owns
    <3>2. pins[k] \in Partitions
      BY <2>1
    <3>3. pins[k][2] \in Ranges /\ pins[k] = <<t, pins[k][2]>>
      BY <3>1, <3>2 DEF Partitions
    <3> QED BY <2>2, <3>1, <3>2, <3>3 DEF contains
  <2>4. ASSUME NEW r \in Ranges, claims[<<t, r>>] > 0, r[1] <= shard, shard <= r[2]
        PROVE  pin_owns(t, shard)
    <3>1. <<t, r>> \in Partitions
      BY DEF Partitions
    <3>2. PICK k \in DOMAIN pins : pins[k] = <<t, r>>
      BY <2>2, <2>4, <3>1
    <3> QED BY <2>4, <3>2 DEF pin_owns, contains
  <2> QED BY <2>3, <2>4
<1> QED BY <1>1, <1>2, <1>3, PTL DEF OwnershipSpec
=============================================================================
