-------------------------- MODULE QuickNodeProofs ---------------------------
(***************************************************************************)
(* A Quick-Node loses neither the history it queued nor a write it         *)
(* acknowledged, for every number of nodes and writes, every batch size    *)
(* and every number of faults and ring changes.                            *)
(***************************************************************************)
EXTENDS QuickNode, TLAPS, WellFoundedInduction

-----------------------------------------------------------------------------
(* The inductive invariant.                                                *)

HandlerStates == {"new", "minted", "stored", "failed", "queued", "acked"}
SyncRecords == [st : {"idle", "due", "sending"}, todo : Seq(Writes), failed : Seq(Writes),
                seq : Nat]

\* A store is a partial map of which only its being a function matters.
TypeOK ==
    /\ draining \in [Nodes -> BOOLEAN]
    /\ seq \in [Nodes -> Nat]
    /\ write \in [Writes -> [st : HandlerStates, node : Nodes, id : Nat]]
    /\ pend \in [Nodes -> Seq(Writes)]
    /\ sync \in [Nodes -> [Tasks -> SyncRecords]]
    /\ hist \in Seq([id : Nat, w : Writes, seq : Nat])
    /\ store = [n \in Nodes |-> store[n]]

\* A flush that is not under way holds no records, and a node that does not drain
\* has no last flush, so beginning one overwrites nothing.
SyncsSettled ==
    /\ \A n \in Nodes, t \in Tasks :
          sync[n][t].st # "sending" => sync[n][t].todo = <<>> /\ sync[n][t].failed = <<>>
    /\ \A n \in Nodes : ~draining[n] => sync[n]["drain"] = NoSync

\* Ids that were given out are remembered, and two writes with one id are known to
\* clash.
IdsKnown ==
    /\ \A w \in Writes : write[w].st # "new" => write[w].id \in ids
    /\ \A v, w \in Writes :
          v # w /\ write[v].st # "new" /\ write[w].st # "new" /\ write[v].id = write[w].id
             => write[v].id \in clash

\* A committed write is what its node stores under its id.
StoredIsKept ==
    \A w \in Writes :
       write[w].st \in {"stored", "queued", "acked"} /\ write[w].id \notin clash =>
          /\ write[w].id \in DOMAIN store[write[w].node]
          /\ store[write[w].node][write[w].id] = w

\* A batch on its way is of a write that has an id.
BatchesOfWrites ==
    \A b \in batches :
       /\ b = [from |-> b.from, to |-> b.to, w |-> b.w, st |-> b.st]
       /\ b.w \in Writes /\ write[b.w].st # "new"

IInv == TypeOK /\ SyncsSettled /\ HistoryAccounted /\ IdsKnown /\ StoredIsKept /\ BatchesOfWrites

-----------------------------------------------------------------------------
(* Sequences of writes.                                                    *)

LEMMA AppendRange ==
    ASSUME NEW S, NEW s \in Seq(S), NEW x \in S
    PROVE  Range(s) \cup {x} \subseteq Range(Append(s, x))
<1>1. Len(s) + 1 \in DOMAIN Append(s, x) /\ Append(s, x)[Len(s) + 1] = x
  OBVIOUS
<1>2. \A i \in DOMAIN s : i \in DOMAIN Append(s, x) /\ Append(s, x)[i] = s[i]
  OBVIOUS
<1> QED BY <1>1, <1>2 DEF Range

LEMMA ConcatRange ==
    ASSUME NEW S, NEW s \in Seq(S), NEW t \in Seq(S)
    PROVE  s \o t \in Seq(S) /\ Range(s \o t) = Range(s) \cup Range(t)
<1>1. s \o t \in Seq(S) /\ Range(s \o t) \subseteq Range(s) \cup Range(t)
  BY DEF Range
<1>2. Range(s) \subseteq Range(s \o t)
  BY DEF Range
<1>3. ASSUME NEW j \in DOMAIN t PROVE t[j] \in Range(s \o t)
  <2>1. Len(s) + j \in DOMAIN (s \o t) /\ (s \o t)[Len(s) + j] = t[j]
    OBVIOUS
  <2> QED BY <2>1 DEF Range
<1> QED BY <1>1, <1>2, <1>3 DEF Range

\* sync_to_slow cuts what it took into chunks and leaves out nothing.
LEMMA ChunkSplit ==
    ASSUME NEW s \in Seq(Writes)
    PROVE  /\ Chunk(s) \in Seq(Writes) /\ Behind(s) \in Seq(Writes)
           /\ Range(s) \subseteq Range(Chunk(s)) \cup Range(Behind(s))
<1> DEFINE k == IF Len(s) < BatchMax THEN Len(s) ELSE BatchMax
<1>1. k \in Nat /\ k <= Len(s)
  BY QuickNodeLimits
<1>2. Chunk(s) \in Seq(Writes) /\ Len(Chunk(s)) = k /\ \A i \in 1..k : Chunk(s)[i] = s[i]
  BY <1>1 DEF Chunk
<1> HIDE DEF k
<1>3. /\ Behind(s) \in Seq(Writes) /\ Len(Behind(s)) = Len(s) - k
      /\ \A i \in 1..(Len(s) - k) : Behind(s)[i] = s[k + i]
  BY <1>1, <1>2 DEF Behind
<1>4. ASSUME NEW i \in DOMAIN s PROVE s[i] \in Range(Chunk(s)) \cup Range(Behind(s))
  <2>1. CASE i <= k
    <3>1. i \in DOMAIN Chunk(s) /\ Chunk(s)[i] = s[i]
      BY <1>1, <1>2, <2>1
    <3> QED BY <3>1 DEF Range
  <2>2. CASE ~(i <= k)
    <3>1. i - k \in DOMAIN Behind(s) /\ Behind(s)[i - k] = s[i]
      BY <1>1, <1>3, <2>2
    <3> QED BY <3>1 DEF Range
  <2> QED BY <2>1, <2>2
<1> QED BY <1>2, <1>3, <1>4 DEF Range

\* apply_flush adds the records it got to, and takes nothing away.
LEMMA JournalledRange ==
    ASSUME TypeOK, NEW c \in Seq(Writes), NEW k \in 0..Len(c), NEW q \in Nat,
           hist' = Journalled(c, k, q)
    PROVE  /\ hist' \in Seq([id : Nat, w : Writes, seq : Nat])
           /\ Flushed \subseteq Flushed'
           /\ k = Len(c) => Range(c) \subseteq Flushed'
<1> DEFINE E == [id : Nat, w : Writes, seq : Nat]
           more == [i \in 1..k |-> Entry(c[i], q)]
<1>1. \A i \in 1..k : c[i] \in Writes /\ Entry(c[i], q) \in E /\ Entry(c[i], q).w = c[i]
  BY DEF Entry, TypeOK
<1>2. more \in Seq(E) /\ Len(more) = k /\ \A i \in 1..k : more[i].w = c[i]
  BY <1>1
<1>3. hist \in Seq(E) /\ hist' = hist \o more
  BY DEF TypeOK, Journalled
<1> HIDE DEF more, E
<1>4. hist' \in Seq(E)
  BY <1>2, <1>3
<1>5. \A i \in DOMAIN hist : i \in DOMAIN hist' /\ hist'[i] = hist[i]
  BY <1>2, <1>3
<1>6. \A i \in 1..k : Len(hist) + i \in DOMAIN hist' /\ hist'[Len(hist) + i] = more[i]
  BY <1>2, <1>3
<1>7. k = Len(c) => \A i \in DOMAIN c : c[i] \in Flushed'
  BY <1>2, <1>6 DEF Flushed
<1> QED BY <1>4, <1>5, <1>7 DEF Flushed, Range, E

LEMMA HeldBy ==
    ASSUME NEW n, NEW w
    PROVE  w \in Held(n) <=>
              \E t \in Tasks : w \in Range(sync[n][t].todo) \/ w \in Range(sync[n][t].failed)
BY DEF Held

-----------------------------------------------------------------------------
(* Every step preserves the invariant, one lemma per action.               *)

LEMMA InitIInv == Init => IInv
<1> SUFFICES ASSUME Init PROVE IInv
  OBVIOUS
<1> USE DEF Init
<1>1. Order[1] \in Nodes
  BY QuickNodeLimits DEF Nodes, Range
<1>2. TypeOK
  BY <1>1 DEF TypeOK, Fresh, NoSync, SyncRecords, HandlerStates
<1>3. SyncsSettled
  BY DEF SyncsSettled, NoSync, Tasks
<1>4. HistoryAccounted /\ StoredIsKept /\ IdsKnown /\ BatchesOfWrites
  BY DEF HistoryAccounted, StoredIsKept, IdsKnown, BatchesOfWrites, Fresh
<1> QED BY <1>2, <1>3, <1>4 DEF IInv

\* A new id is in ids from now on, and clashes with every write that has it.
LEMMA BeginWriteStep ==
    ASSUME IInv, NEW w \in Writes, NEW n \in Nodes, BeginWrite(w, n)
    PROVE  IInv'
<1> USE DEF IInv, BeginWrite, ringVars, slowVars
<1>1. /\ write[w].st = "new" /\ seq[n] + 1 \in Nat
      /\ write'[w] = [st |-> "minted", node |-> n, id |-> seq[n] + 1]
      /\ \A v \in Writes \ {w} : write'[v] = write[v]
  BY DEF TypeOK, Fresh
<1>2. TypeOK'
  BY DEF TypeOK, HandlerStates
<1>3. SyncsSettled'
  BY DEF SyncsSettled
<1>4. HistoryAccounted'
  BY <1>1 DEF HistoryAccounted, Held, Flushed
<1>5. IdsKnown'
  BY <1>1 DEF IdsKnown, TypeOK
<1>6. StoredIsKept'
  BY <1>1 DEF StoredIsKept, TypeOK
<1>7. BatchesOfWrites'
  BY <1>1 DEF BatchesOfWrites
<1> QED BY <1>2, <1>3, <1>4, <1>5, <1>6, <1>7

\* The id of a write that commits is in nobody's way unless it clashes.
LEMMA CommitWriteStep ==
    ASSUME IInv, NEW w \in Writes, CommitWrite(w)
    PROVE  IInv'
<1> USE DEF IInv, CommitWrite, ringVars, slowVars
<1>1. /\ \A v \in Writes \ {w} : write'[v] = write[v]
      /\ write'[w].node = write[w].node /\ write'[w].id = write[w].id
      /\ write'[w].st \in {"stored", "failed"} /\ write[w].st = "minted"
  BY DEF TypeOK
<1>2. TypeOK'
  <2>1. PICK st \in HandlerStates : write' = [write EXCEPT ![w].st = st]
    BY DEF HandlerStates
  <2>2. store' = [n \in Nodes |-> store'[n]]
    BY DEF TypeOK
  <2> QED BY <2>1, <2>2 DEF TypeOK
<1>3. SyncsSettled'
  BY DEF SyncsSettled
<1>4. HistoryAccounted'
  BY <1>1 DEF HistoryAccounted, Held, Flushed
<1>5. IdsKnown'
  BY <1>1 DEF IdsKnown
<1>6. StoredIsKept'
  <2>1. CASE store' = [store EXCEPT ![write[w].node] = Set(@, write[w].id, w)]
    <3>1. /\ write[w].id \in DOMAIN store'[write[w].node]
          /\ store'[write[w].node][write[w].id] = w
      BY <2>1 DEF TypeOK, Set
    <3>2. ASSUME NEW v \in Writes \ {w}, write[v].st \in {"stored", "queued", "acked"},
                 write[v].id \notin clash
          PROVE  /\ write[v].id \in DOMAIN store'[write[v].node]
                 /\ store'[write[v].node][write[v].id] = v
      <4>1. write[v].id # write[w].id
        BY <3>2, <1>1 DEF IdsKnown
      <4>2. write[v].id \in DOMAIN store[write[v].node] /\ store[write[v].node][write[v].id] = v
        BY <3>2 DEF StoredIsKept
      <4> QED BY <2>1, <4>1, <4>2 DEF TypeOK, Set
    <3> QED BY <1>1, <3>1, <3>2 DEF StoredIsKept
  <2>2. CASE write' = [write EXCEPT ![w].st = "failed"] /\ UNCHANGED store
    BY <1>1, <2>2 DEF StoredIsKept, TypeOK
  <2> QED BY <2>1, <2>2
<1>7. BatchesOfWrites'
  BY <1>1 DEF BatchesOfWrites
<1> QED BY <1>2, <1>3, <1>4, <1>5, <1>6, <1>7

LEMMA QueueWriteStep ==
    ASSUME IInv, NEW w \in Writes, QueueWrite(w)
    PROVE  IInv'
<1> USE DEF IInv, QueueWrite, ringVars, slowVars
<1>1. /\ \A v \in Writes \ {w} : write'[v] = write[v]
      /\ write'[w].node = write[w].node /\ write'[w].id = write[w].id
      /\ write'[w].st = "queued" /\ write[w].st = "stored"
  BY DEF TypeOK
<1>2. TypeOK'
  <2>1. write' \in [Writes -> [st : HandlerStates, node : Nodes, id : Nat]]
    BY DEF TypeOK, HandlerStates
  <2>2. pend' \in [Nodes -> Seq(Writes)]
    BY DEF TypeOK
  <2> QED BY <2>1, <2>2 DEF TypeOK
<1>3. SyncsSettled'
  BY DEF SyncsSettled
<1>4. HistoryAccounted'
  <2>1. \A n \in Nodes : Range(pend[n]) \subseteq Range(pend'[n])
    BY AppendRange DEF TypeOK
  <2>2. w \in Range(pend'[write[w].node])
    BY AppendRange DEF TypeOK
  <2>3. \A n \in Nodes : Held(n)' = Held(n)
    BY DEF Held
  <2>4. \A v \in Writes : write[v].node \in Nodes
    BY DEF TypeOK
  <2> QED BY <1>1, <2>1, <2>2, <2>3, <2>4 DEF HistoryAccounted, Flushed
<1>5. IdsKnown' /\ StoredIsKept' /\ BatchesOfWrites'
  BY <1>1 DEF IdsKnown, StoredIsKept, BatchesOfWrites
<1> QED BY <1>2, <1>3, <1>4, <1>5

LEMMA ReplicateWriteStep ==
    ASSUME IInv, NEW w \in Writes, ReplicateWrite(w)
    PROVE  IInv'
<1> USE DEF IInv, ringVars, slowVars
<1>1. /\ write[w].st = "queued" /\ write' = [write EXCEPT ![w].st = "acked"]
      /\ UNCHANGED <<draining, seq, pend, sync, hist, store, ids, clash, forgot>>
      /\ \E n, peers : batches' = batches \cup {[from |-> n, to |-> p, w |-> w, st |-> "sent"] : p \in peers}
  BY DEF ReplicateWrite
<1>2. /\ \A v \in Writes \ {w} : write'[v] = write[v]
      /\ write'[w].node = write[w].node /\ write'[w].id = write[w].id
      /\ write'[w].st = "acked"
  BY <1>1 DEF TypeOK
<1>3. TypeOK' /\ SyncsSettled'
  BY <1>1 DEF TypeOK, HandlerStates, SyncsSettled
<1>4. HistoryAccounted'
  BY <1>1, <1>2 DEF HistoryAccounted, Held, Flushed
<1>5. IdsKnown' /\ StoredIsKept'
  BY <1>1, <1>2 DEF IdsKnown, StoredIsKept
<1>6. BatchesOfWrites'
  BY <1>1, <1>2 DEF BatchesOfWrites
<1> QED BY <1>3, <1>4, <1>5, <1>6

\* A batch, late or repeated, stores its own write, and no other without a clash.
LEMMA ApplyReplicaStep ==
    ASSUME IInv, NEW b \in batches, ApplyReplica(b)
    PROVE  IInv'
<1> USE DEF IInv, ApplyReplica, ringVars, slowVars
<1>1. TypeOK'
  BY DEF TypeOK
<1>2. SyncsSettled' /\ IdsKnown'
  BY DEF SyncsSettled, IdsKnown
<1>3. HistoryAccounted'
  BY DEF HistoryAccounted, Held, Flushed
<1>4. StoredIsKept'
  <2>1. CASE store' = [store EXCEPT ![b.to] = Set(@, write[b.w].id, b.w)]
    <3> SUFFICES ASSUME NEW v \in Writes, write[v].st \in {"stored", "queued", "acked"},
                        write[v].id \notin clash
                 PROVE  /\ write[v].id \in DOMAIN store'[write[v].node]
                        /\ store'[write[v].node][write[v].id] = v
      BY DEF StoredIsKept
    <3>1. write[v].id \in DOMAIN store[write[v].node] /\ store[write[v].node][write[v].id] = v
      BY DEF StoredIsKept
    <3>2. v = b.w \/ write[v].id # write[b.w].id
      BY DEF IdsKnown, BatchesOfWrites
    <3>3. write[v].node \in Nodes
      BY DEF TypeOK
    <3> QED BY <2>1, <3>1, <3>2, <3>3 DEF TypeOK, Set
  <2>2. CASE UNCHANGED store
    BY <2>2 DEF StoredIsKept
  <2> QED BY <2>1, <2>2
<1>5. BatchesOfWrites'
  <2>1. LET a == [b EXCEPT !.st = "applied"]
        IN  a = [from |-> a.from, to |-> a.to, w |-> a.w, st |-> a.st] /\ a.w = b.w
    BY DEF BatchesOfWrites
  <2> QED BY <2>1 DEF BatchesOfWrites
<1> QED BY <1>1, <1>2, <1>3, <1>4, <1>5

\* What changes only the ring, the watermark or the batches under way.
LEMMA OtherSteps ==
    ASSUME IInv, batches' \subseteq batches,
           UNCHANGED <<draining, seq, store, write, pend, sync, hist, ids, clash, forgot>>
    PROVE  IInv'
<1> USE DEF IInv
<1>1. TypeOK' /\ SyncsSettled' /\ IdsKnown'
  BY DEF TypeOK, SyncsSettled, IdsKnown
<1>2. HistoryAccounted' /\ StoredIsKept' /\ BatchesOfWrites'
  BY DEF HistoryAccounted, Held, Flushed, StoredIsKept, BatchesOfWrites
<1> QED BY <1>1, <1>2

\* A restart empties the queue; what it held is forgotten, what was stored is not.
LEMMA RestartStep ==
    ASSUME IInv, NEW n \in Nodes, Restart(n)
    PROVE  IInv'
<1> USE DEF IInv, slowVars
<1>1. /\ draining' = [draining EXCEPT ![n] = FALSE] /\ seq' = [seq EXCEPT ![n] = 0]
      /\ pend' = [pend EXCEPT ![n] = <<>>]
      /\ sync' = [sync EXCEPT ![n] = [t \in Tasks |-> NoSync]]
      /\ batches' \subseteq batches
      /\ UNCHANGED <<store, hist, ids, clash>>
  BY DEF Restart
<1>2. /\ write' \in [Writes -> [st : HandlerStates, node : Nodes, id : Nat]]
      /\ \A w \in Writes : /\ write'[w].node = write[w].node /\ write'[w].id = write[w].id
                           /\ write'[w].st # "new" <=> write[w].st # "new"
                           /\ write'[w].st # write[w].st => write'[w].st = "failed"
  BY DEF Restart, TypeOK, HandlerStates
<1>3. /\ forgot \subseteq forgot'
      /\ \A w \in Writes : write[w].node = n /\ write[w].st \in {"queued", "acked"} => w \in forgot'
  BY DEF Restart
<1>4. TypeOK'
  <2>1. sync' \in [Nodes -> [Tasks -> SyncRecords]]
    BY <1>1 DEF TypeOK, NoSync, SyncRecords
  <2> QED BY <1>1, <1>2, <2>1 DEF TypeOK
<1>5. SyncsSettled'
  BY <1>1 DEF SyncsSettled, TypeOK, NoSync, Tasks
<1>6. HistoryAccounted'
  <2>1. \A m \in Nodes \ {n} : pend'[m] = pend[m] /\ sync'[m] = sync[m]
    BY <1>1 DEF TypeOK
  <2>2. \A m \in Nodes \ {n} : Held(m)' = Held(m)
    BY <2>1 DEF Held
  <2>3. \A w \in Writes : write[w].node \in Nodes
    BY DEF TypeOK
  <2> QED BY <1>1, <1>2, <1>3, <2>1, <2>2, <2>3 DEF HistoryAccounted, Flushed
<1>7. IdsKnown' /\ StoredIsKept' /\ BatchesOfWrites'
  BY ZenonT(30), <1>1, <1>2 DEF IdsKnown, StoredIsKept, BatchesOfWrites
<1> QED BY <1>4, <1>5, <1>6, <1>7

-----------------------------------------------------------------------------
\* The steps of a flush change only the queue, one flush and the history.  Such a
\* step is sound when what the queue and the flush held is still somewhere.
LEMMA FlushSteps ==
    ASSUME IInv, NEW n \in Nodes, NEW t \in Tasks, NEW r \in SyncRecords, TypeOK',
           sync' = [sync EXCEPT ![n][t] = r],
           \A m \in Nodes \ {n} : pend'[m] = pend[m],
           Flushed \subseteq Flushed',
           Range(pend[n]) \cup Range(sync[n][t].todo) \cup Range(sync[n][t].failed)
              \subseteq Range(pend'[n]) \cup Range(r.todo) \cup Range(r.failed) \cup Flushed',
           r.st # "sending" => r.todo = <<>> /\ r.failed = <<>>,
           t = "drain" => draining[n] \/ r = NoSync,
           UNCHANGED <<draining, store, write, batches, ids, clash, forgot>>
    PROVE  IInv'
<1> USE DEF IInv
<1>1. /\ sync'[n][t] = r
      /\ \A m \in Nodes, u \in Tasks : m # n \/ u # t => sync'[m][u] = sync[m][u]
  BY DEF TypeOK
<1>2. SyncsSettled'
  BY <1>1 DEF SyncsSettled, Tasks
<1>3. HistoryAccounted'
  <2> SUFFICES ASSUME NEW w \in Writes \ forgot, write[w].st \in {"queued", "acked"}
               PROVE  w \in Range(pend'[write[w].node]) \cup Held(write[w].node)' \cup Flushed'
    BY DEF HistoryAccounted
  <2> DEFINE m == write[w].node
  <2>1. m \in Nodes /\ w \in Range(pend[m]) \cup Held(m) \cup Flushed
    BY DEF HistoryAccounted, TypeOK
  <2>2. w \in Held(m)' <=>
          \E u \in Tasks : w \in Range(sync'[m][u].todo) \/ w \in Range(sync'[m][u].failed)
    BY DEF Held
  <2>3. CASE w \in Held(m)
    <3>1. PICK u \in Tasks : w \in Range(sync[m][u].todo) \/ w \in Range(sync[m][u].failed)
      BY <2>3, HeldBy
    <3>2. CASE m = n /\ u = t
      BY <1>1, <2>2, <3>1, <3>2
    <3>3. CASE m # n \/ u # t
      BY <1>1, <2>1, <2>2, <3>1, <3>3
    <3> QED BY <3>2, <3>3
  <2>4. CASE w \in Range(pend[m])
    BY <1>1, <2>1, <2>2, <2>4
  <2> QED BY <2>1, <2>3, <2>4
<1>4. IdsKnown' /\ StoredIsKept' /\ BatchesOfWrites'
  BY DEF IdsKnown, StoredIsKept, BatchesOfWrites
<1> QED BY <1>2, <1>3, <1>4

LEMMA BeginDrainStep ==
    ASSUME IInv, NEW n \in Nodes, BeginDrain(n)
    PROVE  IInv'
<1> USE DEF IInv, BeginDrain, slowVars
<1>1. sync[n]["drain"] = NoSync
  BY DEF SyncsSettled
<1>2. /\ sync'[n]["drain"] = [NoSync EXCEPT !.st = "due"]
      /\ \A m \in Nodes, u \in Tasks : m # n \/ u # "drain" => sync'[m][u] = sync[m][u]
  BY <1>1 DEF TypeOK, Tasks
<1>3. TypeOK'
  <2>1. sync' \in [Nodes -> [Tasks -> SyncRecords]]
    BY <1>1 DEF TypeOK, SyncRecords, NoSync, Tasks
  <2>2. draining' \in [Nodes -> BOOLEAN]
    BY DEF TypeOK
  <2> QED BY <2>1, <2>2 DEF TypeOK
<1>4. SyncsSettled'
  <2>1. \A m \in Nodes : ~draining'[m] => m # n /\ ~draining[m]
    BY DEF TypeOK
  <2> QED BY <1>2, <2>1 DEF SyncsSettled, NoSync, Tasks
<1>5. HistoryAccounted'
  <2>1. \A m \in Nodes, u \in Tasks :
           sync'[m][u].todo = sync[m][u].todo /\ sync'[m][u].failed = sync[m][u].failed
    BY <1>1, <1>2 DEF NoSync
  <2>2. \A m \in Nodes : Held(m)' = Held(m)
    BY <2>1 DEF Held
  <2>3. \A w \in Writes : write[w].node \in Nodes
    BY DEF TypeOK
  <2> QED BY <2>2, <2>3 DEF HistoryAccounted, Flushed
<1>6. IdsKnown' /\ StoredIsKept' /\ BatchesOfWrites'
  BY DEF IdsKnown, StoredIsKept, BatchesOfWrites
<1> QED BY <1>3, <1>4, <1>5, <1>6

\* The flush takes over what the queue held.
LEMMA BeginSyncStep ==
    ASSUME IInv, NEW n \in Nodes, NEW t \in Tasks, BeginSync(n, t)
    PROVE  IInv'
<1> DEFINE r == IF pend[n] = <<>> THEN NoSync
                ELSE [st |-> "sending", todo |-> pend[n], failed |-> <<>>, seq |-> seq[n]]
<1>0. /\ pend' = [pend EXCEPT ![n] = <<>>]
      /\ UNCHANGED <<draining, seq, store, write, batches, hist, ids, clash, forgot>>
      /\ t = "drain" => sync[n][t].st = "due"
  BY DEF BeginSync, ringVars, slowVars
<1>1. sync[n][t].st # "sending"
  BY DEF BeginSync, NoSync
<1>2. sync[n][t].todo = <<>> /\ sync[n][t].failed = <<>>
  BY <1>1 DEF IInv, SyncsSettled
<1>3. Range(<<>>) = {}
  BY DEF Range
<1>4. r \in SyncRecords /\ Range(pend[n]) \subseteq Range(r.todo)
  BY <1>3 DEF IInv, TypeOK, SyncRecords, NoSync
<1>5. sync' = [sync EXCEPT ![n][t] = r] /\ \A m \in Nodes \ {n} : pend'[m] = pend[m]
  BY <1>0 DEF BeginSync, IInv, TypeOK
<1>6. r.st # "sending" => r.todo = <<>> /\ r.failed = <<>>
  BY DEF NoSync
<1> HIDE DEF r
<1>7. TypeOK'
  <2>1. sync' \in [Nodes -> [Tasks -> SyncRecords]] /\ pend' \in [Nodes -> Seq(Writes)]
    BY <1>0, <1>4, <1>5 DEF IInv, TypeOK
  <2> QED BY <1>0, <2>1 DEF IInv, TypeOK
<1>8. t = "drain" => draining[n] \/ r = NoSync
  BY <1>0 DEF IInv, SyncsSettled, NoSync
<1>9. Flushed' = Flushed
  BY <1>0 DEF Flushed
<1> QED BY <1>0, <1>2, <1>3, <1>4, <1>5, <1>6, <1>7, <1>8, <1>9, FlushSteps

\* What a chunk leaves behind is sent later, and the chunk is in the history or is
\* kept as failed.
LEMMA ChunkStep ==
    ASSUME IInv, NEW n \in Nodes, NEW t \in Tasks, FlushChunk(n, t) \/ FlushFails(n, t)
    PROVE  IInv'
<1> USE DEF ringVars
<1> DEFINE s == sync[n][t]
           c == Chunk(s.todo)
<1>1. s \in SyncRecords /\ s.st = "sending" /\ s.todo \in Seq(Writes) /\ s.failed \in Seq(Writes)
      /\ s.seq \in Nat
  <2>1. s.st = "sending"
    BY DEF FlushChunk, FlushFails
  <2>2. s \in SyncRecords
    BY DEF IInv, TypeOK
  <2> QED BY SMTT(30), <2>1, <2>2 DEF SyncRecords
<1>2. /\ c \in Seq(Writes) /\ Behind(s.todo) \in Seq(Writes)
      /\ Range(s.todo) \subseteq Range(c) \cup Range(Behind(s.todo))
  BY <1>1, ChunkSplit
<1>3. /\ UNCHANGED <<draining, seq, store, write, pend, batches, ids, clash, forgot>>
      /\ t = "drain" => draining[n]
  <2>1. UNCHANGED <<draining, seq, store, write, pend, batches, ids, clash, forgot>>
    BY DEF FlushChunk, FlushFails
  <2>2. t = "drain" => draining[n]
    BY <1>1 DEF IInv, SyncsSettled, NoSync
  <2> QED BY SMTT(30), <2>1, <2>2
<1>4. CASE FlushChunk(n, t)
  <2> DEFINE r == [s EXCEPT !.todo = Behind(s.todo)]
  <2>1. r \in SyncRecords /\ sync' = [sync EXCEPT ![n][t] = r]
        /\ r.todo = Behind(s.todo) /\ r.failed = s.failed /\ r.st = "sending"
    BY <1>1, <1>2, <1>4 DEF SyncRecords, FlushChunk, IInv, TypeOK
  <2>2. /\ hist' \in Seq([id : Nat, w : Writes, seq : Nat])
        /\ Flushed \subseteq Flushed' /\ Range(c) \subseteq Flushed'
    <3>1. Len(c) \in 0..Len(c) /\ hist' = Journalled(c, Len(c), s.seq)
      BY <1>2, <1>4 DEF FlushChunk
    <3> QED BY <1>1, <1>2, <3>1, JournalledRange DEF IInv
  <2> HIDE DEF r, c, s
  <2>3. TypeOK'
    BY <1>3, <2>1, <2>2 DEF IInv, TypeOK
  <2> QED BY <1>2, <1>3, <2>1, <2>2, <2>3, FlushSteps DEF s
<1>5. CASE FlushFails(n, t)
  <2> DEFINE r == [s EXCEPT !.todo = Behind(s.todo), !.failed = @ \o c]
  <2>1. s.failed \o c \in Seq(Writes) /\ Range(s.failed \o c) = Range(s.failed) \cup Range(c)
    BY <1>1, <1>2, ConcatRange
  <2>2. r \in SyncRecords /\ sync' = [sync EXCEPT ![n][t] = r]
        /\ r.todo = Behind(s.todo) /\ r.failed = s.failed \o c /\ r.st = "sending"
    BY <1>1, <1>2, <1>5, <2>1 DEF SyncRecords, FlushFails, IInv, TypeOK
  <2>3. hist' \in Seq([id : Nat, w : Writes, seq : Nat]) /\ Flushed \subseteq Flushed'
    <3>1. PICK k \in 0..Len(c) : hist' = Journalled(c, k, s.seq)
      BY <1>5 DEF FlushFails
    <3> QED BY <1>1, <1>2, <3>1, JournalledRange DEF IInv
  <2> HIDE DEF r, c, s
  <2>4. TypeOK'
    BY <1>3, <2>2, <2>3 DEF IInv, TypeOK
  <2> QED BY <1>2, <1>3, <2>1, <2>2, <2>3, <2>4, FlushSteps DEF s
<1> QED BY <1>4, <1>5

\* What failed goes back to the queue.
LEMMA EndSyncStep ==
    ASSUME IInv, NEW n \in Nodes, NEW t \in Tasks, EndSync(n, t)
    PROVE  IInv'
<1>0. /\ sync[n][t].todo = <<>>
      /\ pend' = [pend EXCEPT ![n] = sync[n][t].failed \o @]
      /\ sync' = [sync EXCEPT ![n][t] = NoSync]
      /\ UNCHANGED <<draining, seq, store, write, batches, hist, ids, clash, forgot>>
  BY DEF EndSync, ringVars, slowVars
<1>1. sync[n][t].failed \in Seq(Writes) /\ pend[n] \in Seq(Writes) /\ sync[n][t].todo = <<>>
  BY <1>0 DEF IInv, TypeOK, SyncRecords
<1>2. /\ pend'[n] = sync[n][t].failed \o pend[n]
      /\ \A m \in Nodes \ {n} : pend'[m] = pend[m]
  BY <1>0 DEF IInv, TypeOK
<1>3. pend'[n] \in Seq(Writes) /\ Range(pend'[n]) = Range(sync[n][t].failed) \cup Range(pend[n])
  BY <1>1, <1>2, ConcatRange
<1>4. NoSync \in SyncRecords /\ NoSync.todo = <<>> /\ NoSync.failed = <<>>
  BY DEF NoSync, SyncRecords
<1>5. TypeOK'
  <2>1. pend' \in [Nodes -> Seq(Writes)]
    BY <1>0, <1>3 DEF IInv, TypeOK
  <2>2. sync' \in [Nodes -> [Tasks -> SyncRecords]]
    BY <1>0, <1>4 DEF IInv, TypeOK
  <2> QED BY <1>0, <2>1, <2>2 DEF IInv, TypeOK
<1>6. Range(<<>>) = {} /\ Flushed' = Flushed
  BY <1>0 DEF Range, Flushed
<1> QED BY <1>0, <1>1, <1>2, <1>3, <1>4, <1>5, <1>6, FlushSteps

LEMMA Inductive == IInv /\ [Next]_vars => IInv'
<1> SUFFICES ASSUME IInv, [Next]_vars PROVE IInv'
  OBVIOUS
<1>1. CASE UNCHANGED vars
  BY <1>1, OtherSteps DEF vars
<1>2. ASSUME NEW w \in Writes, Handler(w) PROVE IInv'
  BY <1>2, CommitWriteStep, QueueWriteStep, ReplicateWriteStep DEF Handler
<1>3. ASSUME NEW w \in Writes, NEW n \in Nodes, BeginWrite(w, n) PROVE IInv'
  BY <1>3, BeginWriteStep
<1>4. ASSUME NEW b \in batches, ApplyReplica(b) PROVE IInv'
  BY <1>4, ApplyReplicaStep
<1>5. ASSUME NEW b \in batches, ReplicaAck(b) \/ ReplicaLost(b) PROVE IInv'
  BY <1>5, OtherSteps DEF ReplicaAck, ReplicaLost, ringVars, slowVars
<1>6. ASSUME NEW n \in Nodes, Restart(n) \/ BeginDrain(n) PROVE IInv'
  BY <1>6, RestartStep, BeginDrainStep
<1>7. ASSUME NEW n \in Nodes, NEW p \in Nodes, RemovePeer(n, p) \/ AddPeer(n, p) PROVE IInv'
  BY <1>7, OtherSteps DEF RemovePeer, AddPeer, slowVars
<1>8. ASSUME NEW n \in Nodes, NEW t \in Tasks, Flusher(n, t) \/ FlushFails(n, t) PROVE IInv'
  BY <1>8, BeginSyncStep, ChunkStep, EndSyncStep DEF Flusher
<1>9. CASE RestartSlow
  BY <1>9, OtherSteps DEF RestartSlow, ringVars
<1> QED BY <1>1, <1>2, <1>3, <1>4, <1>5, <1>6, <1>7, <1>8, <1>9 DEF Next

-----------------------------------------------------------------------------
\* History shipping is at-least-once: a queued record stays in the queue, in a flush
\* or in the Slow-Node's journal, however flushes fail, overlap each other and
\* overlap writes (sync_to_slow, apply_flush), until its node restarts.
THEOREM HistoryIsAccounted == Spec => []HistoryAccounted
<1>1. IInv => HistoryAccounted
  BY DEF IInv
<1> QED BY InitIInv, Inductive, <1>1, PTL DEF Spec

\* An acknowledged write is what its node stores under its id: no batch of a replica,
\* however late, replaces it unless the id was given out twice (handle_write,
\* apply_replica, next_seq).
THEOREM AckedStaysStored == Spec => []AckedIsKept
<1>1. IInv => AckedIsKept
  BY DEF IInv, StoredIsKept, AckedIsKept
<1> QED BY InitIInv, Inductive, <1>1, PTL DEF Spec

-----------------------------------------------------------------------------
(* Replication: what a peer acknowledged, and what the Slow-Node did.      *)

PeerRecords == [sent : Nat, acked : Nat]
WatermarkOK ==
    /\ wm = [n \in Nodes |-> wm[n]]
    /\ \A n \in Nodes : \A p \in DOMAIN wm[n] : p \in Nodes /\ wm[n][p] \in PeerRecords

\* Peer p stores write w, unless the batch missed it or the id was given out twice.
OnPeer(w, p) ==
    \/ write[w].id \in clash \/ <<w, p>> \in missed
    \/ write[w].id \in DOMAIN store[p] /\ store[p][write[w].id] = w

\* An acknowledgement on its way, and the one a watermark holds, are of a write the
\* peer stores.  A watermark holds no id that was never given out, so a new write
\* does not meet an old acknowledgement.
AcksFollowStores ==
    /\ \A w \in Writes : write[w].st # "new" => write[w].id # 0
    /\ \A b \in batches :
          b.from \in Nodes /\ b.to \in Nodes /\ (b.st = "applied" => OnPeer(b.w, b.to))
    /\ \A n \in Nodes : \A p \in DOMAIN wm[n] :
          /\ wm[n][p].acked \in ids \cup {0}
          /\ \A w \in Writes : write[w].st # "new" /\ wm[n][p].acked = write[w].id => OnPeer(w, p)

\* The journal holds an entry for the highest receipt, so its replay finds it.
MarkFollowsHistory ==
    /\ mark \in Nat /\ receipt \in Nat /\ receipt <= mark
    /\ receipt = 0 \/ \E i \in DOMAIN hist : receipt <= hist[i].seq

RInv == WatermarkOK /\ AcksFollowStores /\ MarkFollowsHistory

\* A nonempty set of naturals has a least element: induction, for the provers.
LEMMA LeastNatural ==
    ASSUME NEW T \in SUBSET Nat, T # {}
    PROVE  \E x \in T : \A y \in T : x <= y
<1> DEFINE R == OpToRel(<, Nat)
<1>1. IsWellFoundedOn(R, Nat)
  BY NatLessThanWellFounded
<1>2. \A x, y \in Nat : y < x => <<y, x>> \in R
  BY DEF OpToRel
<1> HIDE DEF R
<1>3. PICK x \in T : \A y \in T : ~(<<y, x>> \in R)
  BY <1>1, WFMin
<1>4. x \in Nat /\ \A y \in T : y \in Nat /\ ~(y < x)
  BY <1>2, <1>3
<1>5. \A y \in T : x <= y
  BY <1>4
<1> QED BY <1>5

\* The replay of the journal ends at the highest sequence in it.
LEMMA ReplayedMarkIsHighest ==
    ASSUME TypeOK
    PROVE  ReplayedMark \in Nat /\ \A i \in DOMAIN hist : hist[i].seq <= ReplayedMark
<1> DEFINE S == {0} \cup {hist[i].seq : i \in DOMAIN hist}
           P(n) == \E m \in S : \A i \in 1..n : hist[i].seq <= m
           T == {n \in 0..Len(hist) : ~P(n)}
<1>0. DOMAIN hist = 1..Len(hist) /\ Len(hist) \in Nat /\ \A i \in DOMAIN hist : hist[i].seq \in Nat
  <2> DEFINE E == [id : Nat, w : Writes, seq : Nat]
  <2>1. hist \in Seq(E) /\ \A e \in E : e.seq \in Nat
    BY DEF TypeOK
  <2> HIDE DEF E
  <2> QED BY <2>1
<1>1. T \in SUBSET Nat /\ 0 \notin T
  BY <1>0
<1>2. ASSUME T # {} PROVE FALSE
  <2>1. PICK n \in T : \A y \in T : n <= y
    BY LeastNatural, <1>1, <1>2
  <2>2. n \in 1..Len(hist) /\ n - 1 \in 0..Len(hist) /\ ~P(n)
    BY <1>0, <1>1
  <2>3. n - 1 \notin T
    <3> HIDE DEF T
    <3> QED BY <2>1, <2>2
  <2>4. PICK m \in S : \A i \in 1..(n - 1) : hist[i].seq <= m
    BY <2>2, <2>3
  <2>5. m \in Nat /\ hist[n].seq \in Nat /\ hist[n].seq \in S
    BY <1>0, <2>2
  <2>6. CASE hist[n].seq <= m
    <3>1. \A i \in 1..n : hist[i].seq <= m
      BY <2>2, <2>4, <2>6
    <3> QED BY <2>2, <3>1
  <2>7. CASE hist[n].seq > m
    <3>1. \A i \in 1..n : hist[i].seq <= hist[n].seq
      BY <1>0, <2>2, <2>4, <2>5, <2>7
    <3> QED BY <2>2, <2>5, <3>1
  <2> QED BY <2>5, <2>6, <2>7
<1>3. P(Len(hist))
  BY <1>0, <1>2
<1>4. PICK m \in S : \A i \in DOMAIN hist : hist[i].seq <= m
  BY <1>0, <1>3
<1>5. \E x \in S : \A y \in S : x >= y
  BY <1>0, <1>4
<1>6. ReplayedMark \in S /\ \A y \in S : ReplayedMark >= y
  BY <1>5 DEF ReplayedMark, Max
<1> QED BY <1>0, <1>6

LEMMA InitRInv == Init => RInv
<1> SUFFICES ASSUME Init PROVE RInv
  OBVIOUS
<1> USE DEF Init
<1>1. WatermarkOK
  BY DEF WatermarkOK, NoPeer, PeerRecords
<1>2. AcksFollowStores
  BY DEF AcksFollowStores, NoPeer, Fresh
<1>3. MarkFollowsHistory
  BY DEF MarkFollowsHistory
<1> QED BY <1>1, <1>2, <1>3 DEF RInv

\* What a step may do to writes, stores, batches and watermarks for the peers to keep
\* what they acknowledged: an acknowledgement is new only when its batch was applied,
\* a batch is applied only when its write is on the peer, and an id is new or clashes.
WritesKeepIds ==
    \A w \in Writes : write[w].st # "new" => write'[w].st # "new" /\ write'[w].id = write[w].id
NewIds ==
    \A w \in Writes : write[w].st = "new" /\ write'[w].st # "new" =>
       write'[w].id # 0 /\ (write'[w].id \in ids => write'[w].id \in clash')
StoresOne(n, w) ==
    /\ n \in Nodes /\ w \in Writes /\ write[w].st # "new"
    /\ store' = [store EXCEPT ![n] = Set(@, write[w].id, w)]
BatchesKept ==
    \A b \in batches' :
       \/ b \in batches
       \/ /\ b.from \in Nodes /\ b.to \in Nodes
          /\ b.st = "sent" \/ OnPeer(b.w, b.to)'
AcksKept ==
    \A n \in Nodes : \A p \in DOMAIN wm'[n] :
       \/ wm'[n][p].acked = 0
       \/ p \in DOMAIN wm[n] /\ wm'[n][p].acked = wm[n][p].acked
       \/ \E b \in batches : b.st = "applied" /\ b.to = p /\ wm'[n][p].acked = write[b.w].id

\* A store keeps what it holds of a write unless another one with its id comes in.
LEMMA OnPeerKept ==
    ASSUME IInv, WritesKeepIds, clash \subseteq clash', missed \subseteq missed',
           UNCHANGED store \/ \E n, v : StoresOne(n, v),
           NEW w \in Writes, write[w].st # "new", NEW p \in Nodes, OnPeer(w, p)
    PROVE  OnPeer(w, p)'
<1>1. write'[w].id = write[w].id
  BY DEF WritesKeepIds
<1>2. CASE UNCHANGED store
  BY <1>1, <1>2 DEF OnPeer
<1>3. ASSUME NEW n, NEW v, StoresOne(n, v) PROVE OnPeer(w, p)'
  <2>1. write[w].id = write[v].id => v = w \/ write[w].id \in clash
    BY <1>3 DEF IInv, IdsKnown, StoresOne
  <2>2. \A k : /\ k \in DOMAIN store[p] => k \in DOMAIN store'[p]
               /\ k # write[v].id /\ k \in DOMAIN store[p] => store'[p][k] = store[p][k]
               /\ k = write[v].id => store'[p] = store[p] \/ store'[p][k] = v
    BY <1>3 DEF IInv, TypeOK, StoresOne, Set
  <2> QED BY <1>1, <2>1, <2>2 DEF OnPeer
<1> QED BY <1>2, <1>3

LEMMA ReplicationStep ==
    ASSUME IInv, AcksFollowStores, WatermarkOK, WritesKeepIds, NewIds,
           clash \subseteq clash', missed \subseteq missed', ids \subseteq ids',
           UNCHANGED store \/ \E n, v : StoresOne(n, v),
           BatchesKept, AcksKept, WatermarkOK'
    PROVE  AcksFollowStores'
<1>1. ASSUME NEW w \in Writes, write[w].st # "new", NEW p \in Nodes, OnPeer(w, p)
      PROVE  OnPeer(w, p)'
  BY <1>1, OnPeerKept
<1>2. \A b \in batches : b.w \in Writes /\ write[b.w].st # "new"
  BY DEF IInv, BatchesOfWrites
<1>3. \A w \in Writes : write'[w].st # "new" => write'[w].id # 0
  BY DEF AcksFollowStores, WritesKeepIds, NewIds
<1>4. ASSUME NEW b \in batches'
      PROVE  b.from \in Nodes /\ b.to \in Nodes /\ (b.st = "applied" => OnPeer(b.w, b.to)')
  BY <1>1, <1>2 DEF BatchesKept, AcksFollowStores
<1>5. ASSUME NEW n \in Nodes, NEW p \in DOMAIN wm'[n]
      PROVE  /\ wm'[n][p].acked \in ids' \cup {0}
             /\ \A w \in Writes :
                   write'[w].st # "new" /\ wm'[n][p].acked = write'[w].id => OnPeer(w, p)'
  <2> DEFINE a == wm'[n][p].acked
  <2>0. p \in Nodes
    BY DEF WatermarkOK
  <2>1. ASSUME a = 0
        PROVE  \A w \in Writes : write'[w].st # "new" /\ a = write'[w].id => OnPeer(w, p)'
    BY <1>3, <2>1
  <2>2. ASSUME p \in DOMAIN wm[n], a = wm[n][p].acked
        PROVE  /\ a \in ids' \cup {0}
               /\ \A w \in Writes : write'[w].st # "new" /\ a = write'[w].id => OnPeer(w, p)'
    <3>1. a \in ids \cup {0}
      BY <2>2 DEF AcksFollowStores
    <3>2. ASSUME NEW w \in Writes, write'[w].st # "new", a = write'[w].id PROVE OnPeer(w, p)'
      <4>1. CASE write[w].st = "new"
        BY <1>3, <3>1, <3>2, <4>1 DEF NewIds, OnPeer
      <4>2. CASE write[w].st # "new"
        <5>1. OnPeer(w, p)
          BY <2>2, <3>2, <4>2 DEF AcksFollowStores, WritesKeepIds
        <5> QED BY <1>1, <2>0, <4>2, <5>1
      <4> QED BY <4>1, <4>2
    <3> QED BY <3>1, <3>2
  <2>3. ASSUME NEW b \in batches, b.st = "applied", b.to = p, a = write[b.w].id
        PROVE  /\ a \in ids'
               /\ \A w \in Writes : write'[w].st # "new" /\ a = write'[w].id => OnPeer(w, p)'
    <3>1. a \in ids /\ OnPeer(b.w, p) /\ b.w \in Writes /\ write[b.w].st # "new"
      BY <1>2, <2>3 DEF AcksFollowStores, IInv, IdsKnown
    <3>2. ASSUME NEW w \in Writes, write'[w].st # "new", a = write'[w].id PROVE OnPeer(w, p)'
      <4>1. CASE write[w].st = "new"
        BY <3>1, <3>2, <4>1 DEF NewIds, OnPeer
      <4>2. CASE write[w].st # "new" /\ w # b.w
        <5>1. write[w].id = write[b.w].id /\ write[w].id \in clash
          BY <2>3, <3>1, <3>2, <4>2 DEF IInv, IdsKnown, WritesKeepIds
        <5> QED BY <3>2, <4>2, <5>1 DEF OnPeer, WritesKeepIds
      <4>3. CASE w = b.w
        BY <1>1, <2>0, <3>1, <4>3
      <4> QED BY <4>1, <4>2, <4>3
    <3> QED BY <3>1, <3>2
  <2> HIDE DEF a
  <2>4. a = 0 \/ (p \in DOMAIN wm[n] /\ a = wm[n][p].acked)
          \/ \E b \in batches : b.st = "applied" /\ b.to = p /\ a = write[b.w].id
    BY DEF AcksKept, a
  <2>5. /\ a \in ids' \cup {0}
        /\ \A w \in Writes : write'[w].st # "new" /\ a = write'[w].id => OnPeer(w, p)'
    BY <2>1, <2>2, <2>3, <2>4
  <2> QED BY <2>5 DEF a
<1> QED BY <1>3, <1>4, <1>5 DEF AcksFollowStores

\* A write that begins takes an id no watermark holds, or one known to clash.
LEMMA RBeginWrite ==
    ASSUME IInv, RInv, NEW w \in Writes, NEW n \in Nodes, BeginWrite(w, n)
    PROVE  RInv'
<1>0. /\ write[w].st = "new" /\ seq[n] + 1 \in Nat \ {0}
      /\ write'[w].st = "minted" /\ write'[w].id = seq[n] + 1
      /\ \A v \in Writes \ {w} : write'[v] = write[v]
      /\ ids \subseteq ids' /\ clash \subseteq clash'
      /\ seq[n] + 1 \in ids => seq[n] + 1 \in clash'
      /\ UNCHANGED <<store, wm, batches, hist, mark, receipt, missed>>
  BY DEF BeginWrite, IInv, TypeOK, Fresh, ringVars, slowVars
<1>1. WritesKeepIds /\ NewIds
  BY <1>0 DEF WritesKeepIds, NewIds
<1>2. BatchesKept /\ AcksKept
  BY <1>0 DEF BatchesKept, AcksKept
<1>3. WatermarkOK' /\ MarkFollowsHistory'
  BY <1>0 DEF RInv, WatermarkOK, MarkFollowsHistory
<1> QED BY <1>0, <1>1, <1>2, <1>3, ReplicationStep DEF RInv

\* The other steps of a write.
LEMMA RHandler ==
    ASSUME IInv, RInv, NEW w \in Writes, CommitWrite(w) \/ QueueWrite(w)
    PROVE  RInv'
<1>0. /\ write[w].st \in {"minted", "stored"} /\ write'[w].st # "new" /\ write'[w].id = write[w].id
      /\ \A v \in Writes \ {w} : write'[v] = write[v]
      /\ UNCHANGED <<wm, batches, hist, mark, receipt, missed, ids, clash>>
  <2>1. /\ write[w].st \in {"minted", "stored"}
        /\ UNCHANGED <<wm, batches, hist, mark, receipt, missed, ids, clash>>
    BY DEF CommitWrite, QueueWrite, ringVars, slowVars
  <2>2. PICK st \in {"stored", "failed", "queued"} : write' = [write EXCEPT ![w].st = st]
    BY DEF CommitWrite, QueueWrite
  <2>3. write \in [Writes -> [st : HandlerStates, node : Nodes, id : Nat]]
    BY DEF IInv, TypeOK
  <2> QED BY <2>1, <2>2, <2>3
<1>1. UNCHANGED store \/ \E n, v : StoresOne(n, v)
  BY DEF CommitWrite, QueueWrite, StoresOne, IInv, TypeOK
<1>2. WritesKeepIds /\ NewIds /\ BatchesKept /\ AcksKept
  BY <1>0 DEF WritesKeepIds, NewIds, BatchesKept, AcksKept
<1>3. WatermarkOK' /\ MarkFollowsHistory'
  BY <1>0 DEF RInv, WatermarkOK, MarkFollowsHistory
<1> QED BY <1>0, <1>1, <1>2, <1>3, ReplicationStep DEF RInv

\* Sending registers peers that have acknowledged nothing, and keeps what the others
\* acknowledged.
LEMMA RReplicateWrite ==
    ASSUME IInv, RInv, NEW w \in Writes, ReplicateWrite(w)
    PROVE  RInv'
<1> DEFINE n == write[w].node
           id == write[w].id
           peers == replicas_of(ring[n], MIN_REPLICAS) \ {n}
<1>0. /\ write[w].st = "queued" /\ write'[w].st # "new" /\ write'[w].id = write[w].id
      /\ \A v \in Writes \ {w} : write'[v] = write[v]
      /\ UNCHANGED <<store, hist, mark, receipt, missed, ids, clash>>
  BY DEF ReplicateWrite, IInv, TypeOK, ringVars, slowVars
<1>1. n \in Nodes /\ id \in Nat /\ peers \subseteq Nodes
  <2>1. n \in Nodes /\ id \in Nat
    BY DEF IInv, TypeOK
  <2>2. \A i \in DOMAIN Order : Order[i] \in Nodes
    BY DEF Nodes, Range
  <2> QED BY <2>1, <2>2 DEF replicas_of
<1>2. /\ wm' = [wm EXCEPT ![n] = Sending(@, peers, id)]
      /\ batches' = batches \cup {[from |-> n, to |-> p, w |-> w, st |-> "sent"] : p \in peers}
  BY DEF ReplicateWrite
<1> HIDE DEF peers, id, n
<1>3. WritesKeepIds /\ NewIds
  BY <1>0 DEF WritesKeepIds, NewIds
<1>4. BatchesKept
  BY <1>1, <1>2 DEF BatchesKept
<1>5. /\ DOMAIN Sending(wm[n], peers, id) = DOMAIN wm[n] \cup peers
      /\ \A p \in DOMAIN wm[n] \cup peers :
            /\ Sending(wm[n], peers, id)[p] \in PeerRecords
            /\ \/ p \in DOMAIN wm[n] /\ Sending(wm[n], peers, id)[p].acked = wm[n][p].acked
               \/ Sending(wm[n], peers, id)[p].acked = 0
  <2>1. DOMAIN Sending(wm[n], peers, id) = DOMAIN wm[n] \cup peers
    BY DEF Sending
  <2>2. ASSUME NEW p \in DOMAIN wm[n], p \in peers
        PROVE  /\ Sending(wm[n], peers, id)[p] \in PeerRecords
               /\ Sending(wm[n], peers, id)[p].acked = wm[n][p].acked
    <3>1. wm[n][p] \in PeerRecords
      BY <1>1 DEF RInv, WatermarkOK
    <3>2. Sending(wm[n], peers, id)[p] = [wm[n] EXCEPT ![p].sent = Larger(@, id)][p]
      BY <2>2 DEF Sending, add_peer, record_send
    <3>3. Sending(wm[n], peers, id)[p] = [wm[n][p] EXCEPT !.sent = Larger(@, id)]
      BY <3>2
    <3> QED BY <1>1, <3>1, <3>3 DEF PeerRecords, Larger
  <2>3. ASSUME NEW p \in DOMAIN wm[n], p \notin peers
        PROVE  Sending(wm[n], peers, id)[p] = wm[n][p] /\ wm[n][p] \in PeerRecords
    BY <1>1, <2>3 DEF Sending, RInv, WatermarkOK
  <2>4. ASSUME NEW p \in peers, p \notin DOMAIN wm[n]
        PROVE  /\ Sending(wm[n], peers, id)[p] \in PeerRecords
               /\ Sending(wm[n], peers, id)[p].acked = 0
    <3> DEFINE t == Set(wm[n], p, NoPeer)
    <3>1. p \in DOMAIN t /\ t[p] = NoPeer
      BY DEF Set
    <3>2. Sending(wm[n], peers, id)[p] = record_send(t, p, id)[p]
      BY <2>4 DEF Sending, add_peer
    <3> HIDE DEF t
    <3>3. Sending(wm[n], peers, id)[p] = [NoPeer EXCEPT !.sent = Larger(@, id)]
      BY <3>1, <3>2 DEF record_send
    <3> QED BY <1>1, <3>3 DEF PeerRecords, Larger, NoPeer
  <2> QED BY <2>1, <2>2, <2>3, <2>4
<1>6. /\ wm' = [m \in Nodes |-> wm'[m]]
      /\ wm'[n] = Sending(wm[n], peers, id)
      /\ \A m \in Nodes \ {n} : wm'[m] = wm[m]
  BY <1>1, <1>2 DEF RInv, WatermarkOK
<1>7. AcksKept
  BY <1>5, <1>6 DEF AcksKept
<1>8. WatermarkOK'
  BY <1>1, <1>5, <1>6 DEF RInv, WatermarkOK
<1>9. MarkFollowsHistory'
  BY <1>0 DEF RInv, MarkFollowsHistory
<1> QED BY <1>0, <1>3, <1>4, <1>7, <1>8, <1>9, ReplicationStep DEF RInv

\* A batch that is applied has its write on the peer, or is known to have missed.
LEMMA RApplyReplica ==
    ASSUME IInv, RInv, NEW b \in batches, ApplyReplica(b)
    PROVE  RInv'
<1> DEFINE a == [b EXCEPT !.st = "applied"]
<1>0. /\ batches' = (batches \ {b}) \cup {a} /\ missed \subseteq missed'
      /\ UNCHANGED <<write, wm, hist, mark, receipt, ids, clash>>
  BY DEF ApplyReplica, ringVars, slowVars
<1>1. /\ b.w \in Writes /\ write[b.w].st # "new" /\ b.from \in Nodes /\ b.to \in Nodes
      /\ a.from = b.from /\ a.to = b.to /\ a.w = b.w
  BY DEF IInv, BatchesOfWrites, RInv, AcksFollowStores
<1>2. \/ StoresOne(b.to, b.w)
      \/ UNCHANGED store /\ <<b.w, b.to>> \in missed'
  BY <1>1 DEF ApplyReplica, StoresOne
<1>3. OnPeer(b.w, b.to)'
  <2>1. CASE StoresOne(b.to, b.w)
    <3>1. write[b.w].id \in DOMAIN store'[b.to] /\ store'[b.to][write[b.w].id] = b.w
      BY <1>1, <2>1 DEF StoresOne, IInv, TypeOK, Set
    <3> QED BY <1>0, <3>1 DEF OnPeer
  <2> QED BY <1>2, <2>1 DEF OnPeer
<1> HIDE DEF a
<1>4. WritesKeepIds /\ NewIds /\ AcksKept
  BY <1>0 DEF WritesKeepIds, NewIds, AcksKept
<1>5. BatchesKept
  BY <1>0, <1>1, <1>3 DEF BatchesKept
<1>6. WatermarkOK' /\ MarkFollowsHistory'
  BY <1>0 DEF RInv, WatermarkOK, MarkFollowsHistory
<1>7. UNCHANGED store \/ \E n, v : StoresOne(n, v)
  BY <1>2
<1> QED BY <1>0, <1>4, <1>5, <1>6, <1>7, ReplicationStep DEF RInv

\* Steps that change only batches, watermarks, rings and handlers' states.
LEMMA RPeers ==
    ASSUME IInv, RInv, UNCHANGED <<store, hist, mark, receipt, ids, clash>>,
           missed \subseteq missed', batches' \subseteq batches, AcksKept, WatermarkOK',
           WritesKeepIds, \A w \in Writes : write[w].st = "new" => write'[w].st = "new"
    PROVE  RInv'
<1>1. NewIds /\ BatchesKept
  BY DEF NewIds, BatchesKept
<1>2. MarkFollowsHistory'
  BY DEF RInv, MarkFollowsHistory
<1> QED BY <1>1, <1>2, ReplicationStep DEF RInv

\* The watermark takes over what the acknowledgement says.
LEMMA RReplicaAck ==
    ASSUME IInv, RInv, NEW b \in batches, ReplicaAck(b)
    PROVE  RInv'
<1> DEFINE n == b.from
           p == b.to
           id == write[b.w].id
<1>0. /\ b.st = "applied" /\ wm' = [wm EXCEPT ![n] = record_ack(@, p, id)]
      /\ batches' \subseteq batches
      /\ UNCHANGED <<store, write, hist, mark, receipt, ids, clash, missed>>
  BY DEF ReplicaAck, ringVars, slowVars
<1>1. n \in Nodes /\ p \in Nodes /\ id \in Nat
  BY DEF RInv, AcksFollowStores, IInv, BatchesOfWrites, TypeOK
<1> HIDE DEF n, p, id
<1>2. /\ wm' = [m \in Nodes |-> wm'[m]] /\ wm'[n] = record_ack(wm[n], p, id)
      /\ \A m \in Nodes \ {n} : wm'[m] = wm[m]
  BY <1>0, <1>1 DEF RInv, WatermarkOK
<1>3. ASSUME NEW q \in DOMAIN wm'[n]
      PROVE  /\ q \in DOMAIN wm[n] /\ wm'[n][q] \in PeerRecords
             /\ wm'[n][q].acked = wm[n][q].acked \/ (q = p /\ wm'[n][q].acked = id)
  <2>1. CASE p \in DOMAIN wm[n]
    <3>1. wm'[n] = [wm[n] EXCEPT ![p].acked = Larger(@, id)]
      BY <1>2, <2>1 DEF record_ack
    <3>2. q \in DOMAIN wm[n] /\ wm[n][q] \in PeerRecords
      BY <1>1, <3>1 DEF RInv, WatermarkOK
    <3>3. CASE q = p
      <4>1. wm'[n][q] = [wm[n][q] EXCEPT !.acked = Larger(@, id)]
        BY <3>1, <3>2, <3>3
      <4> QED BY <1>1, <3>2, <3>3, <4>1 DEF PeerRecords, Larger
    <3>4. CASE q # p
      BY <3>1, <3>2, <3>4
    <3> QED BY <3>3, <3>4
  <2>2. CASE p \notin DOMAIN wm[n]
    BY <1>1, <1>2, <2>2 DEF record_ack, RInv, WatermarkOK
  <2> QED BY <2>1, <2>2
<1>4. WatermarkOK'
  BY <1>1, <1>2, <1>3 DEF RInv, WatermarkOK
<1>5. AcksKept
  BY <1>0, <1>2, <1>3 DEF AcksKept, p, id
<1>6. WritesKeepIds
  BY <1>0 DEF WritesKeepIds
<1> QED BY <1>0, <1>4, <1>5, <1>6, RPeers

\* A peer that leaves and comes back starts with an empty watermark.
LEMMA RRing ==
    ASSUME IInv, RInv, NEW n \in Nodes, NEW p \in Nodes, RemovePeer(n, p) \/ AddPeer(n, p)
    PROVE  RInv'
<1>0. /\ UNCHANGED <<store, write, batches, hist, mark, receipt, ids, clash, missed>>
      /\ wm' = [wm EXCEPT ![n] = Drop(@, p)] \/ wm' = [wm EXCEPT ![n] = add_peer(@, p)]
  BY DEF RemovePeer, AddPeer, slowVars
<1>1. /\ wm' = [m \in Nodes |-> wm'[m]]
      /\ \A m \in Nodes \ {n} : wm'[m] = wm[m]
      /\ wm'[n] \in {Drop(wm[n], p), add_peer(wm[n], p)}
  BY <1>0 DEF RInv, WatermarkOK
<1>2. \A q \in DOMAIN wm'[n] : (q = p /\ wm'[n][q] = NoPeer) \/ (q \in DOMAIN wm[n] /\ wm'[n][q] = wm[n][q])
  BY <1>1 DEF Drop, add_peer, Set
<1>3. NoPeer \in PeerRecords /\ NoPeer.acked = 0
  BY DEF NoPeer, PeerRecords
<1>4. AcksKept
  BY <1>1, <1>2, <1>3 DEF AcksKept
<1>5. WatermarkOK'
  BY <1>1, <1>2, <1>3 DEF RInv, WatermarkOK
<1>6. WritesKeepIds
  BY <1>0 DEF WritesKeepIds
<1> QED BY <1>0, <1>4, <1>5, <1>6, RPeers

\* A node that restarts knows of no acknowledgement, and its batches are gone.
LEMMA RRestart ==
    ASSUME IInv, RInv, NEW n \in Nodes, Restart(n)
    PROVE  RInv'
<1>0. /\ UNCHANGED <<store, hist, mark, receipt, ids, clash>>
      /\ missed \subseteq missed' /\ batches' \subseteq batches
      /\ wm' = [wm EXCEPT ![n] = [p \in Nodes \ {n} |-> NoPeer]]
  BY DEF Restart, slowVars
<1>1. \A w \in Writes : /\ write'[w].id = write[w].id
                        /\ write'[w].st # "new" <=> write[w].st # "new"
  BY DEF Restart, IInv, TypeOK
<1>2. /\ wm' = [m \in Nodes |-> wm'[m]] /\ wm'[n] = [p \in Nodes \ {n} |-> NoPeer]
      /\ \A m \in Nodes \ {n} : wm'[m] = wm[m]
  BY <1>0 DEF RInv, WatermarkOK
<1>3. NoPeer \in PeerRecords /\ NoPeer.acked = 0
  BY DEF NoPeer, PeerRecords
<1>4. AcksKept /\ WatermarkOK'
  BY <1>2, <1>3 DEF AcksKept, RInv, WatermarkOK
<1>5. WritesKeepIds
  BY <1>1 DEF WritesKeepIds
<1> QED BY <1>0, <1>1, <1>4, <1>5, RPeers

\* A flush raises the receipt only with an entry of its sequence in the journal and
\* the mark at least there.
LEMMA RChunk ==
    ASSUME IInv, RInv, NEW n \in Nodes, NEW t \in Tasks, FlushChunk(n, t) \/ FlushFails(n, t)
    PROVE  RInv'
<1> DEFINE s == sync[n][t]
           c == Chunk(s.todo)
<1>0. /\ UNCHANGED <<store, write, wm, batches, ids, clash, missed>>
      /\ s.todo # <<>>
  BY DEF FlushChunk, FlushFails, ringVars
<1>1. s.todo \in Seq(Writes) /\ s.seq \in Nat
  BY DEF IInv, TypeOK, SyncRecords
<1>2. c \in Seq(Writes) /\ Len(c) \in Nat \ {0}
  BY <1>0, <1>1, QuickNodeLimits DEF Chunk
<1>3. PICK k \in 0..Len(c) :
         /\ hist' = Journalled(c, k, s.seq)
         /\ \/ k = Len(c) /\ mark' = advance(mark, s.seq) /\ receipt' = Larger(receipt, s.seq)
            \/ mark' \in {mark, advance(mark, s.seq)} /\ receipt' = receipt
  <2>1. CASE FlushChunk(n, t)
    <3>1. Len(c) \in 0..Len(c)
      BY <1>2
    <3>2. hist' = Journalled(c, Len(c), s.seq) /\ mark' = advance(mark, s.seq)
          /\ receipt' = Larger(receipt, s.seq)
      BY <2>1 DEF FlushChunk
    <3> QED BY <3>1, <3>2
  <2>2. CASE FlushFails(n, t)
    BY <2>2 DEF FlushFails
  <2> QED BY <2>1, <2>2
<1> HIDE DEF c
<1>4. /\ \A i \in DOMAIN hist : i \in DOMAIN hist' /\ hist'[i] = hist[i]
      /\ k > 0 => Len(hist) + k \in DOMAIN hist' /\ hist'[Len(hist) + k].seq = s.seq
  <2> DEFINE E == [id : Nat, w : Writes, seq : Nat]
             more == [i \in 1..k |-> Entry(c[i], s.seq)]
  <2>1. \A i \in 1..k : c[i] \in Writes /\ Entry(c[i], s.seq) \in E /\ Entry(c[i], s.seq).seq = s.seq
    BY <1>1, <1>2 DEF Entry, IInv, TypeOK
  <2>2. more \in Seq(E) /\ Len(more) = k /\ \A i \in 1..k : more[i].seq = s.seq
    BY <1>2, <2>1
  <2>3. hist \in Seq(E) /\ hist' = hist \o more
    BY <1>3 DEF IInv, TypeOK, Journalled
  <2> HIDE DEF more, E, s
  <2> QED BY <1>2, <2>2, <2>3
<1>5. MarkFollowsHistory'
  <2>1. mark \in Nat /\ receipt \in Nat /\ receipt <= mark
        /\ (receipt = 0 \/ \E i \in DOMAIN hist : receipt <= hist[i].seq)
    BY DEF RInv, MarkFollowsHistory
  <2>2. CASE k = Len(c) /\ mark' = advance(mark, s.seq) /\ receipt' = Larger(receipt, s.seq)
    <3>1. mark' \in Nat /\ receipt' \in Nat /\ receipt' <= mark'
      BY <1>1, <2>1, <2>2 DEF advance, Larger
    <3>2. receipt' = s.seq \/ receipt' = receipt
      BY <2>2 DEF Larger
    <3>3. \E i \in DOMAIN hist' : hist'[i].seq = s.seq
      BY <1>2, <1>4, <2>2
    <3>4. receipt' = 0 \/ \E i \in DOMAIN hist' : receipt' <= hist'[i].seq
      BY <1>1, <1>4, <2>1, <3>2, <3>3
    <3> QED BY <3>1, <3>4 DEF MarkFollowsHistory
  <2>3. CASE mark' \in {mark, advance(mark, s.seq)} /\ receipt' = receipt
    <3>1. mark' \in Nat /\ receipt' \in Nat /\ receipt' <= mark'
      BY <1>1, <2>1, <2>3 DEF advance, Larger
    <3>2. receipt' = 0 \/ \E i \in DOMAIN hist' : receipt' <= hist'[i].seq
      BY <1>4, <2>1, <2>3
    <3> QED BY <3>1, <3>2 DEF MarkFollowsHistory
  <2> QED BY <1>3, <2>2, <2>3
<1>6. WatermarkOK' /\ WritesKeepIds /\ NewIds /\ BatchesKept /\ AcksKept
  BY <1>0 DEF RInv, WatermarkOK, WritesKeepIds, NewIds, BatchesKept, AcksKept
<1> QED BY SMTT(30), <1>0, <1>5, <1>6, ReplicationStep DEF RInv

\* The replay after a restart of the Slow-Node reaches every receipt.
LEMMA RRestartSlow == ASSUME IInv, RInv, RestartSlow PROVE RInv'
<1>0. /\ UNCHANGED <<store, write, wm, batches, hist, receipt, ids, clash, missed>>
      /\ mark' = ReplayedMark
  BY DEF RestartSlow, ringVars
<1>1. ReplayedMark \in Nat /\ \A i \in DOMAIN hist : hist[i].seq <= ReplayedMark
  BY ReplayedMarkIsHighest DEF IInv
<1>2. \A i \in DOMAIN hist : hist[i].seq \in Nat
  <2> DEFINE E == [id : Nat, w : Writes, seq : Nat]
  <2>1. hist \in Seq(E) /\ \A e \in E : e.seq \in Nat
    BY DEF IInv, TypeOK
  <2> HIDE DEF E
  <2> QED BY <2>1
<1>3. MarkFollowsHistory'
  BY <1>0, <1>1, <1>2 DEF RInv, MarkFollowsHistory
<1>4. WatermarkOK' /\ WritesKeepIds /\ NewIds /\ BatchesKept /\ AcksKept
  BY <1>0 DEF RInv, WatermarkOK, WritesKeepIds, NewIds, BatchesKept, AcksKept
<1> QED BY <1>0, <1>3, <1>4, ReplicationStep DEF RInv

LEMMA RInductive == IInv /\ RInv /\ [Next]_vars => RInv'
<1> SUFFICES ASSUME IInv, RInv, [Next]_vars PROVE RInv'
  OBVIOUS
<1>0. ASSUME UNCHANGED <<store, write, wm, batches, hist, mark, receipt, ids, clash, missed>>
      PROVE  RInv'
  <2>1. WatermarkOK' /\ WritesKeepIds /\ AcksKept
    BY <1>0 DEF RInv, WatermarkOK, WritesKeepIds, AcksKept
  <2> QED BY <1>0, <2>1, RPeers
<1>1. CASE UNCHANGED vars
  BY <1>0, <1>1 DEF vars
<1>2. ASSUME NEW w \in Writes, Handler(w) PROVE RInv'
  BY <1>2, RHandler, RReplicateWrite DEF Handler
<1>3. ASSUME NEW w \in Writes, NEW n \in Nodes, BeginWrite(w, n) PROVE RInv'
  BY <1>3, RBeginWrite
<1>4. ASSUME NEW b \in batches, ApplyReplica(b) \/ ReplicaAck(b) PROVE RInv'
  BY <1>4, RApplyReplica, RReplicaAck
<1>5. ASSUME NEW b \in batches, ReplicaLost(b) PROVE RInv'
  <2>1. /\ UNCHANGED <<store, write, wm, hist, mark, receipt, ids, clash>>
        /\ batches' \subseteq batches /\ missed \subseteq missed'
    BY <1>5 DEF ReplicaLost, ringVars, slowVars
  <2>2. WatermarkOK' /\ WritesKeepIds /\ AcksKept
    BY <2>1 DEF RInv, WatermarkOK, WritesKeepIds, AcksKept
  <2> QED BY <2>1, <2>2, RPeers
<1>6. ASSUME NEW n \in Nodes, Restart(n) \/ BeginDrain(n) PROVE RInv'
  BY <1>0, <1>6, RRestart DEF BeginDrain, slowVars
<1>7. ASSUME NEW n \in Nodes, NEW p \in Nodes, RemovePeer(n, p) \/ AddPeer(n, p) PROVE RInv'
  BY <1>7, RRing
<1>8. ASSUME NEW n \in Nodes, NEW t \in Tasks, Flusher(n, t) \/ FlushFails(n, t) PROVE RInv'
  <2>1. CASE BeginSync(n, t) \/ EndSync(n, t)
    BY <1>0, <2>1 DEF BeginSync, EndSync, ringVars, slowVars
  <2> QED BY <1>8, <2>1, RChunk DEF Flusher
<1>9. CASE RestartSlow
  BY <1>9, RRestartSlow
<1> QED BY <1>1, <1>2, <1>3, <1>4, <1>5, <1>6, <1>7, <1>8, <1>9 DEF Next

-----------------------------------------------------------------------------
\* Replication as a whole: the sequence a peer acknowledged is of a record it stores
\* (record_ack after apply_replica), an acknowledged write is what its node stores,
\* and the Slow-Node's watermark is never below a receipt it gave, its own restarts
\* and replays included (HistoryStore::open, apply_flush).
THEOREM ReplicationIsSound == Spec => []ReplicasSound
<1>1. IInv /\ RInv => ReplicasSound
  <2> SUFFICES ASSUME IInv, RInv PROVE ReplicasSound
    OBVIOUS
  <2>1. AckedIsKept
    BY DEF IInv, StoredIsKept, AckedIsKept
  <2>2. WatermarkIsStored
    BY DEF RInv, AcksFollowStores, OnPeer, WatermarkIsStored
  <2>3. ReceiptIsKept
    BY DEF RInv, MarkFollowsHistory, ReceiptIsKept
  <2> QED BY <2>1, <2>2, <2>3 DEF ReplicasSound
<1> QED BY InitIInv, Inductive, InitRInv, RInductive, <1>1, PTL DEF Spec

=============================================================================
