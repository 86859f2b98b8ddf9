----------------------------- MODULE QuickNode ------------------------------
(***************************************************************************)
(* What a Quick-Node does with a write besides storing it: it queues the   *)
(* record for the Slow-Node's history and pushes it to the next node of    *)
(* the ring.  Several nodes hold one partition; each decides from its own  *)
(* ring whether it owns it.  Membership says how the rings change, here    *)
(* they change at any time.                                                *)
(*                                                                         *)
(* A write is a process: handle_write runs on a blocking thread and every  *)
(* structure it touches has a lock of its own.  The id of a record is the  *)
(* tenant, the struct and the node's write sequence; one tenant and one    *)
(* struct are modelled, so the id is the sequence number.  The contents of *)
(* a record are the write that made it.                                    *)
(***************************************************************************)
EXTENDS Integers, Sequences, FiniteSetsExt

CONSTANTS Order,       \* the nodes, clockwise from the partition's position
          MaxWrites,
          BatchMax,    \* FLUSH_BATCH_MAX
          MaxFaults    \* failed or lost calls, storage errors, crashes
CONSTANTS MaxEvictions \* ring changes

ASSUME QuickNodeLimits ==
    /\ IsInjective(Order) /\ 1 \in DOMAIN Order
    /\ BatchMax \in Nat \ {0}
    /\ {MaxWrites, MaxFaults, MaxEvictions} \subseteq Nat

Nodes == Range(Order)
Writes == 1..MaxWrites
MIN_REPLICAS == 2

VARIABLES draining,
          ring,      \* ring[n]: the nodes in n's ring
          seq,       \* seq[n]: local_seq, 0 at start
          store,     \* store[n]: id -> write, the committed records
          write,     \* write[w]: the handler of write w
          pend,      \* pend[n]: flush_pending, in order
          sync,      \* sync[n][t]: the sync_to_slow of the flush loop or of drain
          wm,        \* wm[n]: peer -> [sent, acked], the replication watermark
          batches,   \* replicate requests on their way
          hist,      \* entries of the Slow-Node's journal
          mark,      \* its receipt watermark
          faults, evictions,
          ids,       \* history: ids minted so far
          clash,     \* history: ids minted more than once
          missed,    \* history: <<w, p>> whose batch p did not store
          forgot,    \* history: writes a crash took out of the queue
          receipt    \* history: highest sequence a flush was acknowledged for

vars == <<draining, ring, seq, store, write, pend, sync, wm, batches, hist, mark,
          faults, evictions, ids, clash, missed, forgot, receipt>>
slowVars == <<hist, mark, receipt>>
ringVars == <<draining, ring, evictions>>

-----------------------------------------------------------------------------
\* ConsistentRing::replicas_of, for the partition modelled: the clockwise walk
\* takes the first k nodes of the ring.  The first of them is owner_of.
Walked(r, i) == {j \in 1..i : Order[j] \in r}
replicas_of(r, k) ==
    {Order[i] : i \in {j \in DOMAIN Order : Order[j] \in r /\ Cardinality(Walked(r, j)) <= k}}

owns(n) == n \in replicas_of(ring[n], 1)

NoSync == [st |-> "idle", todo |-> <<>>, failed |-> <<>>, seq |-> 0]
Tasks == {"loop", "drain"}
NoPeer == [sent |-> 0, acked |-> 0]
Fresh == [st |-> "new", node |-> Order[1], id |-> 0]

Set(f, k, v) == [x \in DOMAIN f \cup {k} |-> IF x = k THEN v ELSE f[x]]
Drop(f, k) == [x \in DOMAIN f \ {k} |-> f[x]]
Larger(a, b) == IF a < b THEN b ELSE a

\* ReceiptWatermark::advance ignores a sequence below the mark.
advance(m, s) == Larger(m, s)

\* ReplicationWatermark: add_peer keeps a peer that is registered.
add_peer(t, p) == IF p \in DOMAIN t THEN t ELSE Set(t, p, NoPeer)
record_send(t, p, s) ==
    IF p \in DOMAIN t THEN [t EXCEPT ![p].sent = Larger(@, s)] ELSE t
record_ack(t, p, s) ==
    IF p \in DOMAIN t THEN [t EXCEPT ![p].acked = Larger(@, s)] ELSE t
Sending(t, peers, s) ==
    [p \in DOMAIN t \cup peers |->
        IF p \in peers THEN record_send(add_peer(t, p), p, s)[p] ELSE t[p]]
is_fully_replicated(t, s) == \A p \in DOMAIN t : t[p].acked >= s

Fault == faults < MaxFaults /\ faults' = faults + 1

-----------------------------------------------------------------------------
\* handle_write: the draining and ownership checks, then the id is minted.
\* The writes are interchangeable, so they begin in order.
BeginWrite(w, n) ==
    /\ write[w] = Fresh /\ \A v \in 1..(w - 1) : write[v] # Fresh
    /\ ~draining[n] /\ owns(n)
    /\ seq' = [seq EXCEPT ![n] = @ + 1]
    /\ write' = [write EXCEPT ![w] = [st |-> "minted", node |-> n, id |-> seq'[n]]]
    /\ ids' = ids \cup {seq'[n]}
    /\ clash' = IF seq'[n] \in ids THEN clash \cup {seq'[n]} ELSE clash
    /\ UNCHANGED <<ringVars, slowVars, store, pend, sync, wm, batches, faults, missed, forgot>>

MutCommitWrite(w) ==
    LET n == write[w].node IN
    /\ write[w].st = "minted"
    /\ \/ /\ store' = [store EXCEPT ![n] = Set(@, write[w].id, w)]
          /\ write' = [write EXCEPT ![w].st = "stored"]
          /\ UNCHANGED faults
       \/ /\ Fault
          /\ write' = [write EXCEPT ![w].st = "stored"]
          /\ UNCHANGED store
    /\ UNCHANGED <<ringVars, slowVars, seq, pend, sync, wm, batches, ids, clash, missed, forgot>>

\* commit_write and index_committed, or a storage error.
CommitWrite(w) ==
    LET n == write[w].node IN
    /\ write[w].st = "minted"
    /\ \/ /\ store' = [store EXCEPT ![n] = Set(@, write[w].id, w)]
          /\ write' = [write EXCEPT ![w].st = "stored"]
          /\ UNCHANGED faults
       \/ /\ Fault
          /\ write' = [write EXCEPT ![w].st = "failed"]
          /\ UNCHANGED store
    /\ UNCHANGED <<ringVars, slowVars, seq, pend, sync, wm, batches, ids, clash, missed, forgot>>

\* The record joins flush_pending.
QueueWrite(w) ==
    /\ write[w].st = "stored"
    /\ pend' = [pend EXCEPT ![write[w].node] = Append(@, w)]
    /\ write' = [write EXCEPT ![w].st = "queued"]
    /\ UNCHANGED <<ringVars, slowVars, seq, store, sync, wm, batches, faults, ids, clash,
                   missed, forgot>>

\* replicate_to_peers: the peers of the replica set, one spawned request each;
\* then the client is answered.
ReplicateWrite(w) ==
    LET n == write[w].node
        peers == replicas_of(ring[n], MIN_REPLICAS) \ {n}
    IN
    /\ write[w].st = "queued"
    /\ write' = [write EXCEPT ![w].st = "acked"]
    /\ wm' = [wm EXCEPT ![n] = Sending(@, peers, write[w].id)]
    /\ batches' = batches \cup {[from |-> n, to |-> p, w |-> w, st |-> "sent"] : p \in peers}
    /\ UNCHANGED <<ringVars, slowVars, seq, store, pend, sync, faults, ids, clash, missed, forgot>>

-----------------------------------------------------------------------------
\* apply_replica acknowledges the batch whether or not the commit succeeds.
ApplyReplica(b) ==
    /\ b.st = "sent"
    /\ batches' = (batches \ {b}) \cup {[b EXCEPT !.st = "applied"]}
    /\ \/ /\ store' = [store EXCEPT ![b.to] = Set(@, write[b.w].id, b.w)]
          /\ UNCHANGED <<faults, missed>>
       \/ /\ Fault
          /\ missed' = missed \cup {<<b.w, b.to>>}
          /\ UNCHANGED store
    /\ UNCHANGED <<ringVars, slowVars, seq, write, pend, sync, wm, ids, clash, forgot>>

\* The acknowledgement reaches the sender's task.
ReplicaAck(b) ==
    /\ b.st = "applied"
    /\ batches' = batches \ {b}
    /\ wm' = [wm EXCEPT ![b.from] = record_ack(@, b.to, write[b.w].id)]
    /\ UNCHANGED <<ringVars, slowVars, seq, store, write, pend, sync, faults, ids, clash,
                   missed, forgot>>

\* The request or its answer is lost.  There is no retry.
ReplicaLost(b) ==
    /\ Fault
    /\ batches' = batches \ {b}
    /\ missed' = IF b.st = "sent" THEN missed \cup {<<b.w, b.to>>} ELSE missed
    /\ UNCHANGED <<ringVars, slowVars, seq, store, write, pend, sync, wm, ids, clash, forgot>>

-----------------------------------------------------------------------------
\* The peer leaves the ring of n (evict_peer, or a withdraw it handles).
RemovePeer(n, p) ==
    /\ p \in ring[n] \ {n}
    /\ evictions < MaxEvictions
    /\ evictions' = evictions + 1
    /\ ring' = [ring EXCEPT ![n] = @ \ {p}]
    /\ wm' = [wm EXCEPT ![n] = Drop(@, p)]
    /\ UNCHANGED <<draining, slowVars, seq, store, write, pend, sync, batches, faults,
                   ids, clash, missed, forgot>>

\* The peer announces itself to n.
AddPeer(n, p) ==
    /\ p \notin ring[n]
    /\ ring' = [ring EXCEPT ![n] = @ \cup {p}]
    /\ wm' = [wm EXCEPT ![n] = add_peer(@, p)]
    /\ UNCHANGED <<draining, evictions, slowVars, seq, store, write, pend, sync, batches,
                   faults, ids, clash, missed, forgot>>

\* The process stops and starts again: the records are on disk, the sequence,
\* the queue and the watermark are not.  A batch that was not sent is lost.
Restart(n) ==
    LET here == {w \in Writes : write[w].node = n /\ write[w].st \notin {"new", "failed"}}
    IN
    /\ Fault
    /\ draining' = [draining EXCEPT ![n] = FALSE]
    /\ ring' = [ring EXCEPT ![n] = Nodes]
    /\ seq' = [seq EXCEPT ![n] = 0]
    /\ pend' = [pend EXCEPT ![n] = <<>>]
    /\ sync' = [sync EXCEPT ![n] = [t \in Tasks |-> NoSync]]
    /\ wm' = [wm EXCEPT ![n] = [p \in Nodes \ {n} |-> NoPeer]]
    /\ write' = [w \in Writes |-> IF w \in here /\ write[w].st # "acked"
                                  THEN [write[w] EXCEPT !.st = "failed"] ELSE write[w]]
    /\ batches' = {b \in batches : b.from # n}
    /\ missed' = missed \cup {<<b.w, b.to>> : b \in {x \in batches : x.from = n /\ x.st = "sent"}}
    /\ forgot' = forgot \cup here
    /\ UNCHANGED <<evictions, slowVars, store, ids, clash>>

-----------------------------------------------------------------------------
\* The flag is set; what handlers are in progress go on.
BeginDrain(n) ==
    /\ ~draining[n]
    /\ draining' = [draining EXCEPT ![n] = TRUE]
    /\ sync' = [sync EXCEPT ![n]["drain"].st = "due"]
    /\ UNCHANGED <<ring, evictions, slowVars, seq, store, write, pend, wm, batches, faults,
                   ids, clash, missed, forgot>>

MutBeginSync(n, t) ==
    /\ IF t = "drain" THEN sync[n][t].st = "due"
                      ELSE sync[n][t] = NoSync /\ ~draining[n] /\ Len(pend[n]) > BatchMax
    /\ pend' = [pend EXCEPT ![n] = <<>>]
    /\ sync' = [sync EXCEPT ![n][t] =
                   IF pend[n] = <<>> THEN NoSync
                   ELSE [st |-> "sending", todo |-> pend[n], failed |-> <<>>, seq |-> seq[n]]]
    /\ UNCHANGED <<ringVars, slowVars, seq, store, write, wm, batches, faults, ids, clash,
                   missed, forgot>>

\* sync_to_slow takes the whole queue; the batches carry the current sequence.
BeginSync(n, t) ==
    /\ IF t = "drain" THEN sync[n][t].st = "due"
                      ELSE sync[n][t] = NoSync /\ ~draining[n] /\ pend[n] # <<>>
    /\ pend' = [pend EXCEPT ![n] = <<>>]
    /\ sync' = [sync EXCEPT ![n][t] =
                   IF pend[n] = <<>> THEN NoSync
                   ELSE [st |-> "sending", todo |-> pend[n], failed |-> <<>>, seq |-> seq[n]]]
    /\ UNCHANGED <<ringVars, slowVars, seq, store, write, wm, batches, faults, ids, clash,
                   missed, forgot>>

Chunk(s) == SubSeq(s, 1, IF Len(s) < BatchMax THEN Len(s) ELSE BatchMax)
Behind(s) == SubSeq(s, Len(Chunk(s)) + 1, Len(s))

Entry(w, s) == [id |-> write[w].id, w |-> w, seq |-> s]

\* HistoryStore::apply_flush up to its k-th record.
Journalled(c, k, s) == hist \o [i \in 1..k |-> Entry(c[i], s)]

\* A chunk is stored and acknowledged.
FlushChunk(n, t) ==
    LET s == sync[n][t]
        c == Chunk(s.todo)
    IN
    /\ s.st = "sending" /\ s.todo # <<>>
    /\ hist' = Journalled(c, Len(c), s.seq)
    /\ mark' = advance(mark, s.seq)
    /\ receipt' = Larger(receipt, s.seq)
    /\ sync' = [sync EXCEPT ![n][t].todo = Behind(s.todo)]
    /\ UNCHANGED <<ringVars, seq, store, write, pend, wm, batches, faults, ids, clash, missed,
                   forgot>>

\* A chunk fails: not delivered, some of its records journalled before an
\* error, or stored without an answer in time.
FlushFails(n, t) ==
    LET s == sync[n][t]
        c == Chunk(s.todo)
    IN
    /\ s.st = "sending" /\ s.todo # <<>>
    /\ Fault
    /\ \E k \in 0..Len(c), done \in BOOLEAN :
          /\ done => k = Len(c)
          /\ hist' = Journalled(c, k, s.seq)
          /\ mark' = IF done THEN advance(mark, s.seq) ELSE mark
    /\ sync' = [sync EXCEPT ![n][t].todo = Behind(s.todo), ![n][t].failed = @ \o c]
    /\ UNCHANGED <<ringVars, receipt, seq, store, write, pend, wm, batches, ids, clash,
                   missed, forgot>>

MutEndSync(n, t) ==
    LET s == sync[n][t] IN
    /\ s.st = "sending" /\ s.todo = <<>>
    /\ pend' = [pend EXCEPT ![n] = IF s.failed = <<>> THEN @ ELSE s.failed]
    /\ sync' = [sync EXCEPT ![n][t] = NoSync]
    /\ UNCHANGED <<ringVars, slowVars, seq, store, write, wm, batches, faults, ids, clash,
                   missed, forgot>>

\* What failed goes back in front of the queue.
EndSync(n, t) ==
    LET s == sync[n][t] IN
    /\ s.st = "sending" /\ s.todo = <<>>
    /\ pend' = [pend EXCEPT ![n] = s.failed \o @]
    /\ sync' = [sync EXCEPT ![n][t] = NoSync]
    /\ UNCHANGED <<ringVars, slowVars, seq, store, write, wm, batches, faults, ids, clash,
                   missed, forgot>>

\* HistoryStore::open replays the journal: the mark advances over every entry.
ReplayedMark == Max({0} \cup {hist[i].seq : i \in DOMAIN hist})

RestartSlow ==
    /\ Fault
    /\ mark' = ReplayedMark
    /\ UNCHANGED <<ringVars, hist, receipt, seq, store, write, pend, sync, wm, batches, ids,
                   clash, missed, forgot>>

-----------------------------------------------------------------------------
Init ==
    /\ draining = [n \in Nodes |-> FALSE]
    /\ ring = [n \in Nodes |-> Nodes]
    /\ seq = [n \in Nodes |-> 0]
    /\ store = [n \in Nodes |-> <<>>]
    /\ write = [w \in Writes |-> Fresh]
    /\ pend = [n \in Nodes |-> <<>>]
    /\ sync = [n \in Nodes |-> [t \in Tasks |-> NoSync]]
    /\ wm = [n \in Nodes |-> [p \in Nodes \ {n} |-> NoPeer]]
    /\ batches = {} /\ hist = <<>>
    /\ mark = 0 /\ faults = 0 /\ evictions = 0 /\ receipt = 0
    /\ ids = {} /\ clash = {} /\ missed = {} /\ forgot = {}

Handler(w) == CommitWrite(w) \/ QueueWrite(w) \/ ReplicateWrite(w)
Flusher(n, t) == BeginSync(n, t) \/ FlushChunk(n, t) \/ EndSync(n, t)

Next ==
    \/ \E w \in Writes : Handler(w) \/ \E n \in Nodes : BeginWrite(w, n)
    \/ \E b \in batches : ApplyReplica(b) \/ ReplicaAck(b) \/ ReplicaLost(b)
    \/ \E n \in Nodes : Restart(n) \/ BeginDrain(n)
    \/ \E n, p \in Nodes : RemovePeer(n, p) \/ AddPeer(n, p)
    \/ \E n \in Nodes, t \in Tasks : Flusher(n, t) \/ FlushFails(n, t)
    \/ RestartSlow

Spec == Init /\ [][Next]_vars

\* The threads of handlers run, the flush loop ticks and a request to the
\* Slow-Node ends; it fails only as often as MaxFaults allows.
FairSpec ==
    /\ Spec
    /\ \A w \in Writes : WF_vars(Handler(w))
    /\ \A n \in Nodes, t \in Tasks : WF_vars(Flusher(n, t))

-----------------------------------------------------------------------------
Held(n) == UNION {Range(sync[n][t].todo) \cup Range(sync[n][t].failed) : t \in Tasks}
Flushed == {hist[i].w : i \in DOMAIN hist}

\* "Failures re-queue the records for the next attempt - history shipping is
\* at-least-once": a record that was queued, and whose node has not restarted,
\* is in the queue, in a flush in progress, or in the Slow-Node's journal.  It
\* survives rejected, partly applied and unanswered batches, and two flushes
\* that overlap with each other and with new writes.
HistoryAccounted ==
    \A w \in Writes \ forgot : write[w].st \in {"queued", "acked"} =>
       w \in Range(pend[write[w].node]) \cup Held(write[w].node) \cup Flushed

\* Every queued record reaches the Slow-Node, unless its node restarts or
\* drains first.
HistoryReaches ==
    \A w \in Writes :
       write[w].st = "queued" ~> w \in Flushed \cup forgot \/ draining[write[w].node]

\* The sequence a replica has acknowledged is one whose record it stores, unless
\* its commit failed or the id was given out twice.
WatermarkIsStored ==
    \A n \in Nodes : \A p \in DOMAIN wm[n], w \in Writes \ forgot :
       (/\ write[w].st = "acked" /\ write[w].node = n
        /\ wm[n][p].acked = write[w].id /\ write[w].id \notin clash
        /\ <<w, p>> \notin missed)
          => write[w].id \in DOMAIN store[p] /\ store[p][write[w].id] = w

\* "The write is only confirmed after commit": an acknowledged write is what its
\* node stores under its id.  No replicated batch, late or repeated, replaces
\* it, unless two nodes or two lives of a node gave out the same id.
AckedIsKept ==
    \A w \in Writes : write[w].st = "acked" /\ write[w].id \notin clash =>
       /\ write[w].id \in DOMAIN store[write[w].node]
       /\ store[write[w].node][write[w].id] = w

\* "Highest durably-acked write sequence": no sequence the Slow-Node has
\* acknowledged is above its watermark, across its restarts.
ReceiptIsKept == receipt <= mark

\* Replication as a whole: what a watermark, an acknowledgement or a receipt says is
\* stored.
ReplicasSound == WatermarkIsStored /\ AckedIsKept /\ ReceiptIsKept

-----------------------------------------------------------------------------
\* "Determine which writes are considered durably replicated": when every peer
\* has acknowledged up to a write, every peer stores it.
WatermarkCovers ==
    \A w \in Writes \ forgot :
       write[w].st = "acked" /\ is_fully_replicated(wm[write[w].node], write[w].id) =>
          \A p \in DOMAIN wm[write[w].node] : write[w].id \in DOMAIN store[p]

\* "Failed (older) records go before anything written since the drain above,
\* preserving per-tenant commit order": the queue of a node is in id order when
\* its writes are queued one at a time.
QueueInOrder ==
    \A n \in Nodes : \A i, j \in DOMAIN pend[n] :
       i < j /\ Range(pend[n]) \cap forgot = {} => write[pend[n][i]].id < write[pend[n][j]].id

\* "The task exits when the node starts draining (drain runs its own final
\* sync)": nothing is left in the queue when that sync is over and no call failed.
DrainLeavesNothing ==
    \A n \in Nodes : draining[n] /\ sync[n] = [t \in Tasks |-> NoSync] /\ faults = 0
       /\ (\A w \in Writes : write[w].st \in {"new", "acked"}) => pend[n] = <<>>

\* One writer per partition mints ids: no id is given out twice.
IdsAreFresh == clash = {}

=============================================================================
