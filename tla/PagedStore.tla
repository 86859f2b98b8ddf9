----------------------------- MODULE PagedStore -----------------------------
(***************************************************************************)
(* The paged store: a page journal, the pages of data.bin, and one page    *)
(* directory per type.  put and remove journal a record and buffer it; a   *)
(* drain merges the buffer into pages copy-on-write and journals the new   *)
(* descriptors; grow_directory rehashes a type; open replays the journal.  *)
(*                                                                         *)
(* Replaying is a fold over the records, so the journal is kept as what it *)
(* replays to: log[1] after the last fsync, log[i + 1] after one record    *)
(* more.  A process crash keeps the last of them, a power loss any one.    *)
(*                                                                         *)
(* A place is a run of blocks.  An allocation returns any place that is    *)
(* not held, which is what BlockAllocator's Partition promises.            *)
(***************************************************************************)
EXTENDS Naturals, SequencesExt, FiniteSetsExt

CONSTANTS Empty,         \* PageDescriptor::EMPTY and DictRef::NONE
          Types,         \* (struct_id, version) pairs
          Ids,           \* record ids
          Hash,          \* mix64 of an id
          Bigs,          \* whether payloads spill: a set of booleans
          Places,        \* bound: runs of data.bin
          DefaultSlots,  \* slots of a new directory
          MaxSlots,      \* bound: slots a directory grows to
          TrainAt,       \* DICT_TRAIN_MIN_RECORDS
          MaxWrites,     \* bound: puts and removes
          MaxCrashes,    \* bound: crashes and power losses
          MaxFaults,     \* bound: I/O errors
          PowerLoss      \* whether a crash may lose what was not synced

ASSUME SizesAreNatural ==
  /\ Hash \in [Ids -> Nat]
  /\ DefaultSlots \in Nat \ {0} /\ MaxSlots \in Nat /\ TrainAt \in Nat
  /\ MaxWrites \in Nat /\ MaxCrashes \in Nat /\ MaxFaults \in Nat
  /\ Bigs \subseteq BOOLEAN /\ PowerLoss \in BOOLEAN
  /\ Empty \notin Places

VARIABLES
  log,       \* journal: what it replays to since the last fsync, see above
  data,      \* data.bin: the image at each place
  dirty,     \* places written since data.bin was synced
  dirs,      \* committed directories: per type its slots, <<>> when it has none
  pending,   \* buffered mutations
  held,      \* places the allocator counts as used
  dict,      \* per type the dictionary new pages compress against
  drained,   \* drained_counts
  job,       \* the drain or grow in progress
  acked,     \* ghost: per record the last mutation that returned Ok
  diverged,  \* ghost: a failed operation left memory and journal apart
  broken,    \* ghost: an operation took effect on top of a known loss
  counters

memory == <<dirs, pending, held, dict, drained>>
vars == <<log, data, dirty, memory, job, acked, diverged, broken, counters>>

Untouched == [kind |-> "untouched"]   \* pending has no mutation of the record
Deleted == [kind |-> "deleted"]       \* a tombstone, and what get returns for it: None
Corrupt == [kind |-> "corrupt"]       \* get returns Err
NoEntry == [kind |-> "none"]          \* the page has no such record

Value == [kind : {"value"}, n : 1..MaxWrites, big : BOOLEAN]
Mutation == Value \cup {Deleted}
Entry == [kind : {"inline"}, val : Value] \cup [kind : {"heap"}, at : Places]
Page == [kind : {"page"}, recs : [Ids -> Entry \cup {NoEntry}], dict : Places \cup {Empty}]
Image == Page \cup [kind : {"heap"}, val : Value] \cup [kind : {"dict"}] \cup [kind : {"none"}]
Blank == [kind |-> "none"]
Directory == {<<>>} \cup UNION {[1..n -> Places \cup {Empty}] : n \in 1..MaxSlots}
NoMutations == [t \in Types |-> [i \in Ids |-> Untouched]]
Idle == [phase |-> "idle", kind |-> "none", work |-> {}, muts |-> NoMutations,
         todo |-> <<>>, started |-> FALSE, clobbered |-> FALSE]

----------------------------------------------------------------------------
(* Reading.                                                                *)

\* slot_for, with the first slot numbered 1.
SlotOf(id, n) == (Hash[id] % n) + 1

\* read_run_page: the CRC covers the image, a dictionary page needs its dictionary.
Readable(d, p) ==
  d[p].kind = "page" /\ (d[p].dict # Empty => d[d[p].dict].kind = "dict")

\* read_slot.
SlotRecs(d, p) == IF p = Empty THEN [i \in Ids |-> NoEntry] ELSE d[p].recs

\* What a page holds for a record; a spilled value is read from its extent.
PageGet(d, p, id) ==
  LET e == d[p].recs[id]
  IN  IF ~Readable(d, p) THEN Corrupt
      ELSE IF e = NoEntry THEN Deleted
      ELSE IF e.kind = "inline" THEN e.val
      ELSE IF d[e.at].kind = "heap" THEN d[e.at].val ELSE Corrupt

\* PageDirectory::get.
Lookup(d, dir, id) ==
  IF dir = <<>> \/ dir[SlotOf(id, Len(dir))] = Empty THEN Deleted
  ELSE PageGet(d, dir[SlotOf(id, Len(dir))], id)

\* PagedStore::get, on directories ds and a buffer ms.
Get(d, ds, ms, t, id) ==
  IF ms[t][id] # Untouched THEN ms[t][id] ELSE Lookup(d, ds[t], id)

\* Places a page refers to: itself, its heap extents and its dictionary.
HeapOf(recs) == {recs[i].at : i \in {j \in Ids : recs[j].kind = "heap"}}
Refs(d, p) ==
  IF d[p].kind # "page" THEN {p}
  ELSE {p} \cup HeapOf(d[p].recs) \cup ({d[p].dict} \ {Empty})
Descriptors(ds) == UNION {Range(ds[t]) : t \in Types} \ {Empty}
Live(d, ds) == UNION {Refs(d, p) : p \in Descriptors(ds)}

----------------------------------------------------------------------------
(* The journal.                                                            *)

AllocateBlock(runs) == [op |-> "alloc", runs |-> runs]
FreeBlock(runs) == [op |-> "free", runs |-> runs]
SetDescriptor(t, s, p) == [op |-> "desc", t |-> t, slot |-> s, at |-> p]
ResizeDirectory(t, n) == [op |-> "resize", t |-> t, n |-> n]
Record(t, id, m) == [op |-> "record", t |-> t, id |-> id, m |-> m]
Checkpoint == [op |-> "checkpoint"]

\* The ledger records of a commit; it has none for runs it did not touch.
Ledger(entries) == SelectSeq(entries, LAMBDA e : e.op \in {"alloc", "free"} => e.runs # {})

Resized(dir, n) == [s \in 1..n |-> IF s <= Len(dir) THEN dir[s] ELSE Empty]

\* One iteration of replay.
Replay(st, e) ==
  CASE e.op = "alloc" -> [st EXCEPT !.ledger = @ \cup e.runs]
    [] e.op = "free" -> [st EXCEPT !.ledger = @ \ e.runs]
    [] e.op = "resize" ->
         [st EXCEPT !.dirs[e.t] = IF e.n > Len(@) THEN Resized(@, e.n) ELSE @]
    [] e.op = "desc" ->
         [st EXCEPT !.dirs[e.t] =
            [(IF e.slot > Len(@) THEN Resized(@, e.slot) ELSE @) EXCEPT ![e.slot] = e.at]]
    [] e.op = "record" ->
         [st EXCEPT !.pending[e.t][e.id] = e.m, !.acked[e.t][e.id] = e.m]
    [] e.op = "checkpoint" -> [st EXCEPT !.pending = NoMutations]

\* What compact writes: the directories, the runs they refer to and the
\* current dictionaries, and the records not drained yet.
Snapshot == [dirs |-> dirs, pending |-> pending, acked |-> acked,
             ledger |-> Live(data, dirs) \cup (Range(dict) \ {Empty})]

\* The fsync of data.bin.
MutSyncData == UNCHANGED dirty
SyncData == dirty' = {}

\* The runs open hands to the allocator as used.
MutUsedRuns(st) == Descriptors(st.dirs)
UsedRuns(st) == st.ledger

----------------------------------------------------------------------------
(* Writes.                                                                 *)

\* put and remove: journal the mutation without fsync, buffer it, return Ok.
Mutate(t, id, m) ==
  /\ job.phase = "idle" /\ counters.writes < MaxWrites
  /\ log' = Append(log, Replay(Last(log), Record(t, id, m)))
  /\ pending' = [pending EXCEPT ![t][id] = m]
  /\ acked' = [acked EXCEPT ![t][id] = m]
  /\ counters' = [counters EXCEPT !.writes = @ + 1]
  /\ UNCHANGED <<data, dirty, dirs, held, dict, drained, job, diverged, broken>>

PutRecord(t, id, big) == Mutate(t, id, [kind |-> "value", n |-> counters.writes + 1, big |-> big])
RemoveRecord(t, id) == Mutate(t, id, Deleted)

----------------------------------------------------------------------------
(* drain.  The store is borrowed for the whole call, so only a crash or an *)
(* I/O error can come between its steps.                                   *)

Slots(t) == IF dirs[t] = <<>> THEN [s \in 1..DefaultSlots |-> Empty] ELSE dirs[t]

DrainBegin ==
  /\ job.phase = "idle" /\ pending # NoMutations
  /\ job' = [Idle EXCEPT
       !.phase = "commit", !.kind = "drain", !.muts = pending,
       !.work = {<<t, SlotOf(i, Len(Slots(t)))>> : <<t, i>> \in
                   {x \in Types \X Ids : pending[x[1]][x[2]] # Untouched}}]
  /\ pending' = NoMutations
  /\ broken' = (broken \/ diverged)
  /\ UNCHANGED <<log, data, dirty, dirs, held, dict, drained, acked, diverged, counters>>

\* A write on places that a state the journal can replay to still refers to.
Clobbers(fresh) == \E i \in DOMAIN log : fresh \cap Live(data, log[i].dirs) # {}

\* The journal records of a slot's commit, in the order drain appends them.
MutCommitRecords(t, s, new, fresh, freed) ==
  Ledger(<<SetDescriptor(t, s, new), AllocateBlock(fresh), FreeBlock(freed)>>)
CommitRecords(t, s, new, fresh, freed) ==
  Ledger(<<AllocateBlock(fresh), SetDescriptor(t, s, new), FreeBlock(freed)>>)

\* SlotPage::upsert_entry and SlotPage::remove for the mutations of ids; at has
\* the extents of the values that are spilled.
Merged(recs, ids, muts, at) ==
  [i \in Ids |-> IF i \notin ids THEN recs[i]
                 ELSE IF muts[i] = Deleted THEN NoEntry
                 ELSE IF i \in DOMAIN at THEN [kind |-> "heap", at |-> at[i]]
                 ELSE [kind |-> "inline", val |-> muts[i]]]

\* commit_slot: merge the slot's mutations into its page, spilling big values;
\* place the result on fresh places, then release the old page and the extents
\* of the values it replaced.
CommitSlot(t, s) ==
  LET dir == Slots(t)
      old == dir[s]
      recs == SlotRecs(data, old)
      muts == job.muts[t]
      ids == {i \in Ids : muts[i] # Untouched /\ SlotOf(i, Len(dir)) = s}
      spilled == {i \in ids : muts[i] # Deleted /\ muts[i].big}
      freed == ({old} \cup HeapOf([i \in Ids |-> IF i \in ids THEN recs[i] ELSE NoEntry])) \ {Empty}
  IN
  /\ job.phase = "commit" /\ <<t, s>> \in job.work
  /\ old # Empty => Readable(data, old)
  /\ \E at \in Injection(spilled, Places \ held) :
       LET merged == Merged(recs, ids, muts, at)
       IN \E new \in IF Range(merged) = {NoEntry} THEN {Empty} ELSE Places \ (held \cup Range(at)) :
            LET fresh == (Range(at) \cup {new}) \ {Empty}
            IN /\ data' = [p \in Places |->
                    IF p = new THEN [kind |-> "page", recs |-> merged, dict |-> dict[t]]
                    ELSE IF p \in Range(at)
                         THEN [kind |-> "heap", val |-> muts[CHOOSE i \in spilled : at[i] = p]]
                    ELSE data[p]]
               /\ dirty' = dirty \cup fresh
               /\ held' = (held \cup fresh) \ freed
               /\ dirs' = [dirs EXCEPT ![t] = [dir EXCEPT ![s] = new]]
               /\ job' = [job EXCEPT
                    !.work = @ \ {<<t, s>>},
                    !.clobbered = @ \/ Clobbers(fresh),
                    !.todo = (IF dirs[t] = <<>> THEN <<ResizeDirectory(t, Len(dir))>> ELSE <<>>)
                             \o @ \o CommitRecords(t, s, new, fresh, freed)]
  /\ UNCHANGED <<log, pending, dict, drained, acked, diverged, broken, counters>>

\* train_due_dictionaries, which may decline for want of samples, and data.sync.
Settle ==
  LET added(t) == Cardinality({i \in Ids : job.muts[t][i] \notin {Untouched, Deleted}})
      due == {t \in Types : /\ dict[t] = Empty /\ drained[t] < TrainAt
                            /\ drained[t] + added(t) >= TrainAt}
  IN
  /\ job.phase = "commit" /\ job.work = {}
  /\ drained' = [t \in Types |-> drained[t] + added(t)]
  /\ \E trained \in SUBSET due : \E at \in Injection(trained, Places \ held) :
       /\ data' = [p \in Places |-> IF p \in Range(at) THEN [kind |-> "dict"] ELSE data[p]]
       /\ held' = held \cup Range(at)
       /\ dict' = [t \in Types |-> IF t \in trained THEN at[t] ELSE dict[t]]
       /\ job' = [job EXCEPT
            !.phase = "journal",
            !.clobbered = @ \/ Clobbers(Range(at)),
            !.todo = @ \o Ledger(<<AllocateBlock(Range(at))>>) \o <<Checkpoint>>]
  /\ SyncData
  /\ UNCHANGED <<log, dirs, pending, acked, diverged, broken, counters>>

\* One append of the journalling phase of a drain or a grow.
AppendEntry ==
  /\ job.phase = "journal" /\ job.todo # <<>>
  /\ log' = Append(log, Replay(Last(log), Head(job.todo)))
  /\ job' = [job EXCEPT !.todo = Tail(@), !.started = TRUE]
  /\ UNCHANGED <<data, dirty, memory, acked, diverged, broken, counters>>

\* The fsync that ends the call, after which a drain compacts a long journal.
Finish ==
  /\ job.phase = "journal" /\ job.todo = <<>>
  /\ \/ log' = <<Last(log)>>
     \/ job.kind = "drain" /\ log' = <<Snapshot>>
  /\ job' = Idle
  /\ UNCHANGED <<data, dirty, memory, acked, diverged, broken, counters>>

----------------------------------------------------------------------------
(* Other operations.                                                       *)

\* grow_directory up to data.sync: every record moves to its slot among n, on
\* fresh places, and the old pages are released.
GrowBegin(t, n) ==
  LET dir == dirs[t]
      olds == Range(dir) \ {Empty}
      having(i) == {s \in DOMAIN dir : SlotRecs(data, dir[s])[i] # NoEntry}
      entry(i) == IF having(i) = {} THEN NoEntry ELSE SlotRecs(data, dir[Max(having(i))])[i]
      bucket(s) == [i \in Ids |-> IF SlotOf(i, n) = s THEN entry(i) ELSE NoEntry]
      filled == {s \in 1..n : Range(bucket(s)) # {NoEntry}}
  IN
  /\ job.phase = "idle" /\ dir # <<>> /\ n >= Len(dir)
  /\ \A p \in olds : Readable(data, p)
  /\ \E at \in Injection(filled, Places \ held) :
       LET slots == [s \in 1..n |-> IF s \in filled THEN at[s] ELSE Empty]
       IN /\ data' = [p \in Places |->
               IF p \in Range(at)
               THEN [kind |-> "page", dict |-> dict[t],
                     recs |-> bucket(CHOOSE s \in filled : at[s] = p)]
               ELSE data[p]]
          /\ held' = (held \cup Range(at)) \ olds
          /\ dirs' = [dirs EXCEPT ![t] = slots]
          /\ job' = [Idle EXCEPT
               !.phase = "journal", !.kind = "grow",
               !.clobbered = Clobbers(Range(at)),
               !.todo = <<ResizeDirectory(t, n)>>
                        \o FlattenSeq([s \in 1..n |->
                             Ledger(<<AllocateBlock({slots[s]} \ {Empty}),
                                      SetDescriptor(t, s, slots[s])>>)])
                        \o Ledger(<<FreeBlock(olds)>>)]
  /\ SyncData
  /\ broken' = (broken \/ diverged)
  /\ UNCHANGED <<log, pending, dict, drained, acked, diverged, counters>>

\* compact: the snapshot replaces the journal by a rename.
Compact ==
  /\ job.phase = "idle"
  /\ \A p \in Descriptors(dirs) : Readable(data, p)
  /\ log' = <<Snapshot>>
  /\ broken' = (broken \/ diverged)
  /\ UNCHANGED <<data, dirty, memory, job, acked, diverged, counters>>

Sync ==
  /\ job.phase = "idle"
  /\ SyncData /\ log' = <<Last(log)>>
  /\ UNCHANGED <<data, memory, job, acked, diverged, broken, counters>>

\* A drain rewrites places the journal still refers to, or a grow has
\* journalled part of the new layout.
AtRisk == job.clobbered \/ (job.kind = "grow" /\ job.started)

\* A commit needs a place for its page and for each value it spills.
DiskFull == Cardinality(Places \ held) <= Cardinality(Ids)

\* An I/O error makes drain or grow_directory return early: what the call had
\* done in memory stays, and the records a drain had taken are dropped.
JobFails ==
  /\ job.phase \in {"commit", "journal"}
  /\ counters.faults < MaxFaults \/ (job.phase = "commit" /\ DiskFull)
  /\ job' = Idle
  /\ diverged' = TRUE
  /\ broken' = (broken \/ AtRisk)
  /\ counters' = [counters EXCEPT !.faults = IF @ < MaxFaults THEN @ + 1 ELSE @]
  /\ UNCHANGED <<log, data, dirty, memory, acked>>

Stopped ==
  /\ job.phase # "down" /\ counters.crashes < MaxCrashes
  /\ job' = [Idle EXCEPT !.phase = "down"]
  /\ dirs' = [t \in Types |-> <<>>] /\ pending' = NoMutations /\ held' = {}
  /\ dict' = [t \in Types |-> Empty] /\ drained' = [t \in Types |-> 0]
  /\ diverged' = FALSE
  /\ broken' = (broken \/ AtRisk)
  /\ counters' = [counters EXCEPT !.crashes = @ + 1]

\* The process dies: what was written to the files stays.
Crash == Stopped /\ UNCHANGED <<log, data, dirty, acked>>

\* The machine loses power: any journal record and any page written since the
\* last fsync may be gone, the records from the end.
LosePower ==
  /\ PowerLoss /\ Stopped
  /\ \E i \in DOMAIN log : log' = <<log[i]>> /\ acked' = log[i].acked
  /\ \E lost \in SUBSET dirty :
       data' = [p \in Places |-> IF p \in lost THEN Blank ELSE data[p]]
  /\ dirty' = {}

\* open: directories, buffer and allocator come from the replay, and each type
\* adopts the dictionary of one of its pages.
Open ==
  /\ job.phase = "down"
  /\ job' = Idle
  /\ dirs' = Last(log).dirs /\ pending' = Last(log).pending /\ held' = UsedRuns(Last(log))
  /\ dict' = [t \in Types |->
       LET used == {data[p].dict : p \in {q \in Range(dirs'[t]) \ {Empty} : data[q].kind = "page"}} \ {Empty}
       IN  IF used = {} THEN Empty ELSE CHOOSE p \in used : TRUE]
  /\ UNCHANGED <<log, data, dirty, drained, acked, diverged, broken, counters>>

NoRecords == [t \in Types |-> [i \in Ids |-> Deleted]]

Init ==
  /\ log = <<[dirs |-> [t \in Types |-> <<>>], pending |-> NoMutations,
              ledger |-> {}, acked |-> NoRecords]>>
  /\ data = [p \in Places |-> Blank] /\ dirty = {}
  /\ dirs = [t \in Types |-> <<>>] /\ pending = NoMutations /\ held = {}
  /\ dict = [t \in Types |-> Empty] /\ drained = [t \in Types |-> 0]
  /\ job = Idle
  /\ acked = NoRecords /\ diverged = FALSE /\ broken = FALSE
  /\ counters = [writes |-> 0, crashes |-> 0, faults |-> 0]

Next ==
  \/ \E t \in Types, id \in Ids, big \in Bigs : PutRecord(t, id, big)
  \/ \E t \in Types, id \in Ids : RemoveRecord(t, id)
  \/ DrainBegin
  \/ \E t \in Types, s \in 1..MaxSlots : CommitSlot(t, s)
  \/ Settle
  \/ AppendEntry
  \/ Finish
  \/ \E t \in Types, n \in 1..MaxSlots : GrowBegin(t, n)
  \/ Compact
  \/ Sync
  \/ JobFails
  \/ Crash
  \/ LosePower
  \/ Open

Spec == Init /\ [][Next]_vars

----------------------------------------------------------------------------
(* Properties.                                                             *)

LogState == [dirs : [Types -> Directory], ledger : SUBSET Places,
             pending : [Types -> [Ids -> Mutation \cup {Untouched}]],
             acked : [Types -> [Ids -> Mutation]]]

\* Every variable keeps its shape; in particular the ledger, the directories and
\* the buffer that replay returns hold only runs and records of the store.
TypeOK ==
  /\ log # <<>> /\ \A i \in DOMAIN log : log[i] \in LogState
  /\ data \in [Places -> Image] /\ dirty \subseteq Places
  /\ dirs \in [Types -> Directory]
  /\ pending \in [Types -> [Ids -> Mutation \cup {Untouched}]]
  /\ held \subseteq Places
  /\ dict \in [Types -> Places \cup {Empty}]

\* "A record is visible the instant it is written": between calls, get returns
\* the last acked mutation of every record, whatever drains, grows,
\* compactions, crashes and reopens came before, as long as no call failed and
\* no loss described below happened.
ReadYourWrites ==
  job.phase = "idle" /\ ~diverged /\ ~broken =>
    \A t \in Types, id \in Ids : Get(data, dirs, pending, t, id) = acked[t][id]

\* data.bin as a power loss may leave it.
Durable == [p \in Places |-> IF p \in dirty THEN Blank ELSE data[p]]

\* "Recovery replays the still-pending records": at every instant of every
\* call, a failed one included, each state the journal can come back with reads
\* as the acked records of that point, on the pages that are synced.  It does
\* not hold while a drain has rewritten a run it freed itself, or a grow has
\* journalled part of its layout (AtRisk).
Recoverable ==
  ~broken /\ ~AtRisk =>
    \A i \in DOMAIN log, t \in Types, id \in Ids :
      Get(Durable, log[i].dirs, log[i].pending, t, id) = log[i].acked[t][id]

\* "A recovered allocator never omits a block a live descriptor points at", nor
\* a heap extent or dictionary of such a page: alloc before descriptor before
\* free, in every call and in the snapshot of a compaction.
LedgerCovers ==
  ~broken /\ ~job.clobbered =>
    \A i \in DOMAIN log : Live(data, log[i].dirs) \subseteq log[i].ledger

\* "Nothing is mutated in place, so a crash mid-drain leaves every page intact".
CrashKeepsPages ==
  ~broken /\ job.kind = "drain" =>
    \A t \in Types, id \in Ids :
      Get(data, Last(log).dirs, Last(log).pending, t, id) = acked[t][id]

\* "Lengthening the directory itself follows the same discipline": recovery
\* sees the old or the new layout.
GrowIsAtomic ==
  ~broken /\ job.kind = "grow" =>
    \A t \in Types, id \in Ids :
      Get(data, Last(log).dirs, Last(log).pending, t, id) = acked[t][id]

\* "Reads overlay the pending buffer on top of the committed pages, so a record
\* is visible the instant it is written", after a call that failed as well.
VisibleOnceWritten ==
  job.phase = "idle" /\ ~broken =>
    \A t \in Types, id \in Ids : Get(data, dirs, pending, t, id) = acked[t][id]

\* "The record is appended to the journal (durable)": no power loss takes back
\* a mutation that returned Ok.
DurableOnAck == \A i \in DOMAIN log : log[i].acked = acked
=============================================================================
