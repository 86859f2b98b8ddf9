---------------------------- MODULE LiveTracker ----------------------------
(***************************************************************************)
(* The list of live record ids of one (struct, tenant): a head with the    *)
(* number of sealed segments and the open segment, and the sealed segments *)
(* as records of their own.  Write handlers append to it after the commit  *)
(* of the record, delete handlers remove from it, compaction saves it with *)
(* the rest of the page table, and recovery rebuilds it from what was      *)
(* saved and the records the journal replays.                              *)
(*                                                                         *)
(* Handlers run on several threads and each read or write of the page file *)
(* takes the page lock anew, so they interleave between any two of them.   *)
(* An id is its created_at, the number next_seq gave the write.  What a    *)
(* torn append does to the journal is NodeStorage's subject.               *)
(***************************************************************************)
EXTENDS Naturals, Sequences, FiniteSetsExt

CONSTANTS Tasks,         \* handler threads
          Cap,           \* LIVE_SEGMENT_CAP
          MaxWrites,     \* bound: write requests
          MaxDeletes,    \* bound: delete requests
          MaxCrashes,    \* bound: crashes
          MaxFaults      \* bound: tracker updates that fail

ASSUME LimitsAreNatural ==
  /\ Cap \in Nat \ {0}
  /\ MaxWrites \in Nat /\ MaxDeletes \in Nat /\ MaxCrashes \in Nat /\ MaxFaults \in Nat

Ids == 1..MaxWrites

VARIABLES
  unique,     \* whether the registry says the struct is Unique
  journal,    \* journal.log: per id the write it holds for it, 0 for none
  snap,       \* data.bin: the records and the tracker
  recs,       \* page table: per id the write stored under it, 0 for none
  tracker,    \* page table: the head and the segments
  node,       \* "up", "down", or "recovering" inside NodeStorage::open
  comp,       \* compact_journal: "idle", or "flushed" before its truncation
  seq,        \* local_seq
  task,       \* per handler its step and what it has read
  \* history, for the properties
  history,    \* ids of the committed writes, in commit order
  deleted,    \* ids a delete returned Ok for
  revivable,  \* ids a delete had reached before a crash
  raced,      \* ids a handler that worked from a stale read added or dropped
  overtaken,  \* a write was indexed after one with its id or a higher one
  failed,     \* ids whose tracker update failed
  overlap,    \* ids committed and not indexed when the current compaction flushed
  adrift,     \* ids a crash now would leave unlisted
  lost,       \* ids a crash did leave unlisted
  counters

files == <<journal, snap>>
table == <<recs, tracker>>
ghosts == <<history, deleted, revivable, raced, overtaken, failed, overlap, adrift, lost>>
vars == <<unique, files, table, node, comp, seq, task, ghosts, counters>>

NoRecords == [i \in Ids |-> 0]
LiveHead == [sealed |-> 0, open |-> <<>>]
EmptyTracker == [head |-> LiveHead, segs |-> <<>>]
Idle == [pc |-> "idle", id |-> 0, n |-> 0, head |-> LiveHead, seg |-> 0, ids |-> <<>>,
         stale |-> FALSE]

----------------------------------------------------------------------------
(* The list.                                                               *)

\* A sealed segment is a record under an id of its own; absent is empty.
read_segment(tr, k) == IF k \in DOMAIN tr.segs THEN tr.segs[k] ELSE <<>>
write_segment(tr, k, ids) ==
  [tr EXCEPT !.segs = [j \in DOMAIN @ \cup {k} |-> IF j = k THEN ids ELSE @[j]]]

\* live_ids: the sealed segments, then the open one; and the set of what it returns.
LiveIds(tr) ==
  LET out[k \in 0..tr.head.sealed] == IF k = 0 THEN <<>> ELSE out[k - 1] \o read_segment(tr, k)
  IN  out[tr.head.sealed] \o tr.head.open
Listed(tr) == Range(tr.head.open) \cup UNION {Range(read_segment(tr, k)) : k \in 1..tr.head.sealed}

\* Vec::remove at the first position of the id.
MutWithout(ids, id) == SubSeq(ids, 1, Len(ids) - 1)
Without(ids, id) ==
  LET pos == CHOOSE i \in DOMAIN ids : ids[i] = id /\ \A j \in 1..(i - 1) : ids[j] # id
  IN  [j \in 1..(Len(ids) - 1) |-> ids[IF j < pos THEN j ELSE j + 1]]

\* sort_unstable_by_key and dedup.
MutInOrder(S) ==
  CHOOSE ids \in [1..Cardinality(S) -> S] : \A i, j \in DOMAIN ids : i < j => ids[i] > ids[j]
InOrder(S) ==
  CHOOSE ids \in [1..Cardinality(S) -> S] : \A i, j \in DOMAIN ids : i < j => ids[i] < ids[j]

\* live_rebuild: the union in created_at order, cut into full segments.
Rebuilt(tr, replayed) ==
  LET ids == InOrder(Listed(tr) \cup replayed)
      full == Len(ids) \div Cap
  IN  [head |-> [sealed |-> full, open |-> SubSeq(ids, full * Cap + 1, Len(ids))],
       segs |-> [k \in DOMAIN tr.segs \cup 1..full |->
                   IF k <= full THEN SubSeq(ids, (k - 1) * Cap + 1, k * Cap) ELSE tr.segs[k]]]

At(t, pc) == node = "up" /\ task[t].pc = pc
Goto(t, pc) == task' = [task EXCEPT ![t].pc = pc]
Done(t) == task' = [task EXCEPT ![t] = Idle]

\* The tracker changed under t: what the other handlers have read is stale.
Wrote(t, next) ==
  task' = [u \in Tasks |->
    IF u = t THEN next
    ELSE IF task[u].pc \in {"append", "sealed", "remove", "scan", "rewrite"}
         THEN [task[u] EXCEPT !.stale = TRUE]
    ELSE task[u]]

Working(pcs) == {task[t].id : t \in {u \in Tasks : task[u].pc \in pcs}}
Unindexed == Working({"journalled", "stored", "append", "sealed"})
Deleting == Working({"remove", "scan", "rewrite"})

\* What a handler that works from a stale read does to the list.
Blame(t) ==
  raced' = IF task[t].stale
           THEN raced \cup SymDiff(Listed(tracker), Listed(tracker')) \cup {task[t].id} ELSE raced

----------------------------------------------------------------------------
(* handle_write: mint the id, commit_write, index_committed.               *)

BeginWrite(t) ==
  /\ At(t, "idle") /\ counters.writes < MaxWrites
  /\ seq' = seq + 1
  /\ counters' = [counters EXCEPT !.writes = @ + 1]
  /\ task' = [task EXCEPT ![t] = [Idle EXCEPT !.pc = "minted", !.id = seq + 1,
                                               !.n = counters.writes + 1]]
  /\ UNCHANGED <<unique, files, table, node, comp, ghosts>>

JournalWrite(t) ==
  /\ At(t, "minted")
  /\ journal' = [journal EXCEPT ![task[t].id] = task[t].n]
  /\ history' = Append(history, task[t].id)
  /\ overlap' = IF comp = "flushed" THEN overlap \cup {task[t].id} ELSE overlap
  /\ Goto(t, "journalled")
  /\ UNCHANGED <<unique, snap, table, node, comp, seq, deleted, revivable, raced, overtaken,
                 failed, adrift, lost, counters>>

StoreRecord(t) ==
  /\ At(t, "journalled")
  /\ recs' = [recs EXCEPT ![task[t].id] = task[t].n]
  /\ Goto(t, "stored")
  /\ UNCHANGED <<unique, files, tracker, node, comp, seq, ghosts, counters>>

\* A record with the id of t, or a higher one, was indexed before.
Overtakes(t) ==
  overtaken' = (overtaken \/ \E i \in Range(history) \ (Unindexed \cup failed) : i >= task[t].id)

\* live_set_single, for a Unique struct.
SetSingle(t) ==
  /\ At(t, "stored") /\ unique
  /\ tracker' = [tracker EXCEPT !.head = [sealed |-> 0, open |-> <<task[t].id>>]]
  /\ Overtakes(t)
  /\ Wrote(t, Idle)
  /\ UNCHANGED <<unique, files, recs, node, comp, seq, history, deleted, revivable, raced, failed,
                 overlap, adrift, lost, counters>>

\* live_append: read the head, ...
ReadHead(t) ==
  /\ At(t, "stored") /\ ~unique
  /\ task' = [task EXCEPT ![t].pc = "append", ![t].head = tracker.head]
  /\ UNCHANGED <<unique, files, table, node, comp, seq, ghosts, counters>>

\* ... write the open segment as a sealed one when the id fills it, ...
SealSegment(t) ==
  LET h == task[t].head
  IN  /\ At(t, "append") /\ Len(h.open) + 1 >= Cap
      /\ tracker' = write_segment(tracker, h.sealed + 1, Append(h.open, task[t].id))
      /\ Wrote(t, [task[t] EXCEPT !.pc = "sealed",
               !.head = [sealed |-> h.sealed + 1, open |-> <<>>]])
      /\ Blame(t)
      /\ UNCHANGED <<unique, files, recs, node, comp, seq, history, deleted, revivable, overtaken,
                     failed, overlap, adrift, lost, counters>>

\* ... and write the head.
WriteHead(t) ==
  LET h == task[t].head
  IN  /\ \/ At(t, "append") /\ Len(h.open) + 1 < Cap
         \/ At(t, "sealed")
      /\ tracker' = [tracker EXCEPT !.head =
           IF task[t].pc = "sealed" THEN h ELSE [h EXCEPT !.open = Append(@, task[t].id)]]
      /\ Blame(t)
      /\ Overtakes(t)
      /\ Wrote(t, Idle)
      /\ UNCHANGED <<unique, files, recs, node, comp, seq, history, deleted, revivable, failed,
                     overlap, adrift, lost, counters>>

\* The update fails (no page has room for it); the error is logged and the
\* request still answers Ok.
IndexFails(t) ==
  /\ At(t, "append") \/ At(t, "sealed") \/ (unique /\ At(t, "stored"))
  /\ counters.faults < MaxFaults
  /\ counters' = [counters EXCEPT !.faults = @ + 1]
  /\ failed' = failed \cup {task[t].id}
  /\ Done(t)
  /\ UNCHANGED <<unique, files, table, node, comp, seq, history, deleted, revivable, raced, overtaken,
                 overlap, adrift, lost>>

----------------------------------------------------------------------------
(* handle_delete: live_remove.                                             *)

\* A client deletes what a query gave it; the head is read.
BeginDelete(t, id) ==
  /\ At(t, "idle") /\ counters.deletes < MaxDeletes
  /\ id \in Listed(tracker)
  /\ counters' = [counters EXCEPT !.deletes = @ + 1]
  /\ task' = [task EXCEPT ![t] = [Idle EXCEPT !.id = id, !.head = tracker.head,
       !.pc = IF id \in Range(tracker.head.open) THEN "remove" ELSE "scan",
       !.seg = tracker.head.sealed]]
  /\ UNCHANGED <<unique, files, table, node, comp, seq, ghosts>>

RemoveOpen(t) ==
  /\ At(t, "remove")
  /\ tracker' = [tracker EXCEPT !.head =
       [task[t].head EXCEPT !.open = Without(@, task[t].id)]]
  /\ Blame(t)
  /\ deleted' = deleted \cup {task[t].id}
  /\ Wrote(t, Idle)
  /\ UNCHANGED <<unique, files, recs, node, comp, seq, history, revivable, overtaken, failed, overlap,
                 adrift, lost, counters>>

\* Read the segments from the newest; Ok(false) when none has the id.
ScanSegment(t) ==
  LET k == task[t].seg
  IN  /\ At(t, "scan")
      /\ IF k = 0
         THEN Done(t) /\ deleted' = deleted \cup {task[t].id}
         ELSE /\ UNCHANGED deleted
              /\ task' = IF task[t].id \in Range(read_segment(tracker, k))
                         THEN [task EXCEPT ![t].pc = "rewrite", ![t].ids = read_segment(tracker, k)]
                         ELSE [task EXCEPT ![t].seg = k - 1]
      /\ UNCHANGED <<unique, files, table, node, comp, seq, history, revivable, raced, overtaken,
                     failed, overlap, adrift, lost, counters>>

RewriteSegment(t) ==
  LET k == task[t].seg
  IN  /\ At(t, "rewrite")
      /\ tracker' = write_segment(tracker, k, Without(task[t].ids, task[t].id))
      /\ Blame(t)
      /\ deleted' = deleted \cup {task[t].id}
      /\ Wrote(t, Idle)
      /\ UNCHANGED <<unique, files, recs, node, comp, seq, history, revivable, overtaken, failed,
                     overlap, adrift, lost, counters>>

----------------------------------------------------------------------------
(* compact_journal, crash and recovery.                                    *)

\* data_file.flush, under the read lock of the page table.
MutFlushSnapshot ==
  /\ node # "down" /\ comp = "idle"
  /\ snap' = [snap EXCEPT !.recs = recs]
  /\ comp' = "flushed"
  /\ overlap' = Unindexed \cup failed
  /\ adrift' = adrift \cap overlap'
  /\ UNCHANGED <<unique, journal, table, node, seq, task, history, deleted, revivable, raced,
                 overtaken, failed, lost, counters>>
FlushSnapshot ==
  /\ node # "down" /\ comp = "idle"
  /\ snap' = [recs |-> recs, tracker |-> tracker]
  /\ comp' = "flushed"
  /\ overlap' = Unindexed \cup failed
  /\ adrift' = adrift \cap overlap'
  /\ UNCHANGED <<unique, journal, table, node, seq, task, history, deleted, revivable, raced,
                 overtaken, failed, lost, counters>>

\* Checkpoint and truncate, under the journal lock; in open the last step.
TruncateJournal ==
  /\ comp = "flushed"
  /\ journal' = NoRecords
  /\ comp' = "idle"
  /\ node' = "up"
  /\ adrift' = overlap
  /\ overlap' = {}
  /\ UNCHANGED <<unique, snap, table, seq, task, history, deleted, revivable, raced, overtaken,
                 failed, lost, counters>>

Crash ==
  /\ node # "down" /\ counters.crashes < MaxCrashes
  /\ counters' = [counters EXCEPT !.crashes = @ + 1]
  /\ node' = "down" /\ comp' = "idle"
  /\ recs' = NoRecords /\ tracker' = EmptyTracker
  /\ task' = [t \in Tasks |-> Idle]
  /\ seq' = 0
  /\ revivable' = revivable \cup deleted \cup Deleting
  /\ lost' = lost \cup adrift
  /\ failed' = {} /\ overlap' = {} /\ adrift' = {}
  /\ UNCHANGED <<unique, files, history, deleted, raced, overtaken>>

\* NodeStorage::open up to the end of live_rebuild.
Open ==
  LET replayed == {i \in Ids : journal[i] # 0}
  IN  /\ node = "down"
      /\ recs' = [i \in Ids |-> IF i \in replayed THEN journal[i] ELSE snap.recs[i]]
      /\ tracker' = IF replayed = {} THEN snap.tracker ELSE Rebuilt(snap.tracker, replayed)
      /\ node' = IF replayed = {} THEN "up" ELSE "recovering"
      /\ UNCHANGED <<unique, files, comp, seq, task, ghosts, counters>>

----------------------------------------------------------------------------
Init ==
  /\ journal = NoRecords
  /\ snap = [recs |-> NoRecords, tracker |-> EmptyTracker]
  /\ recs = NoRecords /\ tracker = EmptyTracker
  /\ unique \in BOOLEAN
  /\ node = "up" /\ comp = "idle" /\ seq = 0
  /\ task = [t \in Tasks |-> Idle]
  /\ history = <<>> /\ overtaken = FALSE
  /\ deleted = {} /\ revivable = {} /\ raced = {}
  /\ failed = {} /\ overlap = {} /\ adrift = {} /\ lost = {}
  /\ counters = [writes |-> 0, deletes |-> 0, crashes |-> 0, faults |-> 0]

Next ==
  \/ \E t \in Tasks : BeginWrite(t)
  \/ \E t \in Tasks : JournalWrite(t)
  \/ \E t \in Tasks : StoreRecord(t)
  \/ \E t \in Tasks : SetSingle(t)
  \/ \E t \in Tasks : ReadHead(t)
  \/ \E t \in Tasks : SealSegment(t)
  \/ \E t \in Tasks : WriteHead(t)
  \/ \E t \in Tasks : IndexFails(t)
  \/ \E t \in Tasks, id \in Ids : BeginDelete(t, id)
  \/ \E t \in Tasks : RemoveOpen(t)
  \/ \E t \in Tasks : ScanSegment(t)
  \/ \E t \in Tasks : RewriteSegment(t)
  \/ FlushSnapshot
  \/ TruncateJournal
  \/ Crash
  \/ Open

Spec == Init /\ [][Next]_vars

----------------------------------------------------------------------------
(* Properties.                                                             *)

Reused == ~IsInjective(history)
Committed == Range(history)

\* "The full list is the live set": a record is listed exactly when its write
\* was acknowledged and no delete was, across seals, rewrites of segments,
\* compactions, crashes and rebuilds.  Excepted are ids touched by a write from
\* a stale read, ids whose update failed, ids unlisted by a crash after an
\* overlapping compaction, ids deleted before a crash, and id reuse.
LiveSetExact ==
  ~unique /\ node = "up" /\ ~Reused =>
    \A id \in Committed \ (Unindexed \cup Deleting \cup raced \cup failed \cup lost \cup revivable) :
      id \in Listed(tracker) <=> id \notin deleted

\* Recovery lists a record from the moment its write is in the journal: at every
\* instant, in the middle of a handler, a compaction or an earlier recovery, the
\* saved tracker or the journal has it, unless its indexing overlapped a
\* compaction between flush and truncation.
ListRecoverable ==
  ~unique =>
    \A id \in Committed \ (deleted \cup Deleting \cup revivable \cup raced \cup adrift \cup lost) :
      id \in Listed(snap.tracker) \/ journal[id] # 0

\* A query returns a record once: no interleaving of appends, seals, deletes and
\* rebuilds lists an id twice, stale reads included.
NoDuplicates == ~Reused => IsInjective(LiveIds(tracker))

\* "live tracker points at a missing record" is never logged: a listed record is
\* in the page table, after a recovery too.
ListedIsStored == node = "up" => \A id \in Listed(tracker) : recs[id] # 0

\* The list of a struct and tenant as a whole: exact, each record once, and of
\* stored records only.
ListSound == LiveSetExact /\ NoDuplicates /\ ListedIsStored

\* SearchUnique serves the last of the list.
Newest(tr) == LiveIds(tr)[Len(LiveIds(tr))]

\* What SearchUnique serves is the newest record that is indexed, before and
\* after a recovery, as long as writes were indexed in the order of their ids.
NewestIsServed ==
  node = "up" /\ ~overtaken /\ Deleting = {} /\ raced \cup deleted = {} =>
    LET indexed == Committed \ (Unindexed \cup failed \cup lost)
    IN  indexed # {} => Listed(tracker) # {} /\ Newest(tracker) = Max(indexed)

\* "IDs append in commit order, so the last entry is the newest record".
NewestIsLast ==
  Listed(tracker) # {} => Newest(tracker) = Max(Listed(tracker))

\* "The full list is the live set", with several handlers at work.
NoLostAppend ==
  node = "up" => \A id \in Committed \ (Unindexed \cup Deleting \cup deleted) : id \in Listed(tracker)

\* "If the process dies between the two, journal recovery re-derives the tracker
\* entry": a committed record is in the saved tracker or in the journal.
IndexRederived ==
  \A id \in Committed : id \in Listed(snap.tracker) \/ journal[id] # 0

\* "It just stops being served": a record that a delete was acknowledged for is
\* not listed again.
DeletedStaysDeleted == node = "up" => Listed(tracker) \cap deleted = {}

\* "handle_write commits every record under a fresh full Id".
FreshIds == ~Reused

\* "Unique structs keep a single live entry".
UniqueKeepsOne == unique => Len(LiveIds(tracker)) <= 1
=============================================================================
