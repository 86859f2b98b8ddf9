---------------------------- MODULE NodeStorage ----------------------------
(***************************************************************************)
(* The write-ahead path of one node: NodeStorage over the journal          *)
(* (journal.log), the in-memory page table (DataFile) and its snapshot     *)
(* (data.bin).                                                             *)
(*                                                                         *)
(* Committing threads, the compaction task, crashes in the middle of any   *)
(* of them and the recovery that Open runs are interleaved at the points   *)
(* where the code takes or releases the journal lock or touches a file.    *)
(* The page table is the map it implements; a record is its id and the     *)
(* number of the commit that wrote it.                                     *)
(***************************************************************************)
EXTENDS Integers, Sequences

CONSTANTS Ids,             \* record ids
          Writers,         \* threads inside commit_versioned_write
          MaxWrites,       \* bound: commits in a behaviour
          MaxCrashes,      \* bound: crashes in a behaviour
          MaxFaults        \* bound: I/O errors returned by file operations

ASSUME BoundsAreNaturals ==
  /\ MaxWrites \in Nat
  /\ MaxCrashes \in Nat
  /\ MaxFaults \in Nat

VARIABLES
  \* on disk
  journal,     \* the entries decode_entries reads back from journal.log
  torn,        \* the bytes after them are an incomplete entry
  tornIds,     \* the id that incomplete entry was for ({} for a checkpoint)
  behind,      \* further bytes were appended after the incomplete entry
  snap,        \* the page table saved in data.bin
  \* in memory
  node,        \* "up", "down", or "recovering" inside NodeStorage::open
  entries,     \* Journal.entries
  mem,         \* the page table of DataFile
  pc, op,      \* per writer: the step of its commit, and the record
  comp,        \* the step of compact_journal
  \* history, for the properties
  last,        \* per id, the newest record written whole to the journal
  unapplied,   \* ids whose newest record failed to reach the page table
  dirty,       \* ids whose newest record is not in the snapshot being compacted to
  exposed,     \* ids whose newest record a crash would lose now
  lost,        \* ids whose newest record a crash did lose
  writes, crashes, faults

disk == <<journal, torn, tornIds, behind>>
ghosts == <<last, unapplied, dirty, exposed, lost>>
counters == <<writes, crashes, faults>>
vars == <<disk, snap, node, entries, mem, pc, op, comp, ghosts, counters>>

----------------------------------------------------------------------------
(* The journal file.                                                       *)

Absent  == 0     \* no record stored under the id
Garbled == -1    \* a record decoded from the bytes of two different entries

WriteVersioned(o) == [kind |-> "write", id |-> o.id, val |-> o.val]
Checkpoint == [kind |-> "checkpoint"]

Entry == [kind : {"write"}, id : Ids, val : Int] \cup {Checkpoint}

WritesTo(es, id) == {i \in DOMAIN es : es[i].kind = "write" /\ es[i].id = id}

IsNewest(es, id, i) ==
  /\ i \in WritesTo(es, id)
  /\ \A j \in WritesTo(es, id) : j <= i

\* recover_from_journal writes the entries over the loaded snapshot in order,
\* checkpoints and what precedes them included.
MutReplaySinceCheckpoint(base, es) ==
  LET cps == {i \in DOMAIN es : es[i] = Checkpoint}
      new == {i \in DOMAIN es : \A c \in cps : c < i}
  IN  [id \in Ids |-> IF WritesTo(es, id) \cap new = {} THEN base[id]
                      ELSE es[CHOOSE i \in DOMAIN es : IsNewest(es, id, i)].val]
ReplayInto(base, es) ==
  [id \in Ids |-> IF WritesTo(es, id) = {} THEN base[id]
                  ELSE es[CHOOSE i \in DOMAIN es : IsNewest(es, id, i)].val]

\* What truncate_through keeps: the entries after the last checkpoint.  The
\* sequence numbers of checkpoints increase along the file, so the last one
\* not above through_sequence is the last one.
LastCheckpoint(es) ==
  CHOOSE i \in 0..Len(es) :
    /\ i = 0 \/ es[i] = Checkpoint
    /\ \A j \in (i + 1)..Len(es) : es[j] # Checkpoint
Survivors(es) == SubSeq(es, LastCheckpoint(es) + 1, Len(es))

\* write_all puts the first bytes of an entry in the file: until the rest
\* follows they are an incomplete tail, and if the file already ended in an
\* incomplete entry they become part of what its length prefix spans.
StartBytes(ids) ==
  /\ torn' = TRUE
  /\ tornIds' = IF torn THEN tornIds ELSE ids
  /\ behind' = torn
  /\ exposed' = IF torn THEN exposed \cup tornIds ELSE exposed
  /\ UNCHANGED journal

\* The entry is complete and synced.
FinishBytes(e) ==
  /\ journal' = IF behind THEN journal ELSE Append(journal, e)
  /\ torn' = behind
  /\ tornIds' = IF behind THEN tornIds ELSE {}
  /\ UNCHANGED behind

\* The Mutex around the journal.
JournalFree ==
  /\ \A w \in Writers : pc[w] # "writing"
  /\ comp \notin {"writing", "checkpointed"}

InFlight == {op[w].id : w \in {v \in Writers : pc[v] # "idle"}}
Journalled == {op[w].id : w \in {v \in Writers : pc[v] = "journalled"}}

----------------------------------------------------------------------------
(* commit_versioned_write.                                                 *)

\* Lock the journal and start the append.  Ids of one process are distinct
\* (they carry its next_seq), so no two commits in flight share one.
BeginCommit(w, id) ==
  /\ node = "up"
  /\ pc[w] = "idle"
  /\ JournalFree
  /\ id \notin InFlight
  /\ writes < MaxWrites
  /\ writes' = writes + 1
  /\ op' = [op EXCEPT ![w] = [id |-> id, val |-> writes + 1]]
  /\ pc' = [pc EXCEPT ![w] = "writing"]
  /\ StartBytes({id})
  /\ UNCHANGED <<snap, node, entries, mem, comp, last, unapplied, dirty, lost,
                 crashes, faults>>

\* The append is durable and the journal is unlocked.
JournalCommit(w) ==
  /\ pc[w] = "writing"
  /\ FinishBytes(WriteVersioned(op[w]))
  /\ entries' = Append(entries, WriteVersioned(op[w]))
  /\ pc' = [pc EXCEPT ![w] = "journalled"]
  /\ last' = [last EXCEPT ![op[w].id] = op[w].val]
  /\ lost' = lost \ {op[w].id}
  /\ exposed' = IF behind THEN exposed \cup {op[w].id} ELSE exposed \ {op[w].id}
  /\ dirty' = IF comp = "flushed" THEN dirty \cup {op[w].id} ELSE dirty
  /\ UNCHANGED <<snap, node, mem, op, comp, unapplied, counters>>

\* write_all fails: the error goes to the caller and the bytes that were
\* written stay in the file.
AppendFails(w) ==
  /\ pc[w] = "writing"
  /\ faults < MaxFaults
  /\ faults' = faults + 1
  /\ pc' = [pc EXCEPT ![w] = "idle"]
  /\ UNCHANGED <<disk, snap, node, entries, mem, op, comp, ghosts,
                 writes, crashes>>

\* sync_all fails, in append or in the flush after it: the caller gets the
\* error, and the entry is whole in the file although the page table has not
\* got it, nor, if append failed, has entries.
SyncFails(w) ==
  /\ pc[w] = "writing"
  /\ faults < MaxFaults
  /\ faults' = faults + 1
  /\ FinishBytes(WriteVersioned(op[w]))
  /\ entries' \in {entries, Append(entries, WriteVersioned(op[w]))}
  /\ pc' = [pc EXCEPT ![w] = "idle"]
  /\ last' = [last EXCEPT ![op[w].id] = op[w].val]
  /\ unapplied' = unapplied \cup {op[w].id}
  /\ lost' = lost \ {op[w].id}
  /\ exposed' = IF behind THEN exposed \cup {op[w].id} ELSE exposed \ {op[w].id}
  /\ dirty' = IF comp = "flushed" THEN dirty \cup {op[w].id} ELSE dirty
  /\ UNCHANGED <<snap, node, mem, op, comp, writes, crashes>>

\* data_file.write_versioned, and Ok to the caller.
MutApplyCommit(w) ==
  /\ pc[w] = "journalled"
  /\ pc' = [pc EXCEPT ![w] = "idle"]
  /\ unapplied' = unapplied \ {op[w].id}
  /\ UNCHANGED <<disk, snap, node, entries, mem, op, comp, last, dirty, exposed,
                 lost, counters>>
ApplyCommit(w) ==
  /\ pc[w] = "journalled"
  /\ mem' = [mem EXCEPT ![op[w].id] = op[w].val]
  /\ pc' = [pc EXCEPT ![w] = "idle"]
  /\ unapplied' = unapplied \ {op[w].id}
  /\ UNCHANGED <<disk, snap, node, entries, op, comp, last, dirty, exposed, lost,
                 counters>>

\* write_versioned fails (both candidate pages full): the caller gets the
\* error although the journal has the record.
ApplyFails(w) ==
  /\ pc[w] = "journalled"
  /\ faults < MaxFaults
  /\ faults' = faults + 1
  /\ pc' = [pc EXCEPT ![w] = "idle"]
  /\ unapplied' = unapplied \cup {op[w].id}
  /\ UNCHANGED <<disk, snap, node, entries, mem, op, comp, last, dirty, exposed,
                 lost, writes, crashes>>

----------------------------------------------------------------------------
(* compact_journal, run by the compaction loop and, with the same steps, by *)
(* recover_from_journal after the replay.                                   *)

\* data_file.flush: the snapshot replaces data.bin by a rename.  The journal
\* is not locked yet.
MutFlushSnapshot ==
  /\ node \in {"up", "recovering"}
  /\ comp = "idle"
  /\ comp' = "flushed"
  /\ snap' = IF entries = <<>> THEN snap ELSE mem
  /\ dirty' = unapplied \cup Journalled \cup (IF entries = <<>> THEN exposed ELSE {})
  /\ UNCHANGED <<disk, node, entries, mem, pc, op, last, unapplied, exposed,
                 lost, counters>>
FlushSnapshot ==
  /\ node \in {"up", "recovering"}
  /\ comp = "idle"
  /\ comp' = "flushed"
  /\ snap' = mem
  /\ dirty' = unapplied \cup Journalled
  /\ UNCHANGED <<disk, node, entries, mem, pc, op, last, unapplied, exposed,
                 lost, counters>>

\* Lock the journal and start the append of the checkpoint.
BeginCheckpoint ==
  /\ comp = "flushed"
  /\ JournalFree
  /\ comp' = "writing"
  /\ StartBytes({})
  /\ UNCHANGED <<snap, node, entries, mem, pc, op, last, unapplied, dirty, lost,
                 counters>>

EndCheckpoint ==
  /\ comp = "writing"
  /\ FinishBytes(Checkpoint)
  /\ entries' = Append(entries, Checkpoint)
  /\ comp' = "checkpointed"
  /\ UNCHANGED <<snap, node, mem, pc, op, ghosts, counters>>

\* truncate_through: the survivors replace journal.log by a rename, which also
\* drops an incomplete tail; the journal is unlocked.  Inside open this is the
\* last step before the node serves.
TruncateJournal ==
  /\ comp = "checkpointed"
  /\ entries' = Survivors(entries)
  /\ journal' = Survivors(entries)
  /\ torn' = FALSE
  /\ tornIds' = {}
  /\ behind' = FALSE
  /\ comp' = "idle"
  /\ node' = "up"
  /\ exposed' = dirty
  /\ dirty' = {}
  /\ UNCHANGED <<snap, mem, pc, op, last, unapplied, lost, counters>>

\* The checkpoint append fails, in write_all or in sync_all, or the rewrite of
\* the file does (entries is already cut by then).  Inside open the same error
\* drops the storage being opened, as a crash there does.
CompactionFails ==
  /\ node = "up"
  /\ comp \in {"writing", "checkpointed"}
  /\ faults < MaxFaults
  /\ faults' = faults + 1
  /\ comp' = "idle"
  /\ dirty' = {}
  /\ entries' = IF comp = "checkpointed" THEN Survivors(entries) ELSE entries
  /\ \/ UNCHANGED disk
     \/ comp = "writing" /\ FinishBytes(Checkpoint)
  /\ UNCHANGED <<snap, node, mem, pc, op, last, unapplied, exposed, lost,
                 writes, crashes>>

----------------------------------------------------------------------------
(* Crash and recovery.                                                     *)

Crash ==
  /\ node # "down"
  /\ crashes < MaxCrashes
  /\ crashes' = crashes + 1
  /\ node' = "down"
  /\ entries' = <<>>
  /\ mem' = [id \in Ids |-> Absent]
  /\ pc' = [w \in Writers |-> "idle"]
  /\ comp' = "idle"
  /\ dirty' = {}
  /\ unapplied' = {}
  /\ lost' = lost \cup exposed
  /\ exposed' = {}
  /\ UNCHANGED <<disk, snap, op, last, writes, faults>>

\* What Journal::open decodes.  The length prefix of an incomplete entry
\* reaches past the end of the file unless more bytes were appended; then
\* decode_entries either still stops there, or decodes a record of mixed
\* bytes, or fails and open with it (the node stays down).
Decoded ==
  {journal} \cup
  IF behind THEN {Append(journal, WriteVersioned([id |-> t, val |-> Garbled])) : t \in tornIds}
            ELSE {}

\* NodeStorage::open up to the end of the replay; a journal without records
\* leaves nothing to snapshot and is not rewritten.
Open ==
  /\ node = "down"
  /\ \E es \in Decoded :
       /\ entries' = es
       /\ mem' = ReplayInto(snap, es)
       /\ node' = IF \E i \in DOMAIN es : es[i].kind = "write" THEN "recovering" ELSE "up"
  /\ UNCHANGED <<disk, snap, pc, op, comp, ghosts, counters>>

----------------------------------------------------------------------------
Init ==
  /\ journal = <<>> /\ torn = FALSE /\ tornIds = {} /\ behind = FALSE
  /\ snap = [id \in Ids |-> Absent]
  /\ node = "up"
  /\ entries = <<>>
  /\ mem = [id \in Ids |-> Absent]
  /\ pc = [w \in Writers |-> "idle"]
  /\ op \in [Writers -> [id : Ids, val : {0}]]
  /\ comp = "idle"
  /\ last = [id \in Ids |-> Absent]
  /\ unapplied = {} /\ dirty = {} /\ exposed = {} /\ lost = {}
  /\ writes = 0 /\ crashes = 0 /\ faults = 0

Next ==
  \/ \E w \in Writers, id \in Ids : BeginCommit(w, id)
  \/ \E w \in Writers : JournalCommit(w)
  \/ \E w \in Writers : AppendFails(w)
  \/ \E w \in Writers : SyncFails(w)
  \/ \E w \in Writers : ApplyCommit(w)
  \/ \E w \in Writers : ApplyFails(w)
  \/ FlushSnapshot
  \/ BeginCheckpoint
  \/ EndCheckpoint
  \/ TruncateJournal
  \/ CompactionFails
  \/ Crash
  \/ Open

Spec == Init /\ [][Next]_vars

\* The threads of a live process run, its mutex is fair and the compaction
\* loop ticks for as long as the node is up.  Nothing forces a restart.
Fairness ==
  /\ \A w \in Writers : WF_vars(JournalCommit(w)) /\ WF_vars(ApplyCommit(w))
  /\ WF_vars(FlushSnapshot)
  /\ WF_vars(BeginCheckpoint)
  /\ WF_vars(EndCheckpoint)
  /\ WF_vars(TruncateJournal)

FairSpec == Spec /\ Fairness
----------------------------------------------------------------------------
(* Properties.                                                             *)

\* Every variable keeps its shape; in particular open never replays a record
\* under an id that was not written, whatever bytes follow an incomplete entry.
TypeOK ==
  /\ journal \in Seq(Entry) /\ entries \in Seq(Entry)
  /\ torn \in BOOLEAN /\ behind \in BOOLEAN /\ tornIds \in SUBSET Ids
  /\ snap \in [Ids -> Int] /\ mem \in [Ids -> Int] /\ last \in [Ids -> Int]
  /\ node \in {"up", "down", "recovering"}
  /\ pc \in [Writers -> {"idle", "writing", "journalled"}]
  /\ op \in [Writers -> [id : Ids, val : Int]]
  /\ comp \in {"idle", "flushed", "writing", "checkpointed"}
  /\ unapplied \in SUBSET Ids /\ dirty \in SUBSET Ids
  /\ exposed \in SUBSET Ids /\ lost \in SUBSET Ids
  /\ writes \in Nat /\ crashes \in Nat /\ faults \in Nat

\* What a crash now followed by an open that decodes the whole journal yields.
Recovered == ReplayInto(snap, journal)

\* NodeStorage::open recovers, after a crash at any point of a commit, a
\* compaction or an earlier recovery, the newest journalled record of every id,
\* except of those whose commit overlapped a compaction between its flush and
\* its truncation, or was appended after an incomplete entry.
CommittedRecoverable ==
  \A id \in Ids \ (exposed \cup lost) : Recovered[id] = last[id]

\* While the node serves, the page table holds the newest journalled record of
\* every id that has no commit between its journal append and its apply, did
\* not fail to apply, and was not lost by an earlier crash.
ReadYourWrites ==
  node = "up" => \A id \in Ids \ (lost \cup unapplied \cup Journalled) : mem[id] = last[id]

\* The compaction loop repairs what it exposed: a record that overlapped one
\* compaction is in the snapshot, or superseded, once a later one completes,
\* unless it never reached the page table or a crash came first.
ExposureEnds ==
  \A id \in Ids : id \in exposed ~> (id \notin exposed \/ id \in unapplied)

\* compact_journal says of its flush: "After this, every committed write is
\* recoverable from data.bin alone"; and open, of the replay, that it "makes a
\* write durable across a process crash".  So the newest record a commit
\* returned Ok for is always recoverable.
AckedIsDurable ==
  \A id \in Ids \ (Journalled \cup unapplied) : Recovered[id] = last[id]

\* Journal::append promises "the entry is durable on Ok(())": what it keeps in
\* memory is what a restart decodes from the file.
AppendedIsReadable ==
  node = "up" /\ JournalFree =>
    \A i \in DOMAIN entries : \E j \in DOMAIN journal : journal[j] = entries[i]
=============================================================================
