------------------------------ MODULE Pipeline ------------------------------
(***************************************************************************)
(* The write pipeline of wavedb-storage: draining the journal into the     *)
(* data file (drain.rs over journal.rs), and the counter that tells        *)
(* writers to wait (backpressure.rs).  The two share no state.             *)
(*                                                                         *)
(* table is the map the data file implements, and stored the map the       *)
(* appended entries describe.  How bytes reach the disk is the subject of  *)
(* NodeStorage: here an append that fails leaves nothing.                  *)
(***************************************************************************)
EXTENDS Integers, Sequences, SequencesExt, FiniteSets, Functions

CONSTANTS Anchors,       \* keys of anchors and versioned records
          Payloads,      \* what is written under them
          MaxEntries,    \* appends and drains
          Threads,       \* threads that share the counter
          MaxSize,       \* the size the counter blocks at
          MaxBytes,      \* bytes of a write or a drain
          MaxRecorded,   \* bytes recorded in all
          Word           \* values of the counter (2^64)

VARIABLES entries, sequence, table, stored, appends,   \* the journal and the file
          usage, thread,                               \* the counter
          given, asked, over   \* history: bytes recorded, bytes drained, and
                               \* whether more were drained than recorded
drainVars == <<entries, sequence, table, stored, appends>>
pressureVars == <<usage, thread, given, asked, over>>
pipelineVars == <<drainVars, pressureVars>>

ASSUME PipelineLimits ==
    /\ {MaxEntries, MaxSize, MaxBytes, MaxRecorded, Word} \subseteq Nat \ {0}
    /\ MaxSize + MaxRecorded < Word

Absent == "absent"
Tombstone == "tombstone"
IsCheckpoint(e) == e.op = "checkpoint"
Entries == [op : {"write"}, key : Anchors, val : Payloads]
           \cup [op : {"delete"}, key : Anchors]
           \cup [op : {"bookkeeping"}]   \* FreeSpace and DictUpdate

\* entries_since_checkpoint.
entries_since_checkpoint(j) ==
    SubSeq(j, SelectLastInSeq(j, IsCheckpoint) + 1, Len(j))

\* One arm of drain_journal: a delete writes a tombstone.
DrainEntry(t, e) ==
    CASE e.op = "write" -> [t EXCEPT ![e.key] = e.val]
      [] e.op = "delete" -> [t EXCEPT ![e.key] = Tombstone]
      [] OTHER -> t
Drained(t, es) == FoldLeft(DrainEntry, t, es)

append(e) ==
    /\ appends < MaxEntries
    /\ entries' = Append(entries, e) /\ stored' = DrainEntry(stored, e)
    /\ appends' = appends + 1
    /\ UNCHANGED <<sequence, table>>

\* drain_journal.  The write of any entry may fail, and so may the append of the
\* checkpoint, whose number is taken before.
Checkpoint == [op |-> "checkpoint", sequence |-> sequence + 1]
MutDrainJournal ==
    LET es == entries_since_checkpoint(entries)
    IN  /\ appends < MaxEntries /\ appends' = appends + 1
        /\ \E n \in 0..Len(es) : table' = Drained(table, SubSeq(es, 1, n))
        /\ sequence' = sequence + 1
        /\ entries' = Append(entries, Checkpoint)
        /\ UNCHANGED stored
drain_journal ==
    LET es == entries_since_checkpoint(entries)
    IN  /\ appends < MaxEntries /\ appends' = appends + 1
        /\ \E n \in 0..Len(es) :
              /\ table' = Drained(table, SubSeq(es, 1, n))
              /\ \/ n < Len(es) /\ UNCHANGED <<entries, sequence>>
                 \/ n = Len(es) /\ sequence' = sequence + 1
                                /\ entries' \in {entries, Append(entries, Checkpoint)}
        /\ UNCHANGED stored

\* truncate_through.
truncate_through(through) ==
    LET covered(e) == IsCheckpoint(e) /\ e.sequence <= through
    IN  /\ entries' = SubSeq(entries, SelectLastInSeq(entries, covered) + 1, Len(entries))
        /\ UNCHANGED <<sequence, table, stored, appends>>

\* Journal::open takes the sequence from the checkpoints it finds.
open ==
    /\ sequence' = FoldLeft(LAMBDA m, e : IF IsCheckpoint(e) /\ e.sequence > m
                                          THEN e.sequence ELSE m, 0, entries)
    /\ UNCHANGED <<entries, table, stored, appends>>

DrainNext ==
    \/ \E e \in Entries : append(e)
    \/ drain_journal
    \/ \E through \in 1..sequence : truncate_through(through)
    \/ open

-----------------------------------------------------------------------------
\* Backpressure.  fetch_add and fetch_sub are atomic; what is computed from
\* current() is a step before them.
should_block == usage >= MaxSize
is_warning == 10 * usage >= 8 * MaxSize
Resting == [step |-> "resting", bytes |-> 0]

\* A writer asks should_block, then records its bytes.
Admit(t) ==
    /\ thread[t] = Resting /\ ~should_block
    /\ \E n \in 1..MaxBytes :
          /\ given + n <= MaxRecorded
          /\ thread' = [thread EXCEPT ![t] = [step |-> "write", bytes |-> n]]
    /\ UNCHANGED <<usage, given, asked, over>>
record_write(t) ==
    /\ thread[t].step = "write"
    /\ usage' = (usage + thread[t].bytes) % Word
    /\ given' = given + thread[t].bytes
    /\ thread' = [thread EXCEPT ![t] = Resting]
    /\ UNCHANGED <<asked, over>>

\* record_drain: bytes.min(current()), then fetch_sub.
LoadUsage(t) ==
    /\ thread[t] = Resting
    /\ \E n \in 1..MaxBytes :
          /\ asked + n <= MaxRecorded
          /\ asked' = asked + n /\ over' = (over \/ asked + n > given)
          /\ thread' = [thread EXCEPT ![t] =
                           [step |-> "drain", bytes |-> IF n < usage THEN n ELSE usage]]
    /\ UNCHANGED <<usage, given>>
record_drain(t) ==
    /\ thread[t].step = "drain"
    /\ usage' = (usage - thread[t].bytes) % Word
    /\ thread' = [thread EXCEPT ![t] = Resting]
    /\ UNCHANGED <<given, asked, over>>

PressureNext == \E t \in Threads :
    Admit(t) \/ record_write(t) \/ LoadUsage(t) \/ record_drain(t)

-----------------------------------------------------------------------------
PipelineInit ==
    /\ entries = <<>> /\ sequence = 0 /\ appends = 0
    /\ table = [k \in Anchors |-> Absent] /\ stored = table
    /\ usage = 0 /\ given = 0 /\ asked = 0 /\ over = FALSE
    /\ thread = [t \in Threads |-> Resting]

\* Draining again what follows the last checkpoint gives the file everything that
\* was appended, wherever an earlier drain stopped and whatever was truncated.
RedoComplete == Drained(table, entries_since_checkpoint(entries)) = stored

\* Checkpoints in the file are numbered in order, with gaps after a failed one.
CheckpointsRise == \A i, j \in DOMAIN entries :
    i < j /\ IsCheckpoint(entries[i]) /\ IsCheckpoint(entries[j])
        => entries[i].sequence < entries[j].sequence

\* While no more is drained than was recorded, the counter is the difference, and
\* writers that obey should_block pass the limit by at most one write each.
InDrain == [t \in Threads |-> IF thread[t].step = "drain" THEN thread[t].bytes ELSE 0]
CounterExact ==
    /\ ~over => /\ usage = given - asked + SumFunction(InDrain)
                /\ usage < MaxSize + Cardinality(Threads) * MaxBytes
    /\ should_block => is_warning

\* backpressure.rs: record_drain takes bytes.min(current), so that the counter
\* stays at zero.  Two drains that read it before either subtracts pass zero.
NeverWraps == usage <= given

\* The pipeline: a drain can be repeated, its checkpoints are in order, and the
\* counter is exact.
PipelineExact == RedoComplete /\ CheckpointsRise /\ CounterExact
=============================================================================
