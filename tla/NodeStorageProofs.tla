------------------------- MODULE NodeStorageProofs -------------------------
(***************************************************************************)
(* NodeStorage recovers what it journalled, for every set of ids, every    *)
(* number of committing threads and every bound.                           *)
(***************************************************************************)
EXTENDS NodeStorage, TLAPS

----------------------------------------------------------------------------
(* The inductive invariant.                                                *)

\* The journal has one lock: at most one append is in progress, and it is the
\* compaction's exactly while comp says so.
OneAppender ==
  /\ \A v, w \in Writers : pc[v] = "writing" /\ pc[w] = "writing" => v = w
  /\ comp \in {"writing", "checkpointed"} => \A w \in Writers : pc[w] # "writing"

\* Commits in flight have different ids.
DistinctIds ==
  \A v, w \in Writers : pc[v] # "idle" /\ pc[w] # "idle" /\ op[v].id = op[w].id => v = w

\* A process that is down has no threads and no exposure of its own.
DownIsQuiet ==
  /\ node # "up" => \A w \in Writers : pc[w] = "idle"
  /\ node = "down" => comp = "idle" /\ exposed = {}
  /\ node # "up" => unapplied = {}

\* Bytes after an incomplete entry put its id at risk; an append in progress
\* is the incomplete entry unless there was one before it.
TornTail ==
  /\ behind => torn /\ tornIds \subseteq exposed \cup lost
  /\ comp = "checkpointed" => entries # <<>> /\ entries[Len(entries)] = Checkpoint

\* The page table is current.
MemCurrent ==
  node # "down" => \A id \in Ids \ (lost \cup unapplied \cup Journalled) : mem[id] = last[id]

\* The snapshot a compaction is about to rely on is current, except for dirty.
SnapCurrent ==
  comp # "idle" =>
    /\ unapplied \cup Journalled \subseteq dirty
    /\ \A id \in Ids \ (dirty \cup lost) : snap[id] = last[id]

\* The record a journalled commit is about to apply is the newest of its id.
CommitIsLast ==
  \A w \in Writers : pc[w] = "journalled" => op[w].val = last[op[w].id]

\* What the journal says of an id.
NewestIsLast(id) ==
  \E i \in DOMAIN journal : IsNewest(journal, id, i) /\ journal[i].val = last[id]

\* The newest record is the last one in the journal, or only the snapshot has
\* any and it is there; and one that is not in the page table is in the journal.
JournalCurrent ==
  \A id \in Ids :
    /\ id \notin exposed \cup lost =>
         NewestIsLast(id) \/ (WritesTo(journal, id) = {} /\ snap[id] = last[id])
    /\ id \in unapplied \cup Journalled => id \in exposed \/ NewestIsLast(id)

\* If the journal has a record of an id, it has a newest one.
HasNewest(es) ==
  \A id \in Ids : WritesTo(es, id) = {} \/ \E i \in DOMAIN es : IsNewest(es, id, i)

IInv ==
  /\ TypeOK
  /\ HasNewest(journal)
  /\ OneAppender
  /\ DistinctIds
  /\ DownIsQuiet
  /\ TornTail
  /\ MemCurrent
  /\ SnapCurrent
  /\ JournalCurrent
  /\ CommitIsLast

----------------------------------------------------------------------------
(* Lemmas about the journal.                                               *)

\* An entry that is not a record of id leaves what the journal says of it.
LEMMA AppendOther ==
  ASSUME NEW es \in Seq(Entry), NEW e \in Entry, NEW id \in Ids,
         ~(e.kind = "write" /\ e.id = id)
  PROVE  /\ WritesTo(Append(es, e), id) = WritesTo(es, id)
         /\ \A i \in DOMAIN es : Append(es, e)[i] = es[i]
         /\ \A i : IsNewest(Append(es, e), id, i) <=> IsNewest(es, id, i)
<1>1. /\ DOMAIN Append(es, e) = 1..(Len(es) + 1)
      /\ DOMAIN es = 1..Len(es)
      /\ Len(es) \in Nat
      /\ \A i \in 1..Len(es) : Append(es, e)[i] = es[i]
      /\ Append(es, e)[Len(es) + 1] = e
  OBVIOUS
<1>2. WritesTo(Append(es, e), id) = WritesTo(es, id)
  BY <1>1 DEF WritesTo
<1> QED
  BY <1>1, <1>2 DEF IsNewest

\* A record of id appended to the journal is the newest of id.
LEMMA AppendOwn ==
  ASSUME NEW es \in Seq(Entry), NEW e \in Entry, NEW id \in Ids,
         e.kind = "write", e.id = id
  PROVE  /\ IsNewest(Append(es, e), id, Len(es) + 1)
         /\ Append(es, e)[Len(es) + 1] = e
         /\ Len(es) + 1 \in DOMAIN Append(es, e)
<1>1. /\ DOMAIN Append(es, e) = 1..(Len(es) + 1)
      /\ Len(es) \in Nat
      /\ Append(es, e)[Len(es) + 1] = e
  OBVIOUS
<1> QED
  BY <1>1 DEF IsNewest, WritesTo

\* Appending keeps a newest record for every id that has one.
LEMMA AppendHasNewest ==
  ASSUME NEW es \in Seq(Entry), NEW e \in Entry, HasNewest(es)
  PROVE  HasNewest(Append(es, e))
<1> SUFFICES ASSUME NEW id \in Ids
             PROVE  \/ WritesTo(Append(es, e), id) = {}
                    \/ \E i \in DOMAIN Append(es, e) : IsNewest(Append(es, e), id, i)
  BY DEF HasNewest
<1>1. CASE e.kind = "write" /\ e.id = id
  BY <1>1, AppendOwn
<1>2. CASE ~(e.kind = "write" /\ e.id = id)
  <2>1. DOMAIN es \subseteq DOMAIN Append(es, e)
    OBVIOUS
  <2> QED
    BY <1>2, <2>1, AppendOther DEF HasNewest
<1> QED
  BY <1>1, <1>2

\* Replay ends with the newest record of an id, and leaves the snapshot's where
\* the journal has none.
LEMMA ReplayOf ==
  ASSUME NEW es \in Seq(Entry), NEW base \in [Ids -> Int], NEW id \in Ids
  PROVE  /\ \A i \in DOMAIN es : IsNewest(es, id, i) => ReplayInto(base, es)[id] = es[i].val
         /\ WritesTo(es, id) = {} => ReplayInto(base, es)[id] = base[id]
<1>1. ASSUME NEW i \in DOMAIN es, IsNewest(es, id, i)
      PROVE  ReplayInto(base, es)[id] = es[i].val
  <2> DEFINE c == CHOOSE j \in DOMAIN es : IsNewest(es, id, j)
  <2>1. c \in DOMAIN es /\ IsNewest(es, id, c)
    BY <1>1
  <2>2. c = i
    BY <1>1, <2>1 DEF IsNewest, WritesTo
  <2>3. WritesTo(es, id) # {}
    BY <1>1 DEF IsNewest
  <2> QED
    BY <2>2, <2>3 DEF ReplayInto
<1>2. WritesTo(es, id) = {} => ReplayInto(base, es)[id] = base[id]
  BY DEF ReplayInto
<1> QED
  BY <1>1, <1>2

\* The replay of a journal over a page table is a page table.
LEMMA ReplayType ==
  ASSUME NEW es \in Seq(Entry), NEW base \in [Ids -> Int], HasNewest(es)
  PROVE  ReplayInto(base, es) \in [Ids -> Int]
<1>1. ASSUME NEW id \in Ids
      PROVE  ReplayInto(base, es)[id] \in Int
  <2>1. CASE WritesTo(es, id) = {}
    BY <2>1, ReplayOf
  <2>2. ASSUME NEW i \in DOMAIN es, IsNewest(es, id, i)
        PROVE  ReplayInto(base, es)[id] \in Int
    <3>1. es[i] \in Entry /\ es[i].kind = "write"
      BY <2>2 DEF IsNewest, WritesTo
    <3>2. es[i].val \in Int
      BY <3>1 DEF Entry, Checkpoint
    <3> QED
      BY <2>2, <3>2, ReplayOf
  <2> QED
    BY <2>1, <2>2 DEF HasNewest
<1> QED
  BY <1>1 DEF ReplayInto

\* truncate_through after a checkpoint keeps nothing.
LEMMA NoSurvivors ==
  ASSUME NEW es \in Seq(Entry), es # <<>>, es[Len(es)] = Checkpoint
  PROVE  Survivors(es) = <<>>
<1>1. Len(es) \in Nat /\ Len(es) > 0
  OBVIOUS
<1>2. LastCheckpoint(es) = Len(es)
  <2> DEFINE P(i) == /\ i = 0 \/ es[i] = Checkpoint
                     /\ \A j \in (i + 1)..Len(es) : es[j] # Checkpoint
  <2>1. Len(es) \in 0..Len(es) /\ P(Len(es))
    BY <1>1
  <2>2. \A i \in 0..Len(es) : P(i) => i = Len(es)
    BY <1>1
  <2> HIDE DEF P
  <2>3. (CHOOSE i \in 0..Len(es) : P(i)) = Len(es)
    BY <2>1, <2>2
  <2> QED
    BY <2>3 DEF LastCheckpoint, P
<1> QED
  BY <1>1, <1>2 DEF Survivors

----------------------------------------------------------------------------
(* The invariant holds initially and every step keeps it.                  *)

\* The initial states satisfy the inductive invariant.
LEMMA InitIInv == Init => IInv
<1> SUFFICES ASSUME Init PROVE IInv
  OBVIOUS
<1> USE DEF Init
<1>1. TypeOK
  <2>1. op \in [Writers -> [id : Ids, val : Int]]
    OBVIOUS
  <2>2. journal \in Seq(Entry) /\ entries \in Seq(Entry)
    OBVIOUS
  <2>3. snap \in [Ids -> Int] /\ mem \in [Ids -> Int] /\ last \in [Ids -> Int]
    BY DEF Absent
  <2> QED
    BY <2>1, <2>2, <2>3 DEF TypeOK
<1>2. \A id \in Ids : WritesTo(journal, id) = {}
  <2>1. DOMAIN journal = {}
    OBVIOUS
  <2> QED
    BY <2>1 DEF WritesTo
<1>3. HasNewest(journal)
  BY <1>2 DEF HasNewest
<1>4. OneAppender /\ DistinctIds /\ DownIsQuiet /\ TornTail
  BY DEF OneAppender, DistinctIds, DownIsQuiet, TornTail
<1>5. MemCurrent /\ SnapCurrent
  BY DEF MemCurrent, SnapCurrent
<1>6. JournalCurrent /\ CommitIsLast
  BY <1>2 DEF JournalCurrent, Journalled, CommitIsLast
<1> QED
  BY <1>1, <1>3, <1>4, <1>5, <1>6 DEF IInv

\* commit_versioned_write takes the journal lock and starts its entry.
LEMMA BeginCommitStep ==
  ASSUME IInv, NEW w \in Writers, NEW id \in Ids, BeginCommit(w, id)
  PROVE  IInv'
<1> USE DEF BeginCommit, StartBytes
<1>1. TypeOK'
  BY DEF IInv, TypeOK
<1>2. Journalled' = Journalled
  BY DEF Journalled, IInv, TypeOK
<1>3. HasNewest(journal)'
  BY DEF IInv, HasNewest
<1>4. (OneAppender /\ DistinctIds /\ DownIsQuiet)'
  BY DEF IInv, TypeOK, OneAppender, DistinctIds, DownIsQuiet, JournalFree, InFlight
<1>5. TornTail'
  BY DEF IInv, TypeOK, TornTail, JournalFree
<1>6. (MemCurrent /\ SnapCurrent)'
  BY <1>2 DEF IInv, MemCurrent, SnapCurrent
<1>7. JournalCurrent'
  BY <1>2 DEF IInv, JournalCurrent, NewestIsLast
<1>8. CommitIsLast'
  BY DEF IInv, TypeOK, CommitIsLast
<1> QED
  BY <1>1, <1>3, <1>4, <1>5, <1>6, <1>7, <1>8 DEF IInv

\* What a finished append of an entry does to what the journal says: it only
\* concerns the id the entry is a record of, and only if no incomplete entry
\* precedes it.
LEMMA EntryWritten ==
  ASSUME IInv, NEW e \in Entry, FinishBytes(e)
  PROVE  /\ journal' \in Seq(Entry)
         /\ HasNewest(journal)'
         /\ \A id \in Ids : ~(e.kind = "write" /\ e.id = id) /\ last'[id] = last[id] =>
              /\ WritesTo(journal, id)' = WritesTo(journal, id)
              /\ NewestIsLast(id) => NewestIsLast(id)'
         /\ \A id \in Ids : e.kind = "write" /\ e.id = id /\ ~behind /\ last'[id] = e.val =>
              NewestIsLast(id)'
<1> USE DEF FinishBytes
<1>1. journal \in Seq(Entry) /\ HasNewest(journal)
  BY DEF IInv, TypeOK
<1>2. CASE behind
  <2>1. journal' = journal
    BY <1>2
  <2> QED
    BY <1>1, <1>2, <2>1 DEF NewestIsLast, HasNewest
<1>3. CASE ~behind
  <2>1. journal' = Append(journal, e)
    BY <1>3
  <2>2. journal' \in Seq(Entry) /\ DOMAIN journal \subseteq DOMAIN Append(journal, e)
    BY <1>1, <2>1
  <2>3. HasNewest(journal)'
    BY <1>1, <2>1, AppendHasNewest DEF HasNewest
  <2> HIDE DEF FinishBytes
  <2>4. ASSUME NEW id \in Ids, ~(e.kind = "write" /\ e.id = id), last'[id] = last[id]
        PROVE  /\ WritesTo(journal, id)' = WritesTo(journal, id)
               /\ NewestIsLast(id) => NewestIsLast(id)'
    <3>1. /\ WritesTo(Append(journal, e), id) = WritesTo(journal, id)
          /\ \A i \in DOMAIN journal : Append(journal, e)[i] = journal[i]
          /\ \A i : IsNewest(Append(journal, e), id, i) <=> IsNewest(journal, id, i)
      BY <1>1, <2>4, AppendOther
    <3> QED
      BY <2>1, <2>2, <2>4, <3>1 DEF NewestIsLast
  <2>5. ASSUME NEW id \in Ids, e.kind = "write", e.id = id, last'[id] = e.val
        PROVE  NewestIsLast(id)'
    BY <1>1, <2>1, <2>5, AppendOwn DEF NewestIsLast
  <2> QED
    BY <2>2, <2>3, <2>4, <2>5
<1> QED
  BY <1>2, <1>3

\* Journal::append returns Ok: the record is the newest of its id.
LEMMA JournalCommitStep ==
  ASSUME IInv, NEW w \in Writers, JournalCommit(w)
  PROVE  IInv'
<1> DEFINE me == op[w].id
           e == WriteVersioned(op[w])
<1> USE DEF JournalCommit
<1>1. me \in Ids /\ e \in Entry /\ e.kind = "write" /\ e.id = me /\ e.val = op[w].val
  BY DEF IInv, TypeOK, WriteVersioned, Entry
<1>2. /\ last' = [last EXCEPT ![me] = op[w].val] /\ last'[me] = op[w].val
      /\ \A id \in Ids : id # me => last'[id] = last[id]
  BY <1>1 DEF IInv, TypeOK
<1>3. /\ journal' \in Seq(Entry)
      /\ HasNewest(journal)'
      /\ \A id \in Ids : id # me =>
           /\ WritesTo(journal, id)' = WritesTo(journal, id)
           /\ NewestIsLast(id) => NewestIsLast(id)'
      /\ ~behind => NewestIsLast(me)'
  <2> HIDE DEF e
  <2>1. FinishBytes(e) /\ op' = op
    BY DEF e
  <2> HIDE DEF JournalCommit
  <2>2. /\ journal' \in Seq(Entry)
        /\ HasNewest(journal)'
        /\ \A id \in Ids : ~(e.kind = "write" /\ e.id = id) /\ last'[id] = last[id] =>
             /\ WritesTo(journal, id)' = WritesTo(journal, id)
             /\ NewestIsLast(id) => NewestIsLast(id)'
        /\ \A id \in Ids : e.kind = "write" /\ e.id = id /\ ~behind /\ last'[id] = e.val =>
             NewestIsLast(id)'
    BY <1>1, <2>1, EntryWritten
  <2> QED
    BY <1>1, <1>2, <2>1, <2>2
<1>4. TypeOK'
  <2>1. entries' \in Seq(Entry)
    BY <1>1 DEF IInv, TypeOK
  <2>2. last' \in [Ids -> Int] /\ pc' \in [Writers -> {"idle", "writing", "journalled"}]
    BY DEF IInv, TypeOK
  <2>3. torn' \in BOOLEAN /\ behind' \in BOOLEAN /\ tornIds' \in SUBSET Ids
    BY DEF IInv, TypeOK, FinishBytes
  <2>4. /\ dirty' \in SUBSET Ids /\ exposed' \in SUBSET Ids /\ lost' \in SUBSET Ids
        /\ unapplied' \in SUBSET Ids
    BY <1>1 DEF IInv, TypeOK
  <2> QED
    BY <1>3, <2>1, <2>2, <2>3, <2>4 DEF IInv, TypeOK, counters
<1>5. Journalled' = Journalled \cup {me} /\ unapplied' = unapplied
  BY DEF Journalled, IInv, TypeOK
<1>6. (OneAppender /\ DistinctIds /\ DownIsQuiet)'
  BY DEF IInv, TypeOK, OneAppender, DistinctIds, DownIsQuiet
<1>7. comp \in {"idle", "flushed"}
  BY DEF IInv, TypeOK, OneAppender
<1>8. TornTail'
  BY <1>7 DEF IInv, TypeOK, TornTail, FinishBytes
<1>9. MemCurrent'
  BY <1>1, <1>2, <1>5 DEF IInv, TypeOK, MemCurrent
<1>10. SnapCurrent'
  BY <1>1, <1>2, <1>5, <1>7 DEF IInv, TypeOK, SnapCurrent
<1>11. CommitIsLast'
  BY <1>1, <1>2 DEF IInv, TypeOK, CommitIsLast, DistinctIds
<1>12. me \in exposed' \/ NewestIsLast(me)'
  BY <1>3
<1>13. JournalCurrent'
  BY <1>1, <1>2, <1>3, <1>5, <1>12 DEF IInv, JournalCurrent
<1> QED
  BY <1>3, <1>4, <1>6, <1>8, <1>9, <1>10, <1>11, <1>13 DEF IInv

\* write_all fails and leaves an incomplete entry.
LEMMA AppendFailsStep ==
  ASSUME IInv, NEW w \in Writers, AppendFails(w)
  PROVE  IInv'
<1> USE DEF AppendFails, disk, ghosts
<1>1. TypeOK'
  BY DEF IInv, TypeOK
<1>2. Journalled' = Journalled
  BY DEF Journalled, IInv, TypeOK
<1>3. (OneAppender /\ DistinctIds /\ DownIsQuiet /\ TornTail)'
  BY DEF IInv, TypeOK, OneAppender, DistinctIds, DownIsQuiet, TornTail
<1>4. (HasNewest(journal) /\ MemCurrent /\ SnapCurrent /\ JournalCurrent)'
  BY <1>2 DEF IInv, HasNewest, MemCurrent, SnapCurrent, JournalCurrent, NewestIsLast
<1>5. CommitIsLast'
  BY DEF IInv, TypeOK, CommitIsLast
<1> QED
  BY <1>1, <1>3, <1>4, <1>5 DEF IInv

\* sync_all fails and leaves a whole entry nobody applies.
LEMMA SyncFailsStep ==
  ASSUME IInv, NEW w \in Writers, SyncFails(w)
  PROVE  IInv'
<1> DEFINE me == op[w].id
           e == WriteVersioned(op[w])
<1> USE DEF SyncFails
<1>1. me \in Ids /\ e \in Entry /\ e.kind = "write" /\ e.id = me /\ e.val = op[w].val
  BY DEF IInv, TypeOK, WriteVersioned, Entry
<1>2. /\ last' = [last EXCEPT ![me] = op[w].val] /\ last'[me] = op[w].val
      /\ \A id \in Ids : id # me => last'[id] = last[id]
  BY <1>1 DEF IInv, TypeOK
<1>3. /\ journal' \in Seq(Entry)
      /\ HasNewest(journal)'
      /\ \A id \in Ids : id # me =>
           /\ WritesTo(journal, id)' = WritesTo(journal, id)
           /\ NewestIsLast(id) => NewestIsLast(id)'
      /\ ~behind => NewestIsLast(me)'
  <2> HIDE DEF e
  <2>1. FinishBytes(e) /\ op' = op
    BY DEF e
  <2> HIDE DEF SyncFails
  <2>2. /\ journal' \in Seq(Entry)
        /\ HasNewest(journal)'
        /\ \A id \in Ids : ~(e.kind = "write" /\ e.id = id) /\ last'[id] = last[id] =>
             /\ WritesTo(journal, id)' = WritesTo(journal, id)
             /\ NewestIsLast(id) => NewestIsLast(id)'
        /\ \A id \in Ids : e.kind = "write" /\ e.id = id /\ ~behind /\ last'[id] = e.val =>
             NewestIsLast(id)'
    BY <1>1, <2>1, EntryWritten
  <2> QED
    BY <1>1, <1>2, <2>1, <2>2
<1>4. TypeOK'
  <2>1. entries' \in Seq(Entry)
    <3>1. entries' = entries \/ entries' = Append(entries, e)
      OBVIOUS
    <3>2. entries \in Seq(Entry) /\ Append(entries, e) \in Seq(Entry)
      BY <1>1 DEF IInv, TypeOK
    <3> HIDE DEF e, SyncFails
    <3> QED
      BY <3>1, <3>2
  <2>2. last' \in [Ids -> Int] /\ pc' \in [Writers -> {"idle", "writing", "journalled"}]
    BY DEF IInv, TypeOK
  <2>3. torn' \in BOOLEAN /\ behind' \in BOOLEAN /\ tornIds' \in SUBSET Ids
    BY DEF IInv, TypeOK, FinishBytes
  <2>4. /\ dirty' \in SUBSET Ids /\ exposed' \in SUBSET Ids /\ lost' \in SUBSET Ids
        /\ unapplied' \in SUBSET Ids
    BY <1>1 DEF IInv, TypeOK
  <2> QED
    BY <1>3, <2>1, <2>2, <2>3, <2>4 DEF IInv, TypeOK, counters
<1>5. Journalled' = Journalled /\ unapplied' = unapplied \cup {me}
  BY DEF Journalled, IInv, TypeOK
<1>6. (OneAppender /\ DistinctIds /\ DownIsQuiet)'
  BY DEF IInv, TypeOK, OneAppender, DistinctIds, DownIsQuiet
<1>7. comp \in {"idle", "flushed"}
  BY DEF IInv, TypeOK, OneAppender
<1>8. TornTail'
  BY <1>7 DEF IInv, TypeOK, TornTail, FinishBytes
<1>9. MemCurrent'
  BY <1>1, <1>2, <1>5 DEF IInv, TypeOK, MemCurrent
<1>10. SnapCurrent'
  BY <1>1, <1>2, <1>5, <1>7 DEF IInv, TypeOK, SnapCurrent
<1>11. CommitIsLast'
  BY <1>1, <1>2 DEF IInv, TypeOK, CommitIsLast, DistinctIds
<1>12. me \in exposed' \/ NewestIsLast(me)'
  BY <1>3
<1>13. JournalCurrent'
  BY <1>1, <1>2, <1>3, <1>5, <1>12 DEF IInv, JournalCurrent
<1> QED
  BY <1>3, <1>4, <1>6, <1>8, <1>9, <1>10, <1>11, <1>13 DEF IInv

\* The record reaches the page table.
LEMMA ApplyCommitStep ==
  ASSUME IInv, NEW w \in Writers, ApplyCommit(w)
  PROVE  IInv'
<1> DEFINE me == op[w].id
<1> USE DEF ApplyCommit, disk, counters
<1>1. me \in Ids /\ op[w].val \in Int
  BY DEF IInv, TypeOK
<1>2. TypeOK'
  BY <1>1 DEF IInv, TypeOK
<1>3. Journalled' = Journalled \ {me}
  BY DEF Journalled, IInv, TypeOK, DistinctIds
<1>4. (OneAppender /\ DistinctIds /\ DownIsQuiet /\ TornTail)'
  BY DEF IInv, TypeOK, OneAppender, DistinctIds, DownIsQuiet, TornTail
<1>5. op[w].val = last[me]
  BY DEF IInv, CommitIsLast
<1>6. MemCurrent'
  BY <1>1, <1>3, <1>5 DEF IInv, TypeOK, MemCurrent
<1>7. (HasNewest(journal) /\ SnapCurrent /\ JournalCurrent)'
  BY <1>3 DEF IInv, HasNewest, SnapCurrent, JournalCurrent, NewestIsLast
<1>8. CommitIsLast'
  BY DEF IInv, TypeOK, CommitIsLast
<1> QED
  BY <1>2, <1>4, <1>6, <1>7, <1>8 DEF IInv

\* The page table refuses the record.
LEMMA ApplyFailsStep ==
  ASSUME IInv, NEW w \in Writers, ApplyFails(w)
  PROVE  IInv'
<1> DEFINE me == op[w].id
<1> USE DEF ApplyFails, disk
<1>1. me \in Ids
  BY DEF IInv, TypeOK
<1>2. TypeOK'
  BY <1>1 DEF IInv, TypeOK
<1>3. unapplied' \cup Journalled' = unapplied \cup Journalled
  BY DEF Journalled, IInv, TypeOK, DistinctIds
<1>4. (OneAppender /\ DistinctIds /\ DownIsQuiet /\ TornTail)'
  BY DEF IInv, TypeOK, OneAppender, DistinctIds, DownIsQuiet, TornTail
<1>5. (HasNewest(journal) /\ MemCurrent /\ SnapCurrent /\ JournalCurrent)'
  BY <1>3 DEF IInv, HasNewest, MemCurrent, SnapCurrent, JournalCurrent, NewestIsLast
<1>6. CommitIsLast'
  BY DEF IInv, TypeOK, CommitIsLast
<1> QED
  BY <1>2, <1>4, <1>5, <1>6 DEF IInv

\* compact_journal saves the page table.
LEMMA FlushSnapshotStep ==
  ASSUME IInv, FlushSnapshot
  PROVE  IInv'
<1> USE DEF FlushSnapshot, disk, counters
<1>1. Journalled \subseteq Ids /\ Journalled' = Journalled
  BY DEF Journalled, IInv, TypeOK
<1>2. TypeOK'
  BY <1>1 DEF IInv, TypeOK
<1>3. (OneAppender /\ DistinctIds /\ DownIsQuiet /\ TornTail)'
  BY DEF IInv, TypeOK, OneAppender, DistinctIds, DownIsQuiet, TornTail
<1>4. (HasNewest(journal) /\ MemCurrent /\ CommitIsLast)'
  BY <1>1 DEF IInv, HasNewest, MemCurrent, CommitIsLast
<1>5. \A id \in Ids \ (dirty' \cup lost) : snap'[id] = last[id]
  BY DEF IInv, MemCurrent
<1>6. SnapCurrent'
  BY <1>1, <1>5 DEF SnapCurrent
<1>7. JournalCurrent'
  BY <1>1, <1>5 DEF IInv, JournalCurrent, NewestIsLast
<1> QED
  BY <1>2, <1>3, <1>4, <1>6, <1>7 DEF IInv

\* compact_journal takes the journal lock and starts the checkpoint.
LEMMA BeginCheckpointStep ==
  ASSUME IInv, BeginCheckpoint
  PROVE  IInv'
<1> USE DEF BeginCheckpoint, StartBytes, counters
<1>1. TypeOK'
  BY DEF IInv, TypeOK
<1>2. Journalled' = Journalled
  BY DEF Journalled
<1>3. (OneAppender /\ DistinctIds /\ DownIsQuiet)'
  BY DEF IInv, TypeOK, OneAppender, DistinctIds, DownIsQuiet, JournalFree
<1>4. TornTail'
  BY DEF IInv, TypeOK, TornTail
<1>5. (HasNewest(journal) /\ MemCurrent /\ SnapCurrent /\ CommitIsLast)'
  BY <1>2 DEF IInv, HasNewest, MemCurrent, SnapCurrent, CommitIsLast
<1>6. JournalCurrent'
  BY <1>2 DEF IInv, JournalCurrent, NewestIsLast
<1> QED
  BY <1>1, <1>3, <1>4, <1>5, <1>6 DEF IInv

\* The checkpoint is whole in the file.
LEMMA EndCheckpointStep ==
  ASSUME IInv, EndCheckpoint
  PROVE  IInv'
<1> USE DEF EndCheckpoint, FinishBytes, ghosts, counters
<1>1. Checkpoint \in Entry /\ \A id \in Ids : ~(Checkpoint.kind = "write" /\ Checkpoint.id = id)
  BY DEF Entry, Checkpoint
<1>2. TypeOK'
  <2>1. journal' \in Seq(Entry) /\ entries' \in Seq(Entry)
    BY <1>1 DEF IInv, TypeOK
  <2> QED
    BY <2>1 DEF IInv, TypeOK
<1>3. Journalled' = Journalled
  BY DEF Journalled
<1>4. (OneAppender /\ DistinctIds /\ DownIsQuiet)'
  BY DEF IInv, TypeOK, OneAppender, DistinctIds, DownIsQuiet
<1>5. TornTail'
  <2>1. entries' # <<>> /\ entries'[Len(entries')] = Checkpoint
    <3>1. entries \in Seq(Entry) /\ entries' = Append(entries, Checkpoint)
      BY DEF IInv, TypeOK
    <3>2. Len(entries') = Len(entries) + 1 /\ Len(entries) \in Nat
      BY <1>1, <3>1
    <3> HIDE DEF EndCheckpoint
    <3> QED
      BY <1>1, <3>1, <3>2
  <2> QED
    BY <2>1 DEF IInv, TypeOK, TornTail
<1>6. /\ HasNewest(journal)'
      /\ \A id \in Ids : /\ WritesTo(journal, id)' = WritesTo(journal, id)
                         /\ NewestIsLast(id) => NewestIsLast(id)'
  <2>1. FinishBytes(Checkpoint) /\ last' = last
    OBVIOUS
  <2> HIDE DEF EndCheckpoint, FinishBytes
  <2> QED
    BY <1>1, <2>1, EntryWritten
<1>7. (MemCurrent /\ SnapCurrent /\ CommitIsLast)'
  BY <1>3 DEF IInv, MemCurrent, SnapCurrent, CommitIsLast
<1>8. JournalCurrent'
  BY <1>3, <1>6 DEF IInv, JournalCurrent
<1> QED
  BY <1>2, <1>4, <1>5, <1>6, <1>7, <1>8 DEF IInv

\* truncate_through replaces the file by what follows the checkpoint.
LEMMA TruncateJournalStep ==
  ASSUME IInv, TruncateJournal
  PROVE  IInv'
<1> USE DEF TruncateJournal, counters
<1>1. Survivors(entries) = <<>>
  BY NoSurvivors DEF IInv, TypeOK, TornTail
<1>2. \A id \in Ids : WritesTo(journal, id)' = {}
  <2>1. DOMAIN journal' = {}
    BY <1>1
  <2> QED
    BY <2>1 DEF WritesTo
<1>3. TypeOK'
  <2>1. journal' \in Seq(Entry) /\ entries' \in Seq(Entry)
    BY <1>1
  <2> QED
    BY <2>1 DEF IInv, TypeOK
<1>4. Journalled' = Journalled
  BY DEF Journalled
<1>5. (OneAppender /\ DistinctIds /\ DownIsQuiet /\ TornTail)'
  BY DEF IInv, TypeOK, OneAppender, DistinctIds, DownIsQuiet, TornTail
<1>6. HasNewest(journal)'
  BY <1>2 DEF HasNewest
<1>7. (MemCurrent /\ SnapCurrent /\ CommitIsLast)'
  BY <1>4 DEF IInv, DownIsQuiet, MemCurrent, SnapCurrent, CommitIsLast
<1>8. JournalCurrent'
  BY <1>2, <1>4 DEF IInv, SnapCurrent, JournalCurrent
<1> QED
  BY <1>3, <1>5, <1>6, <1>7, <1>8 DEF IInv

\* The checkpoint append or the rewrite of the file fails.
LEMMA CompactionFailsStep ==
  ASSUME IInv, CompactionFails
  PROVE  IInv'
<1> USE DEF CompactionFails
<1>1. comp = "checkpointed" => Survivors(entries) = <<>>
  BY NoSurvivors DEF IInv, TypeOK, TornTail
<1>2. entries' \in Seq(Entry)
  <2>1. entries' = <<>> \/ entries' = entries
    BY <1>1
  <2>2. entries \in Seq(Entry) /\ <<>> \in Seq(Entry)
    BY DEF IInv, TypeOK
  <2> HIDE DEF CompactionFails
  <2> QED
    BY <2>1, <2>2
<1>3. Checkpoint \in Entry /\ \A id \in Ids : ~(Checkpoint.kind = "write" /\ Checkpoint.id = id)
  BY DEF Entry, Checkpoint
<1>4. last' = last /\ snap' = snap /\ mem' = mem /\ Journalled' = Journalled
  BY DEF Journalled
<1>5. /\ journal' \in Seq(Entry)
      /\ HasNewest(journal)'
      /\ \A id \in Ids : /\ WritesTo(journal, id)' = WritesTo(journal, id)
                         /\ NewestIsLast(id) => NewestIsLast(id)'
  <2>1. CASE UNCHANGED disk
    BY <1>4, <2>1 DEF disk, IInv, TypeOK, HasNewest, NewestIsLast
  <2>2. CASE FinishBytes(Checkpoint)
    <3> HIDE DEF CompactionFails
    <3> QED
      BY <1>3, <1>4, <2>2, EntryWritten
  <2> QED
    BY <2>1, <2>2
<1>6. /\ torn' \in BOOLEAN /\ behind' = behind /\ tornIds' \in SUBSET Ids
      /\ behind => torn' = TRUE /\ tornIds' = tornIds
  BY DEF disk, FinishBytes, IInv, TypeOK, TornTail
<1>7. TypeOK'
  BY <1>2, <1>5, <1>6 DEF IInv, TypeOK
<1>8. (OneAppender /\ DistinctIds /\ DownIsQuiet)'
  BY DEF IInv, TypeOK, OneAppender, DistinctIds, DownIsQuiet
<1>9. TornTail'
  BY <1>6 DEF IInv, TypeOK, TornTail
<1>10. (MemCurrent /\ SnapCurrent /\ CommitIsLast)'
  BY <1>4 DEF IInv, MemCurrent, SnapCurrent, CommitIsLast
<1>11. JournalCurrent'
  BY <1>4, <1>5 DEF IInv, JournalCurrent
<1> QED
  BY <1>5, <1>7, <1>8, <1>9, <1>10, <1>11 DEF IInv

\* The process dies at any point.
LEMMA CrashStep ==
  ASSUME IInv, Crash
  PROVE  IInv'
<1> USE DEF Crash, disk
<1>1. TypeOK'
  <2>1. mem' \in [Ids -> Int] /\ entries' \in Seq(Entry)
    BY DEF Absent
  <2> QED
    BY <2>1 DEF IInv, TypeOK
<1>2. Journalled' = {}
  BY DEF Journalled
<1>3. (OneAppender /\ DistinctIds /\ DownIsQuiet /\ TornTail)'
  BY DEF IInv, TypeOK, OneAppender, DistinctIds, DownIsQuiet, TornTail
<1>4. (HasNewest(journal) /\ MemCurrent /\ SnapCurrent /\ CommitIsLast)'
  BY DEF IInv, HasNewest, MemCurrent, SnapCurrent, CommitIsLast
<1>5. JournalCurrent'
  BY <1>2 DEF IInv, JournalCurrent, NewestIsLast
<1> QED
  BY <1>1, <1>3, <1>4, <1>5 DEF IInv

\* NodeStorage::open replays what it decodes.
LEMMA OpenStep ==
  ASSUME IInv, Open
  PROVE  IInv'
<1> USE DEF Open, disk, ghosts, counters
<1>1. PICK es \in Decoded : entries' = es /\ mem' = ReplayInto(snap, es)
  OBVIOUS
<1>2. es \in Seq(Entry) /\ HasNewest(es)
  <2>1. CASE es = journal
    BY <2>1 DEF IInv, TypeOK
  <2>2. ASSUME behind, NEW t \in tornIds,
               es = Append(journal, WriteVersioned([id |-> t, val |-> Garbled]))
        PROVE  es \in Seq(Entry) /\ HasNewest(es)
    <3>1. WriteVersioned([id |-> t, val |-> Garbled]) \in Entry
      BY DEF WriteVersioned, Entry, Garbled, IInv, TypeOK
    <3> QED
      BY <2>2, <3>1, AppendHasNewest DEF IInv, TypeOK
  <2> QED
    BY <1>1, <2>1, <2>2 DEF Decoded
<1>3. TypeOK'
  <2>1. mem' \in [Ids -> Int]
    BY <1>1, <1>2, ReplayType DEF IInv, TypeOK
  <2>2. entries' \in Seq(Entry) /\ node' \in {"up", "down", "recovering"}
    BY <1>1, <1>2
  <2> QED
    BY <2>1, <2>2 DEF IInv, TypeOK
<1>4. Journalled' = {} /\ Journalled = {} /\ unapplied = {} /\ exposed = {} /\ comp = "idle"
  BY DEF Journalled, IInv, DownIsQuiet
<1>5. (OneAppender /\ DistinctIds /\ DownIsQuiet /\ TornTail)'
  BY <1>4 DEF IInv, TypeOK, OneAppender, DistinctIds, DownIsQuiet, TornTail
<1>6. ASSUME NEW id \in Ids, id \notin lost
      PROVE  mem'[id] = last[id]
  <2>1. NewestIsLast(id) \/ (WritesTo(journal, id) = {} /\ snap[id] = last[id])
    BY <1>4, <1>6 DEF IInv, JournalCurrent
  <2>2. journal \in Seq(Entry) /\ snap \in [Ids -> Int]
    BY DEF IInv, TypeOK
  <2>3. ReplayInto(snap, journal)[id] = last[id]
    BY <2>1, <2>2, ReplayOf DEF NewestIsLast
  <2>4. CASE es = journal
    BY <1>1, <2>3, <2>4
  <2>5. ASSUME behind, NEW t \in tornIds,
               es = Append(journal, WriteVersioned([id |-> t, val |-> Garbled]))
        PROVE  mem'[id] = last[id]
    <3> DEFINE e == WriteVersioned([id |-> t, val |-> Garbled])
    <3>1. e \in Entry /\ e.id = t /\ t \in lost
      BY <1>4, <2>5 DEF WriteVersioned, Entry, Garbled, IInv, TypeOK, TornTail
    <3> HIDE DEF e
    <3>2. /\ WritesTo(Append(journal, e), id) = WritesTo(journal, id)
          /\ \A i \in DOMAIN journal : Append(journal, e)[i] = journal[i]
          /\ \A i : IsNewest(Append(journal, e), id, i) <=> IsNewest(journal, id, i)
      BY <1>6, <2>2, <3>1, AppendOther
    <3>3. es = Append(journal, e) /\ DOMAIN journal \subseteq DOMAIN es
      BY <2>2, <2>5, <3>1 DEF e
    <3>4. /\ \A i \in DOMAIN es : IsNewest(es, id, i) => ReplayInto(snap, es)[id] = es[i].val
          /\ WritesTo(es, id) = {} => ReplayInto(snap, es)[id] = snap[id]
      BY <1>2, <1>6, <2>2, ReplayOf
    <3>5. ASSUME WritesTo(journal, id) = {}, snap[id] = last[id]
          PROVE  ReplayInto(snap, es)[id] = last[id]
      BY <3>2, <3>3, <3>4, <3>5
    <3>6. ASSUME NEW i \in DOMAIN journal, IsNewest(journal, id, i), journal[i].val = last[id]
          PROVE  ReplayInto(snap, es)[id] = last[id]
      BY <3>2, <3>3, <3>4, <3>6
    <3>7. ReplayInto(snap, es)[id] = last[id]
      BY <2>1, <3>5, <3>6 DEF NewestIsLast
    <3> QED
      BY <1>1, <3>7
  <2> QED
    BY <1>1, <2>4, <2>5 DEF Decoded
<1>7. MemCurrent'
  BY <1>4, <1>6 DEF MemCurrent
<1>8. (HasNewest(journal) /\ SnapCurrent /\ CommitIsLast)'
  BY <1>4 DEF IInv, HasNewest, SnapCurrent, CommitIsLast
<1>9. JournalCurrent'
  BY <1>4 DEF IInv, JournalCurrent, NewestIsLast
<1> QED
  BY <1>3, <1>5, <1>7, <1>8, <1>9 DEF IInv

\* The two halves of every invariance theorem below.
LEMMA Inductive == IInv /\ [Next]_vars => IInv'
<1> SUFFICES ASSUME IInv, [Next]_vars PROVE IInv'
  OBVIOUS
<1>1. CASE UNCHANGED vars
  BY <1>1 DEF IInv, vars, disk, ghosts, counters, TypeOK, HasNewest, OneAppender,
     DistinctIds, DownIsQuiet, TornTail, MemCurrent, SnapCurrent, JournalCurrent,
     NewestIsLast, Journalled, CommitIsLast
<1>2. CASE Next
  BY <1>2, BeginCommitStep, JournalCommitStep, AppendFailsStep, SyncFailsStep,
     ApplyCommitStep, ApplyFailsStep, FlushSnapshotStep, BeginCheckpointStep, EndCheckpointStep,
     TruncateJournalStep, CompactionFailsStep, CrashStep, OpenStep DEF Next
<1> QED
  BY <1>1, <1>2

\* Every variable keeps its type.
THEOREM TypeCorrect == Spec => []TypeOK
<1>1. IInv => TypeOK
  BY DEF IInv
<1> QED
  BY <1>1, InitIInv, Inductive, PTL DEF Spec

\* Whatever the interleaving of commits, compactions, faults, crashes and
\* recoveries, open recovers the newest journalled record of every id that
\* neither overlapped a compaction nor was appended behind an incomplete entry.
THEOREM RecoversCommitted == Spec => []CommittedRecoverable
<1>1. IInv => CommittedRecoverable
  <2> SUFFICES ASSUME IInv, NEW id \in Ids, id \notin exposed \cup lost
               PROVE  Recovered[id] = last[id]
    BY DEF CommittedRecoverable
  <2>1. journal \in Seq(Entry) /\ snap \in [Ids -> Int]
    BY DEF IInv, TypeOK
  <2>2. NewestIsLast(id) \/ (WritesTo(journal, id) = {} /\ snap[id] = last[id])
    BY DEF IInv, JournalCurrent
  <2> QED
    BY <2>1, <2>2, ReplayOf DEF Recovered, NewestIsLast
<1> QED
  BY <1>1, InitIInv, Inductive, PTL DEF Spec

\* A serving node reads the newest journalled record of every id, up to the
\* exceptions ReadYourWrites names.
THEOREM ReadsCommitted == Spec => []ReadYourWrites
<1>1. IInv => ReadYourWrites
  BY DEF IInv, MemCurrent, ReadYourWrites
<1> QED
  BY <1>1, InitIInv, Inductive, PTL DEF Spec
=============================================================================
