------------------------ MODULE LiveTrackerProofs -------------------------
(***************************************************************************)
(* A committed record is in the saved tracker or in the journal at every   *)
(* step, for any number of handlers, segments of any size, and any number  *)
(* of writes, deletes, failed updates, compactions and crashes.            *)
(***************************************************************************)
EXTENDS LiveTracker, FiniteSetTheorems, WellFoundedInduction, TLAPS

----------------------------------------------------------------------------
(* The inductive invariant, for a struct that is not Unique.               *)

Heads == [sealed : Nat, open : Seq(Ids)]
IsTracker(tr) ==
  /\ tr = [head |-> tr.head, segs |-> tr.segs]
  /\ tr.head \in Heads
  /\ DOMAIN tr.segs \subseteq Nat \ {0} /\ tr.segs \in [DOMAIN tr.segs -> Seq(Ids)]

Indexing == {"journalled", "stored", "append", "sealed"}
Removing == {"remove", "scan", "rewrite"}
TaskRecords ==
  [pc : {"idle", "minted"} \cup Indexing \cup Removing, id : Nat, n : Nat, head : Heads,
   seg : Nat, ids : Seq(Ids), stale : BOOLEAN]

TrackerTypeOK ==
  /\ journal \in [Ids -> Nat]
  /\ snap = [recs |-> snap.recs, tracker |-> snap.tracker] /\ IsTracker(snap.tracker)
  /\ IsTracker(tracker)
  /\ node \in {"up", "down", "recovering"} /\ comp \in {"idle", "flushed"}
  /\ counters \in [writes : Nat, deletes : Nat, crashes : Nat, faults : Nat]
  /\ seq \in Nat /\ seq <= counters.writes
  /\ history \in Seq(Ids) /\ failed \subseteq Ids

\* A write has an id of the journal and a number, and a delete has found its id; a
\* stopped node has no work.
TaskOK(w) ==
  /\ w \in TaskRecords
  /\ w.pc \in {"minted"} \cup Indexing => w.id \in Ids /\ w.n > 0
  /\ w.pc = "remove" => w.id \in Range(w.head.open)
  /\ w.pc = "rewrite" => w.seg # 0 /\ w.id \in Range(w.ids)
WorkOK ==
  /\ task = [t \in Tasks |-> task[t]] /\ \A t \in Tasks : TaskOK(task[t])
  /\ node # "up" => \A t \in Tasks : task[t].pc = "idle"
  /\ node # "up" => failed = {}
  /\ node = "down" => comp = "idle" /\ adrift = {}

\* What a handler that is not stale has read is what the tracker holds.
FreshRead(w, tr) ==
  /\ w.pc \in {"append", "remove"} => w.head = tr.head
  /\ w.pc = "sealed" =>
       /\ w.head = [sealed |-> tr.head.sealed + 1, open |-> <<>>]
       /\ read_segment(tr, w.head.sealed) = Append(tr.head.open, w.id)
  /\ w.pc = "rewrite" => w.ids = read_segment(tr, w.seg)
ReadsFresh == \A t \in Tasks : ~task[t].stale => FreshRead(task[t], tracker)

Excepted == deleted \cup Deleting \cup revivable \cup raced \cup lost

\* What is committed and indexed is listed.
NoneMissing ==
  node # "down" => Committed \ (Excepted \cup Unindexed \cup failed) \subseteq Listed(tracker)

\* What a crash would leave unlisted is known.
Recovered ==
  \A id \in Committed \ (Excepted \cup adrift) : id \in Listed(snap.tracker) \/ journal[id] # 0

\* Until it is listed, a record is in the journal or known to be adrift.
JournalHas == \A id \in Unindexed \cup failed : journal[id] # 0 \/ id \in adrift

\* Before the truncation the snapshot lists everything but what overlaps.
SnapshotHas ==
  comp = "flushed" => /\ Unindexed \cup failed \subseteq overlap
                      /\ Committed \ (Excepted \cup overlap) \subseteq Listed(snap.tracker)

NothingForgotten == NoneMissing /\ Recovered /\ JournalHas /\ SnapshotHas

ListInv == TrackerTypeOK /\ WorkOK /\ ReadsFresh /\ NothingForgotten

LInv == ~unique => ListInv

----------------------------------------------------------------------------
(* Sequences and sets.                                                     *)

LEMMA LeastNatural ==
  ASSUME NEW T \in SUBSET Nat, T # {}
  PROVE  \E x \in T : \A y \in T : x <= y
<1> DEFINE R == OpToRel(<, Nat)
<1>1. IsWellFoundedOn(R, Nat)
  BY NatLessThanWellFounded
<1>2. \A x, y \in Nat : y < x => <<y, x>> \in R
  BY DEF OpToRel
<1> HIDE DEF R
<1>3. PICK x \in T : \A y \in T : ~(<<y, x>> \in R)
  BY <1>1, WFMin
<1>4. x \in Nat /\ \A y \in T : y \in Nat /\ ~(y < x)
  BY <1>2, <1>3
<1>5. \A y \in T : x <= y
  BY <1>4
<1> QED BY <1>5

\* A vector that has an element has it at a first position.
LEMMA FirstPosition ==
  ASSUME NEW S, NEW s \in Seq(S), NEW x \in Range(s)
  PROVE  \E i \in DOMAIN s : s[i] = x /\ \A j \in 1..(i - 1) : s[j] # x
<1> DEFINE T == {i \in DOMAIN s : s[i] = x}
<1>1. T \in SUBSET Nat /\ T # {}
  BY DEF Range
<1>2. PICK m \in T : \A j \in T : m <= j
  BY <1>1, LeastNatural
<1>3. m \in Nat /\ m \in DOMAIN s /\ s[m] = x
  BY <1>1, <1>2
<1>4. \A j \in 1..(m - 1) : j \in DOMAIN s /\ ~(m <= j)
  BY <1>3
<1> QED BY <1>2, <1>3, <1>4

\* Vec::remove drops the id at one position and nothing else.
LEMMA WithoutFacts ==
  ASSUME NEW s \in Seq(Ids), NEW x \in Range(s)
  PROVE  /\ Without(s, x) \in Seq(Ids)
         /\ Range(s) \ {x} \subseteq Range(Without(s, x))
         /\ Range(Without(s, x)) \subseteq Range(s)
<1>1. PICK pos \in DOMAIN s :
        s[pos] = x /\ Without(s, x) = [j \in 1..(Len(s) - 1) |-> s[IF j < pos THEN j ELSE j + 1]]
  BY FirstPosition DEF Without
<1>2. PICK w : w = Without(s, x)
  BY Zenon
<1>3. Len(s) \in Nat /\ pos \in 1..Len(s) /\ DOMAIN s = 1..Len(s) /\ \A i \in 1..Len(s) : s[i] \in Ids
  OBVIOUS
<1>4. /\ DOMAIN w = 1..(Len(s) - 1) /\ Len(s) - 1 \in Nat
      /\ \A j \in 1..(Len(s) - 1) : /\ w[j] = s[IF j < pos THEN j ELSE j + 1]
                                    /\ (IF j < pos THEN j ELSE j + 1) \in 1..Len(s)
  BY <1>1, <1>2, <1>3
<1>5. w \in [1..(Len(s) - 1) -> Ids]
  BY <1>1, <1>2, <1>3, <1>4
<1>6. w \in Seq(Ids)
  BY <1>4, <1>5
<1>7. ASSUME NEW y \in Range(s) \ {x} PROVE y \in Range(w)
  <2>1. PICK i \in 1..Len(s) : s[i] = y
    BY <1>3 DEF Range
  <2>2. CASE i < pos
    <3>1. i \in 1..(Len(s) - 1) /\ w[i] = y
      BY <1>3, <1>4, <2>1, <2>2
    <3> QED BY <1>4, <3>1 DEF Range
  <2>3. CASE i > pos
    <3>1. i - 1 \in 1..(Len(s) - 1) /\ ~(i - 1 < pos) /\ (i - 1) + 1 = i
      BY <1>3, <2>1, <2>3
    <3>2. w[i - 1] = y
      BY <1>4, <2>1, <3>1
    <3> QED BY <1>4, <3>1, <3>2 DEF Range
  <2>4. i # pos
    BY <1>1, <1>7, <2>1
  <2> QED BY <1>3, <2>1, <2>2, <2>3, <2>4
<1>8. ASSUME NEW y \in Range(w) PROVE y \in Range(s)
  <2>1. PICK j \in 1..(Len(s) - 1) : w[j] = y
    BY <1>4, <1>8 DEF Range
  <2> QED BY <1>3, <1>4, <2>1 DEF Range
<1> QED BY <1>2, <1>6, <1>7, <1>8

LEMMA RangeOfAppend ==
  ASSUME NEW S, NEW s \in Seq(S), NEW x \in S
  PROVE  Append(s, x) \in Seq(S) /\ Range(Append(s, x)) = Range(s) \cup {x}
<1>1. /\ Append(s, x) \in Seq(S) /\ DOMAIN s = 1..Len(s) /\ Len(s) \in Nat
      /\ DOMAIN Append(s, x) = 1..(Len(s) + 1)
      /\ \A i \in 1..Len(s) : Append(s, x)[i] = s[i]
      /\ Append(s, x)[Len(s) + 1] = x
  OBVIOUS
<1>2. ASSUME NEW y \in Range(Append(s, x)) PROVE y \in Range(s) \cup {x}
  <2>1. PICK i \in 1..(Len(s) + 1) : Append(s, x)[i] = y
    BY <1>1, <1>2 DEF Range
  <2> QED BY <1>1, <2>1 DEF Range
<1>3. ASSUME NEW y \in Range(s) \cup {x} PROVE y \in Range(Append(s, x))
  BY <1>1, <1>3 DEF Range
<1> QED BY <1>1, <1>2, <1>3
----------------------------------------------------------------------------
(* The tracker.                                                            *)

LEMMA ListedIff ==
  ASSUME NEW tr, NEW id
  PROVE  id \in Listed(tr) <=> \/ \E k \in 1..tr.head.sealed : id \in Range(read_segment(tr, k))
                               \/ id \in Range(tr.head.open)
BY Zenon DEF Listed

LEMMA SegmentType ==
  ASSUME NEW tr, IsTracker(tr), NEW k PROVE read_segment(tr, k) \in Seq(Ids)
<1>1. <<>> \in Seq(Ids)
  OBVIOUS
<1> QED BY <1>1 DEF IsTracker, read_segment

LEMMA EmptyIsTracker == IsTracker(EmptyTracker) /\ LiveHead \in Heads /\ Idle \in TaskRecords
<1>1. <<>> \in Seq(Ids) /\ DOMAIN <<>> = {}
  OBVIOUS
<1>2. LiveHead \in Heads /\ Idle \in TaskRecords
  BY <1>1 DEF LiveHead, Heads, Idle, TaskRecords
<1>3. EmptyTracker.head = LiveHead /\ EmptyTracker.segs = <<>>
      /\ EmptyTracker = [head |-> EmptyTracker.head, segs |-> EmptyTracker.segs]
  BY DEF EmptyTracker
<1>4. <<>> \in [{} -> Seq(Ids)]
  OBVIOUS
<1> QED BY <1>1, <1>2, <1>3, <1>4 DEF IsTracker

LEMMA WriteHeadFacts ==
  ASSUME NEW tr, IsTracker(tr), NEW h \in Heads
  PROVE  LET new == [tr EXCEPT !.head = h]
         IN  /\ IsTracker(new) /\ new.head = h
             /\ \A k : read_segment(new, k) = read_segment(tr, k)
<1> DEFINE new == [tr EXCEPT !.head = h]
<1>1. new.head = h /\ new.segs = tr.segs /\ new = [head |-> new.head, segs |-> new.segs]
  BY DEF IsTracker
<1> QED BY <1>1 DEF IsTracker, read_segment

LEMMA WriteSegmentFacts ==
  ASSUME NEW tr, IsTracker(tr), NEW n \in Nat \ {0}, NEW s \in Seq(Ids),
         NEW new, new = write_segment(tr, n, s)
  PROVE  /\ IsTracker(new) /\ new.head = tr.head
         /\ read_segment(new, n) = s
         /\ \A k : k # n => read_segment(new, k) = read_segment(tr, k)
<1>1. PICK g : g = [j \in DOMAIN tr.segs \cup {n} |-> IF j = n THEN s ELSE tr.segs[j]]
  BY Zenon
<1>2. /\ DOMAIN g = DOMAIN tr.segs \cup {n} /\ g[n] = s
      /\ \A j \in DOMAIN g : j # n => g[j] = tr.segs[j]
  BY <1>1
<1>3. new = [tr EXCEPT !.segs = g]
  BY <1>1 DEF write_segment
<1>4. new.head = tr.head /\ new.segs = g /\ new = [head |-> new.head, segs |-> new.segs]
  BY <1>3 DEF IsTracker
<1>5. DOMAIN g \subseteq Nat \ {0} /\ g \in [DOMAIN g -> Seq(Ids)]
  BY <1>1, <1>2 DEF IsTracker
<1>6. IsTracker(new)
  BY <1>4, <1>5 DEF IsTracker
<1>7. read_segment(new, n) = s
  BY <1>2, <1>4 DEF read_segment
<1>8. \A k : k # n => read_segment(new, k) = read_segment(tr, k)
  BY <1>2, <1>4 DEF read_segment
<1> QED BY <1>4, <1>6, <1>7, <1>8

\* live_append from what the tracker holds, when the id does not fill the segment.
LEMMA AppendListed ==
  ASSUME NEW tr, IsTracker(tr), NEW x \in Ids, NEW new,
         new = [tr EXCEPT !.head = [tr.head EXCEPT !.open = Append(@, x)]]
  PROVE  IsTracker(new) /\ Listed(new) = Listed(tr) \cup {x}
<1>1. PICK h : h = [tr.head EXCEPT !.open = Append(@, x)]
  BY Zenon
<1>2. tr.head.open \in Seq(Ids) /\ tr.head.sealed \in Nat
  BY DEF IsTracker, Heads
<1>3. h.sealed = tr.head.sealed /\ h.open = Append(tr.head.open, x) /\ h \in Heads
  BY <1>1, <1>2, RangeOfAppend DEF IsTracker, Heads
<1>4. /\ IsTracker(new) /\ new.head = h
      /\ \A k : read_segment(new, k) = read_segment(tr, k)
  <2>1. new = [tr EXCEPT !.head = h]
    BY Zenon, <1>1
  <2>2. /\ IsTracker([tr EXCEPT !.head = h]) /\ [tr EXCEPT !.head = h].head = h
        /\ \A k : read_segment([tr EXCEPT !.head = h], k) = read_segment(tr, k)
    BY <1>3, WriteHeadFacts
  <2> QED BY Zenon, <2>1, <2>2
<1>5. Range(h.open) = Range(tr.head.open) \cup {x}
  BY <1>2, <1>3, RangeOfAppend
<1>6. ASSUME NEW y PROVE y \in Listed(new) <=> y \in Listed(tr) \cup {x}
  BY <1>3, <1>4, <1>5, ListedIff
<1> QED BY <1>4, <1>6

\* The head that makes a segment just written a sealed one.
LEMMA SealListed ==
  ASSUME NEW tr, IsTracker(tr), NEW x \in Ids, NEW new,
         new = [tr EXCEPT !.head = [sealed |-> tr.head.sealed + 1, open |-> <<>>]],
         read_segment(tr, tr.head.sealed + 1) = Append(tr.head.open, x)
  PROVE  IsTracker(new) /\ Listed(new) = Listed(tr) \cup {x}
<1>1. PICK h : h = [sealed |-> tr.head.sealed + 1, open |-> <<>>]
  BY Zenon
<1>2. tr.head.open \in Seq(Ids) /\ tr.head.sealed \in Nat
  BY DEF IsTracker, Heads
<1>3. h.sealed = tr.head.sealed + 1 /\ h.open = <<>> /\ h \in Heads /\ Range(h.open) = {}
  BY <1>1, <1>2 DEF Heads, Range
<1>4. /\ IsTracker(new) /\ new.head = h
      /\ \A k : read_segment(new, k) = read_segment(tr, k)
  <2>1. new = [tr EXCEPT !.head = h]
    BY Zenon, <1>1
  <2>2. /\ IsTracker([tr EXCEPT !.head = h]) /\ [tr EXCEPT !.head = h].head = h
        /\ \A k : read_segment([tr EXCEPT !.head = h], k) = read_segment(tr, k)
    BY <1>3, WriteHeadFacts
  <2> QED BY Zenon, <2>1, <2>2
<1>5. Range(read_segment(new, h.sealed)) = Range(tr.head.open) \cup {x}
  <2>1. read_segment(new, h.sealed) = Append(tr.head.open, x)
    BY <1>3, <1>4
  <2> QED BY <1>2, <2>1, RangeOfAppend
<1>6. 1..h.sealed = 1..tr.head.sealed \cup {h.sealed}
  BY <1>2, <1>3
<1>7. ASSUME NEW y PROVE y \in Listed(new) <=> y \in Listed(tr) \cup {x}
  BY <1>3, <1>4, <1>5, <1>6, ListedIff
<1> QED BY <1>4, <1>7

\* live_remove from the open segment that the tracker holds, and from a sealed one.
LEMMA RemoveOpenListed ==
  ASSUME NEW tr, IsTracker(tr), NEW x \in Range(tr.head.open), NEW new,
         new = [tr EXCEPT !.head = [tr.head EXCEPT !.open = Without(@, x)]]
  PROVE  IsTracker(new) /\ Listed(tr) \ {x} \subseteq Listed(new)
<1>1. PICK h : h = [tr.head EXCEPT !.open = Without(@, x)]
  BY Zenon
<1>2. tr.head.open \in Seq(Ids) /\ tr.head.sealed \in Nat
  BY DEF IsTracker, Heads
<1>3. h.sealed = tr.head.sealed /\ h.open = Without(tr.head.open, x) /\ h \in Heads
  BY <1>1, <1>2, WithoutFacts DEF IsTracker, Heads
<1>4. /\ IsTracker(new) /\ new.head = h
      /\ \A k : read_segment(new, k) = read_segment(tr, k)
  <2>1. new = [tr EXCEPT !.head = h]
    BY Zenon, <1>1
  <2>2. /\ IsTracker([tr EXCEPT !.head = h]) /\ [tr EXCEPT !.head = h].head = h
        /\ \A k : read_segment([tr EXCEPT !.head = h], k) = read_segment(tr, k)
    BY <1>3, WriteHeadFacts
  <2> QED BY Zenon, <2>1, <2>2
<1>5. Range(tr.head.open) \ {x} \subseteq Range(h.open)
  BY <1>2, <1>3, WithoutFacts
<1>6. ASSUME NEW y \in Listed(tr) \ {x} PROVE y \in Listed(new)
  BY <1>3, <1>4, <1>5, ListedIff
<1> QED BY <1>4, <1>6

LEMMA RewriteListed ==
  ASSUME NEW tr, IsTracker(tr), NEW n \in Nat \ {0}, NEW x \in Range(read_segment(tr, n)), NEW new,
         new = write_segment(tr, n, Without(read_segment(tr, n), x))
  PROVE  Listed(tr) \ {x} \subseteq Listed(new)
<1>1. PICK s : s = read_segment(tr, n)
  BY Zenon
<1>2. s \in Seq(Ids) /\ Without(s, x) \in Seq(Ids) /\ Range(s) \ {x} \subseteq Range(Without(s, x))
  BY <1>1, SegmentType, WithoutFacts
<1>3. /\ new.head = tr.head /\ read_segment(new, n) = Without(s, x)
      /\ \A k : k # n => read_segment(new, k) = read_segment(tr, k)
  <2>1. PICK w : w = Without(s, x)
    BY Zenon
  <2>2. new = write_segment(tr, n, w) /\ w \in Seq(Ids)
    BY <1>1, <1>2, <2>1
  <2> QED BY <2>1, <2>2, WriteSegmentFacts
<1>4. ASSUME NEW y \in Listed(tr) \ {x} PROVE y \in Listed(new)
  BY <1>1, <1>2, <1>3, ListedIff
<1> QED BY <1>4

\* A segment beyond the sealed ones is not listed.
LEMMA UnsealedNotListed ==
  ASSUME NEW tr, IsTracker(tr), NEW n \in Nat \ {0}, n > tr.head.sealed, NEW s \in Seq(Ids), NEW new,
         new = write_segment(tr, n, s)
  PROVE  Listed(new) = Listed(tr)
<1>1. /\ new.head = tr.head
      /\ \A k : k # n => read_segment(new, k) = read_segment(tr, k)
  BY WriteSegmentFacts
<1>2. tr.head.sealed \in Nat /\ n \notin 1..tr.head.sealed
  BY DEF IsTracker, Heads
<1>3. ASSUME NEW y PROVE y \in Listed(new) <=> y \in Listed(tr)
  BY <1>1, <1>2, ListedIff
<1> QED BY <1>3
----------------------------------------------------------------------------
(* live_rebuild.                                                           *)

Sortable(S) ==
  \E ids \in [1..Cardinality(S) -> S] : \A i, j \in DOMAIN ids : i < j => ids[i] < ids[j]

LEMMA SetsOfIds ==
  ASSUME NEW S \in SUBSET Ids PROVE IsFiniteSet(S) /\ Cardinality(S) \in Nat
<1>1. IsFiniteSet(Ids)
  BY LimitsAreNatural, FS_Interval DEF Ids
<1> QED BY <1>1, FS_Subset, FS_CardinalityType

LEMMA GreatestId ==
  ASSUME NEW S \in SUBSET Ids, S # {} PROVE \E m \in S : \A x \in S : x <= m
<1> DEFINE T == {MaxWrites - x : x \in S}
<1>1. MaxWrites \in Nat /\ \A x \in S : x \in Nat /\ MaxWrites - x \in Nat
  BY LimitsAreNatural DEF Ids
<1>2. T \in SUBSET Nat /\ T # {}
  BY <1>1
<1>3. PICK y \in T : \A z \in T : y <= z
  BY <1>2, LeastNatural
<1>4. PICK m \in S : y = MaxWrites - m
  BY <1>3
<1>5. \A x \in S : MaxWrites - m <= MaxWrites - x
  BY <1>3, <1>4
<1> QED BY <1>1, <1>5

LEMMA SortableWithGreatest ==
  ASSUME NEW S \in SUBSET Ids, NEW m \in S, \A x \in S : x <= m, Sortable(S \ {m})
  PROVE  Sortable(S)
<1>1. PICK n : n = Cardinality(S)
  BY Zenon
<1>2. n \in Nat /\ n - 1 \in Nat /\ Cardinality(S \ {m}) = n - 1
  <2>1. IsFiniteSet(S) /\ n \in Nat /\ Cardinality(S \ {m}) = n - 1 /\ Cardinality(S \ {m}) \in Nat
    BY <1>1, SetsOfIds, FS_RemoveElement
  <2> QED BY <2>1
<1>3. PICK f \in [1..(n - 1) -> S \ {m}] : \A i, j \in 1..(n - 1) : i < j => f[i] < f[j]
  BY <1>2 DEF Sortable
<1> DEFINE g == [i \in 1..n |-> IF i = n THEN m ELSE f[i]]
<1>4. \A i \in 1..n : i # n => i \in 1..(n - 1)
  BY <1>2
<1>5. g \in [1..n -> S]
  BY <1>2, <1>3, <1>4
<1>6. \A i \in 1..(n - 1) : f[i] \in Nat /\ f[i] < m
  <2>1. \A x \in S : x \in Nat
    BY LimitsAreNatural DEF Ids
  <2>2. \A i \in 1..(n - 1) : f[i] \in S /\ f[i] # m
    BY <1>3
  <2> QED BY <2>1, <2>2
<1>7. \A i, j \in 1..n : i < j => g[i] < g[j]
  <2> SUFFICES ASSUME NEW i \in 1..n, NEW j \in 1..n, i < j PROVE g[i] < g[j]
    OBVIOUS
  <2>1. i \in 1..(n - 1) /\ i # n /\ g[i] = f[i]
    BY <1>2
  <2>2. CASE j = n
    BY <1>6, <2>1, <2>2
  <2>3. CASE j # n
    BY <1>3, <1>4, <2>1, <2>3
  <2> QED BY <2>2, <2>3
<1> HIDE DEF g
<1>8. DOMAIN g = 1..n
  BY <1>5
<1> QED BY <1>1, <1>5, <1>7, <1>8 DEF Sortable

LEMMA SetsAreSortable ==
  ASSUME NEW S \in SUBSET Ids PROVE Sortable(S)
<1> DEFINE T == {n \in Nat : \E U \in SUBSET Ids : Cardinality(U) = n /\ ~Sortable(U)}
<1> SUFFICES ASSUME ~Sortable(S) PROVE FALSE
  OBVIOUS
<1>1. T \in SUBSET Nat /\ T # {}
  BY SetsOfIds
<1>2. PICK n \in T : \A k \in T : n <= k
  BY <1>1, LeastNatural
<1>3. PICK U \in SUBSET Ids : Cardinality(U) = n /\ ~Sortable(U)
  BY <1>2
<1>4. CASE U = {}
  <2>1. Cardinality(U) = 0
    BY <1>4, FS_EmptySet
  <2>2. <<>> \in [1..0 -> U] /\ DOMAIN <<>> = {}
    OBVIOUS
  <2>3. Sortable(U)
    BY <2>1, <2>2 DEF Sortable
  <2> QED BY <1>3, <2>3
<1>5. CASE U # {}
  <2>1. PICK m \in U : \A x \in U : x <= m
    BY <1>3, <1>5, GreatestId
  <2>2. n \in Nat /\ Cardinality(U \ {m}) \in Nat /\ Cardinality(U \ {m}) = n - 1
    BY <1>1, <1>3, SetsOfIds, FS_RemoveElement
  <2>3. Cardinality(U \ {m}) \notin T
    BY <1>2, <2>2
  <2>4. Sortable(U \ {m})
    BY <2>2, <2>3
  <2> QED BY <1>3, <2>1, <2>4, SortableWithGreatest
<1> QED BY <1>4, <1>5

\* Sorting and deduplication keep every id.
LEMMA InOrderFacts ==
  ASSUME NEW S \in SUBSET Ids
  PROVE  InOrder(S) \in Seq(Ids) /\ Range(InOrder(S)) = S
<1>1. PICK ids : ids = InOrder(S)
  BY Zenon
<1>2. PICK n : n = Cardinality(S)
  BY Zenon
<1>3. ids \in [1..n -> S] /\ \A i, j \in DOMAIN ids : i < j => ids[i] < ids[j]
  BY <1>1, <1>2, SetsAreSortable DEF Sortable, InOrder
<1>4. n \in Nat /\ IsFiniteSet(S)
  BY <1>2, SetsOfIds
<1>5. ids \in Seq(Ids)
  BY <1>3, <1>4
<1>6. \A i \in 1..n : ids[i] \in Nat
  <2>1. \A x \in S : x \in Nat
    BY LimitsAreNatural DEF Ids
  <2> QED BY <1>3, <2>1
<1>7. \A i, j \in 1..n : i # j => ids[i] # ids[j]
  BY <1>3, <1>4, <1>6
<1>8. ASSUME NEW y \in S, y \notin Range(ids) PROVE FALSE
  <2>1. IsFiniteSet(S \ {y}) /\ Cardinality(S \ {y}) = n - 1
    BY <1>2, <1>4, FS_RemoveElement
  <2>2. ids \in [1..n -> S \ {y}]
    BY <1>3, <1>8 DEF Range
  <2>3. IsFiniteSet(1..n) /\ Cardinality(1..n) = n
    BY <1>4, FS_Interval
  <2>4. Cardinality(S \ {y}) < Cardinality(1..n)
    BY <1>4, <2>1, <2>3
  <2>5. \E i, j \in 1..n : i # j /\ ids[i] = ids[j]
    <3>1. PICK D, P : D = 1..n /\ P = S \ {y}
      BY Zenon
    <3>2. /\ IsFiniteSet(D) /\ IsFiniteSet(P) /\ Cardinality(P) < Cardinality(D)
          /\ ids \in [D -> P]
      BY <2>1, <2>2, <2>3, <2>4, <3>1
    <3>3. \E i, j \in D : i # j /\ ids[i] = ids[j]
      BY <3>2, FS_PigeonHole
    <3> QED BY <3>1, <3>3
  <2> QED BY <1>7, <2>5
<1>9. Range(ids) \subseteq S
  BY <1>3 DEF Range
<1> QED BY <1>1, <1>5, <1>8, <1>9
LEMMA SubSeqFacts ==
  ASSUME NEW S, NEW s \in Seq(S), NEW m \in Nat \ {0}, NEW n \in Nat, n <= Len(s)
  PROVE  /\ SubSeq(s, m, n) \in Seq(S)
         /\ \A i \in m..n : s[i] \in Range(SubSeq(s, m, n))
         /\ Range(SubSeq(s, m, n)) \subseteq Range(s)
<1>1. PICK w : w = SubSeq(s, m, n)
  BY Zenon
<1>2. /\ w \in Seq(S) /\ DOMAIN w = 1..((n - m) + 1) /\ DOMAIN s = 1..Len(s) /\ Len(s) \in Nat
      /\ \A i \in 1..((n - m) + 1) : w[i] = s[(m + i) - 1]
  BY <1>1
<1>3. ASSUME NEW i \in m..n PROVE s[i] \in Range(w)
  <2>1. (i - m) + 1 \in 1..((n - m) + 1) /\ (m + ((i - m) + 1)) - 1 = i
    OBVIOUS
  <2>2. w[(i - m) + 1] = s[i]
    BY <1>2, <2>1
  <2> QED BY <1>2, <2>1, <2>2 DEF Range
<1>4. ASSUME NEW y \in Range(w) PROVE y \in Range(s)
  <2>1. PICK i \in 1..((n - m) + 1) : w[i] = y
    BY <1>2, <1>4 DEF Range
  <2>2. (m + i) - 1 \in 1..Len(s)
    BY <1>2, <2>1
  <2> QED BY <1>2, <2>1, <2>2 DEF Range
<1> QED BY <1>1, <1>2, <1>3, <1>4

\* chunks_exact and its remainder: every id is in one of the pieces.
LEMMA CutCovers ==
  ASSUME NEW s \in Seq(Ids), NEW full \in Nat, full * Cap <= Len(s), NEW x \in Range(s)
  PROVE  \/ x \in Range(SubSeq(s, full * Cap + 1, Len(s)))
         \/ \E k \in 1..full : x \in Range(SubSeq(s, (k - 1) * Cap + 1, k * Cap))
<1>0. Cap \in Nat /\ Cap > 0 /\ Len(s) \in Nat /\ DOMAIN s = 1..Len(s)
  BY LimitsAreNatural
<1>1. PICK i \in 1..Len(s) : s[i] = x
  BY <1>0 DEF Range
<1>2. PICK c : c = full * Cap
  BY Zenon
<1>3. c \in Nat /\ c <= Len(s)
  BY <1>0, <1>2
<1>4. CASE i > c
  <2>1. i \in (c + 1)..Len(s) /\ c + 1 \in Nat \ {0}
    BY <1>1, <1>3, <1>4
  <2>2. s[i] \in Range(SubSeq(s, c + 1, Len(s)))
    BY <1>0, <2>1, SubSeqFacts
  <2> QED BY <1>1, <1>2, <2>2
<1>5. CASE i <= c
  <2> DEFINE T == {k \in Nat : i <= k * Cap}
  <2>1. full \in T /\ T \in SUBSET Nat
    BY <1>2, <1>5
  <2>2. PICK k \in T : \A j \in T : k <= j
    BY <2>1, LeastNatural
  <2>3. k \in Nat /\ i <= k * Cap /\ k <= full
    BY <2>1, <2>2
  <2>4. k # 0
    BY <1>0, <1>1, <2>3
  <2>5. k - 1 \in Nat /\ k - 1 \notin T
    BY <2>2, <2>3, <2>4
  <2>6. k * Cap \in Nat /\ (k - 1) * Cap \in Nat /\ k * Cap <= c
    <3>1. full * Cap = k * Cap + (full - k) * Cap /\ (full - k) * Cap \in Nat
      BY <1>0, <2>3
    <3> QED BY <1>0, <1>2, <2>3, <2>5, <3>1
  <2>7. i > (k - 1) * Cap
    BY <1>1, <2>5, <2>6
  <2>8. PICK a, b : a = (k - 1) * Cap + 1 /\ b = k * Cap
    BY Zenon
  <2>9. a \in Nat \ {0} /\ b \in Nat /\ b <= Len(s) /\ i \in a..b
    BY <1>1, <1>3, <2>3, <2>6, <2>7, <2>8
  <2>10. s[i] \in Range(SubSeq(s, a, b))
    BY <2>9, SubSeqFacts
  <2>11. k \in 1..full
    BY <2>3, <2>4
  <2> QED BY <1>1, <2>8, <2>10, <2>11
<1> QED BY <1>1, <1>3, <1>4, <1>5

LEMMA ListedAreIds == ASSUME NEW tr, IsTracker(tr) PROVE Listed(tr) \in SUBSET Ids
<1>1. \A s \in Seq(Ids) : Range(s) \subseteq Ids
  BY DEF Range
<1>2. tr.head.open \in Seq(Ids)
  BY DEF IsTracker, Heads
<1>3. ASSUME NEW y \in Listed(tr) PROVE y \in Ids
  BY <1>1, <1>2, <1>3, ListedIff, SegmentType
<1> QED BY <1>3

\* live_rebuild lists what the tracker listed and what was replayed.
LEMMA RebuiltFacts ==
  ASSUME NEW tr, IsTracker(tr), NEW R \in SUBSET Ids
  PROVE  /\ IsTracker(Rebuilt(tr, R))
         /\ Listed(tr) \cup R \subseteq Listed(Rebuilt(tr, R))
<1>0. Cap \in Nat /\ Cap > 0
  BY LimitsAreNatural
<1>1. PICK s : s = InOrder(Listed(tr) \cup R)
  BY Zenon
<1>2. s \in Seq(Ids) /\ Range(s) = Listed(tr) \cup R /\ Len(s) \in Nat
  BY <1>1, ListedAreIds, InOrderFacts
<1>3. PICK full : full = Len(s) \div Cap
  BY Zenon
<1>4. full \in Nat /\ full * Cap <= Len(s)
  BY <1>0, <1>2, <1>3
<1>5. PICK open : open = SubSeq(s, full * Cap + 1, Len(s))
  BY Zenon
<1>6. PICK segs : segs = [k \in DOMAIN tr.segs \cup 1..full |->
                            IF k <= full THEN SubSeq(s, (k - 1) * Cap + 1, k * Cap)
                            ELSE tr.segs[k]]
  BY Zenon
<1>7. PICK new : new = [head |-> [sealed |-> full, open |-> open], segs |-> segs]
  BY Zenon
<1>8. new = Rebuilt(tr, R)
  BY Zenon, <1>1, <1>3, <1>5, <1>6, <1>7 DEF Rebuilt
<1>9. open \in Seq(Ids) /\ Range(open) \subseteq Range(s)
  <2>1. full * Cap + 1 \in Nat \ {0} /\ Len(s) <= Len(s)
    BY <1>0, <1>2, <1>4
  <2> QED BY <1>2, <1>5, <2>1, SubSeqFacts
<1>10. ASSUME NEW k \in 1..full
       PROVE  /\ SubSeq(s, (k - 1) * Cap + 1, k * Cap) \in Seq(Ids)
              /\ Range(SubSeq(s, (k - 1) * Cap + 1, k * Cap)) \subseteq Range(s)
  <2>1. PICK a, b : a = (k - 1) * Cap + 1 /\ b = k * Cap
    BY Zenon
  <2>2. /\ k - 1 \in Nat /\ (k - 1) * Cap \in Nat /\ k * Cap \in Nat
        /\ full * Cap = k * Cap + (full - k) * Cap /\ (full - k) * Cap \in Nat
    BY <1>0, <1>4
  <2>3. a \in Nat \ {0} /\ b \in Nat /\ b <= Len(s)
    BY <1>2, <1>4, <2>1, <2>2
  <2> QED BY <1>2, <2>1, <2>3, SubSeqFacts
<1>11. /\ DOMAIN segs = DOMAIN tr.segs \cup 1..full
       /\ \A k \in 1..full : segs[k] = SubSeq(s, (k - 1) * Cap + 1, k * Cap)
  <2>1. DOMAIN segs = DOMAIN tr.segs \cup 1..full
    BY Zenon, <1>6
  <2>2. \A k \in 1..full : k <= full
    BY <1>4
  <2>3. \A k \in 1..full : segs[k] = SubSeq(s, (k - 1) * Cap + 1, k * Cap)
    BY Zenon, <1>6, <2>1, <2>2
  <2> QED BY <2>1, <2>3
<1>12. ASSUME NEW k \in DOMAIN tr.segs PROVE segs[k] \in Seq(Ids)
  <2>1. k \in Nat \ {0} /\ tr.segs[k] \in Seq(Ids)
    BY DEF IsTracker
  <2>2. CASE k <= full
    <3>1. k \in 1..full
      BY <1>4, <2>1, <2>2
    <3> QED BY <1>10, <1>11, <3>1
  <2>3. CASE k > full
    <3>1. segs[k] = tr.segs[k]
      BY <1>4, <1>6, <2>1, <2>3
    <3> QED BY <2>1, <3>1
  <2> QED BY <1>4, <2>1, <2>2, <2>3
<1>13. IsTracker(new)
  <2>1. new.head = [sealed |-> full, open |-> open] /\ new.segs = segs
        /\ new = [head |-> new.head, segs |-> new.segs]
    BY <1>7
  <2>2. new.head \in Heads
    BY <1>4, <1>9, <2>1 DEF Heads
  <2>3. \A k \in DOMAIN segs : k \in Nat \ {0} /\ segs[k] \in Seq(Ids)
    <3>1. \A k \in DOMAIN tr.segs : k \in Nat \ {0}
      BY DEF IsTracker
    <3>2. \A k \in 1..full : k \in Nat \ {0}
      BY <1>4
    <3>3. \A k \in 1..full : segs[k] \in Seq(Ids)
      BY Zenon, <1>10, <1>11
    <3> QED BY <1>11, <1>12, <3>1, <3>2, <3>3
  <2>4. segs \in [DOMAIN segs -> Seq(Ids)]
    <3>1. segs = [k \in DOMAIN segs |-> segs[k]]
      BY <1>6
    <3> QED BY <2>3, <3>1
  <2> QED BY <2>1, <2>2, <2>3, <2>4 DEF IsTracker
<1>14. new.head.sealed = full /\ new.head.open = open
  BY <1>7
<1>15. \A k \in 1..full : read_segment(new, k) = SubSeq(s, (k - 1) * Cap + 1, k * Cap)
  BY <1>7, <1>11 DEF read_segment
<1>16. ASSUME NEW y \in Listed(tr) \cup R PROVE y \in Listed(new)
  <2>1. \/ y \in Range(SubSeq(s, full * Cap + 1, Len(s)))
        \/ \E k \in 1..full : y \in Range(SubSeq(s, (k - 1) * Cap + 1, k * Cap))
    BY <1>2, <1>4, <1>16, CutCovers
  <2>2. CASE y \in Range(open)
    BY <1>14, <2>2, ListedIff
  <2>3. ASSUME NEW k \in 1..full, y \in Range(SubSeq(s, (k - 1) * Cap + 1, k * Cap))
        PROVE  y \in Listed(new)
    <3>1. y \in Range(read_segment(new, k))
      BY <1>15, <2>3
    <3> QED BY <1>14, <3>1, ListedIff
  <2> QED BY <1>5, <2>1, <2>2, <2>3
<1> QED BY <1>8, <1>13, <1>16
----------------------------------------------------------------------------
(* Steps of the handlers.                                                  *)

\* t goes on to w; what the others have read may have become stale.
Moves(t, w) ==
  /\ task' = [u \in Tasks |-> task'[u]] /\ task'[t] = w
  /\ \A u \in Tasks \ {t} : \/ task'[u] = task[u] /\ tracker' = tracker
                            \/ task'[u] = [task[u] EXCEPT !.stale = TRUE]
                            \/ task'[u] = task[u] /\ task[u].pc \notin {"append", "sealed"} \cup Removing

LEMMA StaleTask ==
  ASSUME NEW w, TaskOK(w)
  PROVE  LET v == [w EXCEPT !.stale = TRUE]
         IN  TaskOK(v) /\ v.pc = w.pc /\ v.id = w.id /\ v.stale = TRUE
<1> DEFINE v == [w EXCEPT !.stale = TRUE]
<1>1. w \in TaskRecords
  BY DEF TaskOK
<1>2. /\ v.pc = w.pc /\ v.id = w.id /\ v.stale = TRUE /\ v.n = w.n /\ v.head = w.head
      /\ v.ids = w.ids /\ v.seg = w.seg /\ v \in TaskRecords
  BY <1>1 DEF TaskRecords
<1> HIDE DEF v
<1>3. TaskOK(v)
  BY <1>2 DEF TaskOK
<1> QED BY <1>2, <1>3 DEF v

LEMMA OthersGoOn ==
  ASSUME WorkOK, NEW t \in Tasks, NEW w, Moves(t, w), NEW u \in Tasks \ {t}
  PROVE  TaskOK(task'[u]) /\ task'[u].pc = task[u].pc /\ task'[u].id = task[u].id
<1>1. TaskOK(task[u])
  BY DEF WorkOK
<1>2. CASE task'[u] = task[u]
  BY <1>1, <1>2
<1>3. CASE task'[u] = [task[u] EXCEPT !.stale = TRUE]
  <2>1. PICK v : v = task[u]
    BY Zenon
  <2>2. TaskOK(v)
    BY <1>1, <2>1
  <2>3. LET z == [v EXCEPT !.stale = TRUE]
        IN  TaskOK(z) /\ z.pc = v.pc /\ z.id = v.id /\ z.stale = TRUE
    BY Zenon, <2>2, StaleTask
  <2> QED BY Zenon, <1>3, <2>1, <2>3
<1> QED BY <1>2, <1>3 DEF Moves

\* Who indexes and who removes before and after the step of t.
LEMMA MovesWork ==
  ASSUME WorkOK, NEW t \in Tasks, NEW w, TaskOK(w), Moves(t, w)
  PROVE  /\ task' = [u \in Tasks |-> task'[u]] /\ \A u \in Tasks : TaskOK(task'[u])
         /\ \A y \in Unindexed' : y \in Unindexed \/ (w.pc \in Indexing /\ y = w.id)
         /\ \A y \in Unindexed : y \in Unindexed' \/ (task[t].pc \in Indexing /\ y = task[t].id)
         /\ w.pc \in Indexing => w.id \in Unindexed'
         /\ task[t].pc \in Indexing => task[t].id \in Unindexed
         /\ \A y \in Deleting : y \in Deleting' \/ (task[t].pc \in Removing /\ y = task[t].id)
         /\ w.pc \in Removing => w.id \in Deleting'
<1>1. \A u \in Tasks \ {t} : TaskOK(task'[u]) /\ task'[u].pc = task[u].pc /\ task'[u].id = task[u].id
  BY OthersGoOn
<1>2. task'[t] = w /\ task' = [u \in Tasks |-> task'[u]]
  BY DEF Moves
<1>3. /\ \A y : y \in Unindexed <=> \E u \in Tasks : task[u].pc \in Indexing /\ task[u].id = y
      /\ \A y : y \in Unindexed' <=> \E u \in Tasks : task'[u].pc \in Indexing /\ task'[u].id = y
      /\ \A y : y \in Deleting <=> \E u \in Tasks : task[u].pc \in Removing /\ task[u].id = y
      /\ \A y : y \in Deleting' <=> \E u \in Tasks : task'[u].pc \in Removing /\ task'[u].id = y
  BY Zenon DEF Unindexed, Deleting, Working, Indexing, Removing
<1>4. \A u \in Tasks : TaskOK(task'[u])
  BY <1>1, <1>2
<1>5. \A y \in Unindexed' : y \in Unindexed \/ (w.pc \in Indexing /\ y = w.id)
  BY <1>1, <1>2, <1>3
<1>6. \A y \in Unindexed : y \in Unindexed' \/ (task[t].pc \in Indexing /\ y = task[t].id)
  BY <1>1, <1>2, <1>3
<1>7. \A y \in Deleting : y \in Deleting' \/ (task[t].pc \in Removing /\ y = task[t].id)
  BY <1>1, <1>2, <1>3
<1> QED BY <1>2, <1>3, <1>4, <1>5, <1>6, <1>7

LEMMA MovesFresh ==
  ASSUME WorkOK, ReadsFresh, NEW t \in Tasks, NEW w, Moves(t, w),
         ~w.stale => FreshRead(w, tracker')
  PROVE  ReadsFresh'
<1> SUFFICES ASSUME NEW u \in Tasks, ~task'[u].stale PROVE FreshRead(task'[u], tracker')
  BY DEF ReadsFresh
<1>1. CASE u = t
  BY <1>1 DEF Moves
<1>2. CASE u # t
  <2>1. CASE task'[u] = task[u] /\ tracker' = tracker
    BY <2>1 DEF ReadsFresh
  <2>2. CASE task'[u] = [task[u] EXCEPT !.stale = TRUE]
    <3>1. PICK v : v = task[u]
      BY Zenon
    <3>2. TaskOK(v)
      BY <3>1 DEF WorkOK
    <3>3. [v EXCEPT !.stale = TRUE].stale = TRUE
      BY Zenon, <3>2, StaleTask
    <3> QED BY Zenon, <2>2, <3>1, <3>3
  <2>3. CASE task'[u] = task[u] /\ task[u].pc \notin {"append", "sealed"} \cup Removing
    BY <2>3 DEF FreshRead, Removing
  <2> QED BY <1>2, <2>1, <2>2, <2>3 DEF Moves
<1> QED BY <1>1, <1>2

\* A step of a handler that touches neither file forgets nothing when what leaves
\* the list is excepted and what is no longer being indexed is listed.
LEMMA ListsKept ==
  ASSUME NothingForgotten, UNCHANGED <<journal, snap, node, comp, adrift, overlap, history>>,
         Excepted \subseteq Excepted', (Unindexed \cup failed)' \subseteq Unindexed \cup failed,
         \A id \in Listed(tracker) \cup Unindexed \cup failed :
            id \in Listed(tracker') \cup Excepted' \cup Unindexed' \cup failed'
  PROVE  NothingForgotten'
<1>1. Committed' = Committed
  BY DEF Committed
<1>2. NoneMissing'
  BY <1>1 DEF NothingForgotten, NoneMissing
<1>3. Recovered'
  BY <1>1 DEF NothingForgotten, Recovered
<1>4. JournalHas'
  BY DEF NothingForgotten, JournalHas
<1>5. SnapshotHas'
  BY <1>1 DEF NothingForgotten, SnapshotHas
<1> QED BY <1>2, <1>3, <1>4, <1>5 DEF NothingForgotten

\* The steps that leave the tracker alone.
LEMMA QuietStep ==
  ASSUME ListInv, NEW t \in Tasks, NEW w, TaskOK(w), task' = [task EXCEPT ![t] = w],
         node = "up", UNCHANGED <<journal, snap, tracker, node, comp, adrift, overlap, history>>,
         UNCHANGED <<revivable, raced, lost>>, deleted \subseteq deleted',
         ~w.stale => FreshRead(w, tracker),
         counters' \in [writes : Nat, deletes : Nat, crashes : Nat, faults : Nat],
         seq' \in Nat, seq' <= counters'.writes,
         w.pc \in Indexing => task[t].pc \in Indexing /\ w.id = task[t].id,
         task[t].pc \in Indexing => (w.pc \in Indexing /\ w.id = task[t].id) \/ task[t].id \in failed',
         task[t].pc \in Removing => (w.pc \in Removing /\ w.id = task[t].id) \/ task[t].id \in deleted',
         failed \subseteq failed', \A y \in failed' \ failed : task[t].pc \in Indexing /\ y = task[t].id
  PROVE  ListInv'
<1>0. WorkOK /\ ReadsFresh /\ TrackerTypeOK /\ NothingForgotten
  BY DEF ListInv
<1>1. Moves(t, w)
  <2>1. task = [u \in Tasks |-> task[u]]
    BY <1>0 DEF WorkOK
  <2>2. task' = [u \in Tasks |-> IF u = t THEN w ELSE task[u]]
    BY <2>1
  <2> QED BY <2>2 DEF Moves
<1>2. /\ task' = [u \in Tasks |-> task'[u]] /\ \A u \in Tasks : TaskOK(task'[u])
      /\ \A y \in Unindexed' : y \in Unindexed \/ (w.pc \in Indexing /\ y = w.id)
      /\ \A y \in Unindexed : y \in Unindexed' \/ (task[t].pc \in Indexing /\ y = task[t].id)
      /\ w.pc \in Indexing => w.id \in Unindexed'
      /\ task[t].pc \in Indexing => task[t].id \in Unindexed
      /\ \A y \in Deleting : y \in Deleting' \/ (task[t].pc \in Removing /\ y = task[t].id)
      /\ w.pc \in Removing => w.id \in Deleting'
  BY <1>0, <1>1, MovesWork
<1>3. WorkOK'
  BY <1>0, <1>2 DEF WorkOK
<1>4. ReadsFresh'
  BY <1>0, <1>1, MovesFresh
<1>5. TrackerTypeOK'
  <2>1. failed' \subseteq Ids
    BY <1>0 DEF TrackerTypeOK, WorkOK, TaskOK
  <2> QED BY <1>0, <2>1 DEF TrackerTypeOK
<1>6. Excepted \subseteq Excepted'
  BY <1>2 DEF Excepted
<1>7. (Unindexed \cup failed)' \subseteq Unindexed \cup failed
  BY <1>2
<1>8. Unindexed \cup failed \subseteq Unindexed' \cup failed'
  BY <1>2
<1>9. NothingForgotten'
  BY <1>0, <1>6, <1>7, <1>8, ListsKept
<1> QED BY <1>3, <1>4, <1>5, <1>9 DEF ListInv

\* The steps that write the tracker: from a fresh read they list what was listed
\* and not deleted, and what they index.
LEMMA TrackerStep ==
  ASSUME ListInv, NEW t \in Tasks, NEW w, TaskOK(w), Wrote(t, w),
         node = "up", UNCHANGED <<journal, snap, node, comp, adrift, overlap, history>>,
         UNCHANGED <<revivable, lost, failed, counters, seq>>, deleted \subseteq deleted', Blame(t),
         IsTracker(tracker'), ~w.stale => FreshRead(w, tracker'),
         w.pc \in Indexing => task[t].pc \in Indexing /\ w.id = task[t].id,
         w.pc \notin Removing, task[t].pc \in Removing => task[t].id \in deleted',
         ~task[t].stale =>
           /\ Listed(tracker) \ deleted' \subseteq Listed(tracker')
           /\ task[t].pc \in Indexing /\ w.pc \notin Indexing => task[t].id \in Listed(tracker')
  PROVE  ListInv'
<1>0. WorkOK /\ ReadsFresh /\ TrackerTypeOK /\ NothingForgotten
  BY DEF ListInv
<1>1. Moves(t, w)
  BY DEF Wrote, Moves, Removing
<1>2. /\ task' = [u \in Tasks |-> task'[u]] /\ \A u \in Tasks : TaskOK(task'[u])
      /\ \A y \in Unindexed' : y \in Unindexed \/ (w.pc \in Indexing /\ y = w.id)
      /\ \A y \in Unindexed : y \in Unindexed' \/ (task[t].pc \in Indexing /\ y = task[t].id)
      /\ w.pc \in Indexing => w.id \in Unindexed'
      /\ task[t].pc \in Indexing => task[t].id \in Unindexed
      /\ \A y \in Deleting : y \in Deleting' \/ (task[t].pc \in Removing /\ y = task[t].id)
      /\ w.pc \in Removing => w.id \in Deleting'
  BY <1>0, <1>1, MovesWork
<1>3. WorkOK'
  BY <1>0, <1>2 DEF WorkOK
<1>4. ReadsFresh'
  BY <1>0, <1>1, MovesFresh
<1>5. TrackerTypeOK'
  BY <1>0 DEF TrackerTypeOK
<1>6. /\ raced \subseteq raced'
      /\ task[t].stale => /\ SymDiff(Listed(tracker), Listed(tracker')) \subseteq raced'
                          /\ task[t].id \in raced'
  BY Zenon DEF Blame
<1>7. Excepted \subseteq Excepted' /\ raced' \subseteq Excepted' /\ deleted' \subseteq Excepted'
  BY <1>2, <1>6 DEF Excepted
<1>8. (Unindexed \cup failed)' \subseteq Unindexed \cup failed
  BY <1>2
<1>9. ASSUME NEW y \in Listed(tracker) \cup Unindexed \cup failed
      PROVE  y \in Listed(tracker') \cup Excepted' \cup Unindexed' \cup failed'
  <2>1. CASE y \in Listed(tracker) /\ task[t].stale
    BY <1>6, <1>7, <2>1 DEF SymDiff
  <2>2. CASE y \in Listed(tracker) /\ ~task[t].stale
    BY <1>7, <2>2
  <2>3. CASE y \in Unindexed
    BY <1>2, <1>6, <1>7, <2>3
  <2> QED BY <2>1, <2>2, <2>3
<1>10. NothingForgotten'
  BY <1>0, <1>7, <1>8, <1>9, ListsKept
<1> QED BY <1>3, <1>4, <1>5, <1>10 DEF ListInv

LEMMA IdleIsOK == TaskOK(Idle) /\ Idle.pc = "idle" /\ \A tr : FreshRead(Idle, tr)
<1>1. Idle \in TaskRecords /\ Idle.pc = "idle"
  BY EmptyIsTracker DEF Idle
<1> QED BY <1>1 DEF TaskOK, FreshRead, Indexing

LEMMA BeginWriteKeeps ==
  ASSUME ListInv, ~unique, NEW t \in Tasks, BeginWrite(t) PROVE ListInv'
<1>1. /\ seq \in Nat /\ seq <= counters.writes /\ counters.writes < MaxWrites /\ MaxWrites \in Nat
      /\ counters \in [writes : Nat, deletes : Nat, crashes : Nat, faults : Nat]
  BY LimitsAreNatural DEF ListInv, TrackerTypeOK, BeginWrite
<1>2. PICK w : w = [Idle EXCEPT !.pc = "minted", !.id = seq + 1, !.n = counters.writes + 1]
  BY Zenon
<1>3. w \in TaskRecords /\ w.pc = "minted" /\ w.id = seq + 1 /\ w.n = counters.writes + 1
  <2>1. Idle \in TaskRecords /\ seq + 1 \in Nat /\ counters.writes + 1 \in Nat
    BY <1>1, EmptyIsTracker
  <2> QED BY <1>2, <2>1 DEF TaskRecords
<1>4. TaskOK(w)
  BY <1>1, <1>3 DEF TaskOK, Ids
<1>5. FreshRead(w, tracker) /\ w.pc \notin Indexing \cup Removing
  BY <1>3 DEF FreshRead, Indexing, Removing
<1>6. task' = [task EXCEPT ![t] = w] /\ node = "up" /\ task[t].pc \notin Indexing \cup Removing
  BY <1>2 DEF BeginWrite, At, Indexing, Removing
<1>7. /\ counters' \in [writes : Nat, deletes : Nat, crashes : Nat, faults : Nat]
      /\ seq' \in Nat /\ seq' <= counters'.writes
  BY <1>1 DEF BeginWrite
<1>8. UNCHANGED <<journal, snap, tracker, node, comp, adrift, overlap, history, revivable, raced,
                  lost, deleted, failed>>
  BY DEF BeginWrite, files, table, ghosts
<1> QED BY <1>4, <1>5, <1>6, <1>7, <1>8, QuietStep

LEMMA StoreRecordKeeps ==
  ASSUME ListInv, ~unique, NEW t \in Tasks, StoreRecord(t) PROVE ListInv'
<1>1. TaskOK(task[t]) /\ task[t].pc = "journalled" /\ node = "up"
  BY DEF ListInv, WorkOK, StoreRecord, At
<1>2. PICK v : v = task[t]
  BY Zenon
<1>3. PICK w : w = [v EXCEPT !.pc = "stored"]
  BY Zenon
<1>4. /\ w \in TaskRecords /\ w.pc = "stored" /\ w.id = v.id /\ w.n = v.n
      /\ v.id \in Ids /\ v.n > 0 /\ v.pc = "journalled"
  BY <1>1, <1>2, <1>3 DEF TaskOK, TaskRecords, Indexing
<1>5. TaskOK(w)
  BY <1>4 DEF TaskOK
<1>6. FreshRead(w, tracker) /\ w.pc \in Indexing /\ v.pc \in Indexing /\ v.pc \notin Removing
  BY <1>4 DEF FreshRead, Indexing, Removing
<1>7. task' = [task EXCEPT ![t] = w]
  <2>1. task' = [task EXCEPT ![t].pc = "stored"]
    BY DEF StoreRecord, Goto
  <2> QED BY <1>2, <1>3, <2>1
<1>8. UNCHANGED <<journal, snap, tracker, node, comp, adrift, overlap, history, revivable, raced,
                  lost, deleted, failed, counters, seq>>
  BY DEF StoreRecord, files, ghosts
<1>9. /\ seq \in Nat /\ seq <= counters.writes
      /\ counters \in [writes : Nat, deletes : Nat, crashes : Nat, faults : Nat]
  BY DEF ListInv, TrackerTypeOK
<1> QED BY <1>1, <1>2, <1>4, <1>5, <1>6, <1>7, <1>8, <1>9, QuietStep

LEMMA ReadHeadKeeps ==
  ASSUME ListInv, ~unique, NEW t \in Tasks, ReadHead(t) PROVE ListInv'
<1>1. TaskOK(task[t]) /\ task[t].pc = "stored" /\ node = "up" /\ tracker.head \in Heads
  BY DEF ListInv, WorkOK, ReadHead, At, TrackerTypeOK, IsTracker
<1>2. PICK v : v = task[t]
  BY Zenon
<1>3. PICK w : w = [v EXCEPT !.pc = "append", !.head = tracker.head]
  BY Zenon
<1>4. /\ w \in TaskRecords /\ w.pc = "append" /\ w.id = v.id /\ w.n = v.n /\ w.head = tracker.head
      /\ v.id \in Ids /\ v.n > 0 /\ v.pc = "stored"
  BY <1>1, <1>2, <1>3 DEF TaskOK, TaskRecords, Indexing
<1>5. TaskOK(w)
  BY <1>4 DEF TaskOK
<1>6. FreshRead(w, tracker) /\ w.pc \in Indexing /\ v.pc \in Indexing /\ v.pc \notin Removing
  BY <1>4 DEF FreshRead, Indexing, Removing
<1>7. task' = [task EXCEPT ![t] = w]
  <2>1. task' = [task EXCEPT ![t].pc = "append", ![t].head = tracker.head]
    BY DEF ReadHead
  <2>2. task = [u \in Tasks |-> task[u]]
    BY DEF ListInv, WorkOK
  <2> QED BY <1>2, <1>3, <2>1, <2>2
<1>8. UNCHANGED <<journal, snap, tracker, node, comp, adrift, overlap, history, revivable, raced,
                  lost, deleted, failed, counters, seq>>
  BY DEF ReadHead, files, table, ghosts
<1>9. /\ seq \in Nat /\ seq <= counters.writes
      /\ counters \in [writes : Nat, deletes : Nat, crashes : Nat, faults : Nat]
  BY DEF ListInv, TrackerTypeOK
<1> QED BY <1>1, <1>2, <1>4, <1>5, <1>6, <1>7, <1>8, <1>9, QuietStep

LEMMA IndexFailsKeeps ==
  ASSUME ListInv, ~unique, NEW t \in Tasks, IndexFails(t) PROVE ListInv'
<1>1. node = "up" /\ task[t].pc \in Indexing /\ task[t].pc \notin Removing
  BY DEF IndexFails, At, Indexing, Removing
<1>2. task' = [task EXCEPT ![t] = Idle] /\ failed' = failed \cup {task[t].id}
  BY DEF IndexFails, Done
<1>3. PICK w : w = Idle
  BY Zenon
<1>4. TaskOK(w) /\ w.pc = "idle" /\ FreshRead(w, tracker)
  BY Zenon, <1>3, IdleIsOK
<1>5. w.pc \notin Indexing /\ w.pc \notin Removing
  BY <1>4 DEF Indexing, Removing
<1>6. UNCHANGED <<journal, snap, tracker, node, comp, adrift, overlap, history, revivable, raced,
                  lost, deleted, seq>>
  BY DEF IndexFails, files, table
<1>7. /\ seq' \in Nat /\ seq' <= counters'.writes
      /\ counters' \in [writes : Nat, deletes : Nat, crashes : Nat, faults : Nat]
  BY DEF ListInv, TrackerTypeOK, IndexFails
<1> QED BY <1>1, <1>2, <1>3, <1>4, <1>5, <1>6, <1>7, QuietStep

LEMMA BeginDeleteKeeps ==
  ASSUME ListInv, ~unique, NEW t \in Tasks, NEW id \in Ids, BeginDelete(t, id) PROVE ListInv'
<1>1. /\ node = "up" /\ task[t].pc \notin Indexing \cup Removing
      /\ tracker.head \in Heads /\ tracker.head.sealed \in Nat /\ id \in Nat
  BY DEF BeginDelete, At, Indexing, Removing, ListInv, TrackerTypeOK, IsTracker, Heads, Ids
<1>2. PICK w : w = [Idle EXCEPT !.id = id, !.head = tracker.head,
                      !.pc = IF id \in Range(tracker.head.open) THEN "remove" ELSE "scan",
                      !.seg = tracker.head.sealed]
  BY Zenon
<1>3. /\ w \in TaskRecords /\ w.id = id /\ w.head = tracker.head
      /\ w.pc = IF id \in Range(tracker.head.open) THEN "remove" ELSE "scan"
  BY <1>1, <1>2, EmptyIsTracker DEF Idle, TaskRecords, Removing
<1>4. TaskOK(w)
  BY <1>3 DEF TaskOK, Indexing
<1>5. FreshRead(w, tracker) /\ w.pc \notin Indexing
  BY <1>3 DEF FreshRead, Indexing
<1>6. task' = [task EXCEPT ![t] = w]
  BY Zenon, <1>2 DEF BeginDelete
<1>7. /\ counters' \in [writes : Nat, deletes : Nat, crashes : Nat, faults : Nat]
      /\ seq' \in Nat /\ seq' <= counters'.writes
  BY DEF BeginDelete, ListInv, TrackerTypeOK
<1>8. UNCHANGED <<journal, snap, tracker, node, comp, adrift, overlap, history, revivable, raced,
                  lost, deleted, failed>>
  BY DEF BeginDelete, files, table, ghosts
<1> QED BY <1>1, <1>4, <1>5, <1>6, <1>7, <1>8, QuietStep

LEMMA ScanSegmentKeeps ==
  ASSUME ListInv, ~unique, NEW t \in Tasks, ScanSegment(t) PROVE ListInv'
<1>1. /\ node = "up" /\ task[t].pc = "scan" /\ task[t].pc \notin Indexing /\ task[t].pc \in Removing
      /\ TaskOK(task[t]) /\ IsTracker(tracker) /\ task = [u \in Tasks |-> task[u]]
  BY DEF ScanSegment, At, Indexing, Removing, ListInv, WorkOK, TrackerTypeOK
<1>2. PICK v : v = task[t]
  BY Zenon
<1>3. v \in TaskRecords /\ v.seg \in Nat /\ v.pc = "scan"
  BY <1>1, <1>2 DEF TaskOK, TaskRecords
<1>4. UNCHANGED <<journal, snap, tracker, node, comp, adrift, overlap, history, revivable, raced,
                  lost, failed, counters, seq>>
  BY DEF ScanSegment, files, table
<1>5. /\ seq' \in Nat /\ seq' <= counters'.writes
      /\ counters' \in [writes : Nat, deletes : Nat, crashes : Nat, faults : Nat]
  BY <1>4 DEF ListInv, TrackerTypeOK
<1>6. CASE v.seg = 0
  <2>1. task' = [task EXCEPT ![t] = Idle] /\ deleted' = deleted \cup {v.id}
    BY <1>2, <1>6 DEF ScanSegment, Done
  <2>2. PICK w : w = Idle
    BY Zenon
  <2>3. TaskOK(w) /\ w.pc = "idle" /\ FreshRead(w, tracker)
    BY Zenon, <2>2, IdleIsOK
  <2>4. w.pc \notin Indexing /\ w.pc \notin Removing
    BY <2>3 DEF Indexing, Removing
  <2> QED BY <1>1, <1>2, <1>4, <1>5, <2>1, <2>2, <2>3, <2>4, QuietStep
<1>7. CASE v.seg # 0 /\ v.id \in Range(read_segment(tracker, v.seg))
  <2>1. PICK s : s = read_segment(tracker, v.seg)
    BY Zenon
  <2>2. s \in Seq(Ids)
    BY <1>1, <2>1, SegmentType
  <2>3. PICK w : w = [v EXCEPT !.pc = "rewrite", !.ids = s]
    BY Zenon
  <2>4. task' = [task EXCEPT ![t] = w] /\ deleted' = deleted
    BY <1>1, <1>2, <1>7, <2>1, <2>3 DEF ScanSegment
  <2>5. w \in TaskRecords /\ w.pc = "rewrite" /\ w.ids = s /\ w.id = v.id /\ w.seg = v.seg
    BY <1>3, <2>2, <2>3 DEF TaskRecords, Removing
  <2>6. TaskOK(w)
    BY <1>7, <2>1, <2>5 DEF TaskOK, Indexing
  <2>7. FreshRead(w, tracker) /\ w.pc \notin Indexing /\ w.pc \in Removing
    BY <2>1, <2>5 DEF FreshRead, Indexing, Removing
  <2> QED BY <1>1, <1>2, <1>4, <1>5, <2>4, <2>5, <2>6, <2>7, QuietStep
<1>8. CASE v.seg # 0 /\ v.id \notin Range(read_segment(tracker, v.seg))
  <2>3. PICK w : w = [v EXCEPT !.seg = v.seg - 1]
    BY Zenon
  <2>4. task' = [task EXCEPT ![t] = w] /\ deleted' = deleted
    BY <1>1, <1>2, <1>8, <2>3 DEF ScanSegment
  <2>5. w \in TaskRecords /\ w.pc = "scan" /\ w.id = v.id
    BY <1>3, <1>8, <2>3 DEF TaskRecords, Removing
  <2>6. TaskOK(w)
    BY <2>5 DEF TaskOK, Indexing
  <2>7. FreshRead(w, tracker) /\ w.pc \notin Indexing /\ w.pc \in Removing
    BY <2>5 DEF FreshRead, Indexing, Removing
  <2> QED BY <1>1, <1>2, <1>4, <1>5, <2>4, <2>5, <2>6, <2>7, QuietStep
<1> QED BY <1>6, <1>7, <1>8

LEMMA SealSegmentKeeps ==
  ASSUME ListInv, ~unique, NEW t \in Tasks, SealSegment(t) PROVE ListInv'
<1>1. /\ node = "up" /\ task[t].pc = "append" /\ TaskOK(task[t]) /\ IsTracker(tracker)
      /\ ~task[t].stale => FreshRead(task[t], tracker)
  BY DEF SealSegment, At, ListInv, WorkOK, TrackerTypeOK, ReadsFresh
<1>2. PICK v : v = task[t]
  BY Zenon
<1>3. /\ v \in TaskRecords /\ v.pc = "append" /\ v.id \in Ids /\ v.n > 0
      /\ v.head.open \in Seq(Ids) /\ v.head.sealed \in Nat
  BY <1>1, <1>2 DEF TaskOK, TaskRecords, Indexing, Heads
<1>4. PICK k, s : k = v.head.sealed + 1 /\ s = Append(v.head.open, v.id)
  BY Zenon
<1>5. k \in Nat \ {0} /\ s \in Seq(Ids)
  BY <1>3, <1>4
<1>6. tracker' = write_segment(tracker, k, s)
  BY <1>2, <1>4 DEF SealSegment
<1>7. /\ IsTracker(tracker') /\ tracker'.head = tracker.head
      /\ read_segment(tracker', k) = s
  BY <1>1, <1>5, <1>6, WriteSegmentFacts
<1>8. PICK w : w = [v EXCEPT !.pc = "sealed", !.head = [sealed |-> k, open |-> <<>>]]
  BY Zenon
<1>9. /\ w.pc = "sealed" /\ w.id = v.id /\ w.n = v.n /\ w.stale = v.stale
      /\ w.head = [sealed |-> k, open |-> <<>>] /\ w \in TaskRecords
  <2>1. [sealed |-> k, open |-> <<>>] \in Heads
    BY <1>5 DEF Heads
  <2> QED BY <1>3, <1>8, <2>1 DEF TaskRecords, Indexing
<1>10. TaskOK(w) /\ w.pc \in Indexing /\ v.pc \in Indexing /\ w.pc \notin Removing /\ v.pc \notin Removing
  BY <1>3, <1>9 DEF TaskOK, Indexing, Removing
<1>11. Wrote(t, w)
  BY <1>2, <1>4, <1>8 DEF SealSegment
<1>12. ~v.stale => v.head = tracker.head
  BY <1>1, <1>2, <1>3 DEF FreshRead
<1>13. ~w.stale => FreshRead(w, tracker')
  BY <1>4, <1>7, <1>9, <1>12 DEF FreshRead
<1>14. ~v.stale => Listed(tracker) \subseteq Listed(tracker')
  <2> SUFFICES ASSUME ~v.stale PROVE Listed(tracker') = Listed(tracker)
    OBVIOUS
  <2>1. k > tracker.head.sealed
    BY <1>3, <1>4, <1>12
  <2> QED BY <1>1, <1>5, <1>6, <2>1, UnsealedNotListed
<1>15. UNCHANGED <<journal, snap, node, comp, adrift, overlap, history, revivable, lost, failed,
                   counters, seq, deleted>> /\ Blame(t)
  BY DEF SealSegment, files
<1> QED BY <1>1, <1>2, <1>7, <1>9, <1>10, <1>11, <1>13, <1>14, <1>15, TrackerStep

LEMMA WriteHeadKeeps ==
  ASSUME ListInv, ~unique, NEW t \in Tasks, WriteHead(t) PROVE ListInv'
<1>1. /\ node = "up" /\ task[t].pc \in {"append", "sealed"} /\ TaskOK(task[t]) /\ IsTracker(tracker)
      /\ ~task[t].stale => FreshRead(task[t], tracker)
  BY DEF WriteHead, At, ListInv, WorkOK, TrackerTypeOK, ReadsFresh
<1>2. PICK v : v = task[t]
  BY Zenon
<1>3. /\ v \in TaskRecords /\ v.pc \in {"append", "sealed"} /\ v.id \in Ids /\ v.head \in Heads
      /\ v.head.open \in Seq(Ids) /\ v.head.sealed \in Nat
  BY <1>1, <1>2 DEF TaskOK, TaskRecords, Indexing, Heads
<1>4. PICK h : h = IF v.pc = "sealed" THEN v.head ELSE [v.head EXCEPT !.open = Append(@, v.id)]
  BY Zenon
<1>5. h \in Heads
  <2>1. PICK z : z = v.head
    BY Zenon
  <2>2. PICK s : s = Append(v.head.open, v.id)
    BY Zenon
  <2>3. s \in Seq(Ids)
    BY <1>3, <2>2
  <2>4. [z EXCEPT !.open = s] \in Heads
    BY <1>3, <2>1, <2>3 DEF Heads
  <2> QED BY <1>3, <1>4, <2>1, <2>2, <2>4
<1>6. tracker' = [tracker EXCEPT !.head = h]
  BY <1>2, <1>4 DEF WriteHead
<1>7. IsTracker(tracker')
  <2>1. IsTracker([tracker EXCEPT !.head = h])
    BY <1>1, <1>5, WriteHeadFacts
  <2> QED BY <1>6, <2>1
<1>8. PICK w : w = Idle
  BY Zenon
<1>9. TaskOK(w) /\ w.pc = "idle" /\ FreshRead(w, tracker')
  BY Zenon, <1>8, IdleIsOK
<1>10. w.pc \notin Indexing /\ v.pc \in Indexing /\ w.pc \notin Removing /\ v.pc \notin Removing
  BY <1>3, <1>9 DEF Indexing, Removing
<1>11. Wrote(t, w)
  BY <1>8 DEF WriteHead
<1>12. ~v.stale => Listed(tracker') = Listed(tracker) \cup {v.id}
  <2> SUFFICES ASSUME ~v.stale PROVE Listed(tracker') = Listed(tracker) \cup {v.id}
    OBVIOUS
  <2>1. FreshRead(v, tracker)
    BY <1>1, <1>2
  <2>2. CASE v.pc = "append"
    <3>1. v.head = tracker.head
      BY <2>1, <2>2 DEF FreshRead
    <3>2. tracker' = [tracker EXCEPT !.head = [tracker.head EXCEPT !.open = Append(@, v.id)]]
      BY <1>4, <1>6, <2>2, <3>1
    <3> QED BY <1>1, <1>3, <3>2, AppendListed
  <2>3. CASE v.pc = "sealed"
    <3>1. /\ v.head = [sealed |-> tracker.head.sealed + 1, open |-> <<>>]
          /\ read_segment(tracker, tracker.head.sealed + 1) = Append(tracker.head.open, v.id)
      BY <2>1, <2>3 DEF FreshRead
    <3>2. tracker' = [tracker EXCEPT !.head = [sealed |-> tracker.head.sealed + 1, open |-> <<>>]]
      BY <1>4, <1>6, <2>3, <3>1
    <3> QED BY <1>1, <1>3, <3>1, <3>2, SealListed
  <2> QED BY <1>3, <2>2, <2>3
<1>15. UNCHANGED <<journal, snap, node, comp, adrift, overlap, history, revivable, lost, failed,
                   counters, seq, deleted>> /\ Blame(t)
  BY DEF WriteHead, files
<1> QED BY <1>1, <1>2, <1>7, <1>8, <1>9, <1>10, <1>11, <1>12, <1>15, TrackerStep

LEMMA RemoveOpenKeeps ==
  ASSUME ListInv, ~unique, NEW t \in Tasks, RemoveOpen(t) PROVE ListInv'
<1>1. /\ node = "up" /\ task[t].pc = "remove" /\ TaskOK(task[t]) /\ IsTracker(tracker)
      /\ ~task[t].stale => FreshRead(task[t], tracker)
  BY DEF RemoveOpen, At, ListInv, WorkOK, TrackerTypeOK, ReadsFresh
<1>2. PICK v : v = task[t]
  BY Zenon
<1>3. /\ v \in TaskRecords /\ v.pc = "remove" /\ v.head \in Heads
      /\ v.head.open \in Seq(Ids) /\ v.id \in Range(v.head.open)
  BY <1>1, <1>2 DEF TaskOK, TaskRecords, Heads
<1>4. PICK h : h = [v.head EXCEPT !.open = Without(@, v.id)]
  BY Zenon
<1>5. h \in Heads
  <2>1. PICK z : z = v.head
    BY Zenon
  <2>2. PICK s : s = Without(v.head.open, v.id)
    BY Zenon
  <2>3. s \in Seq(Ids)
    BY <1>3, <2>2, WithoutFacts
  <2>4. [z EXCEPT !.open = s] \in Heads
    BY <1>3, <2>1, <2>3 DEF Heads
  <2> QED BY <1>3, <1>4, <2>1, <2>2, <2>4
<1>6. tracker' = [tracker EXCEPT !.head = h]
  BY <1>2, <1>4 DEF RemoveOpen
<1>7. IsTracker(tracker')
  <2>1. IsTracker([tracker EXCEPT !.head = h])
    BY <1>1, <1>5, WriteHeadFacts
  <2> QED BY <1>6, <2>1
<1>8. PICK w : w = Idle
  BY Zenon
<1>9. TaskOK(w) /\ w.pc = "idle" /\ FreshRead(w, tracker')
  BY Zenon, <1>8, IdleIsOK
<1>10. w.pc \notin Indexing /\ v.pc \notin Indexing /\ w.pc \notin Removing
  BY <1>3, <1>9 DEF Indexing, Removing
<1>11. Wrote(t, w) /\ deleted' = deleted \cup {v.id}
  BY <1>2, <1>8 DEF RemoveOpen
<1>12. ~v.stale => Listed(tracker) \ {v.id} \subseteq Listed(tracker')
  <2> SUFFICES ASSUME ~v.stale PROVE Listed(tracker) \ {v.id} \subseteq Listed(tracker')
    OBVIOUS
  <2>1. v.head = tracker.head
    BY <1>1, <1>2, <1>3 DEF FreshRead
  <2>2. tracker' = [tracker EXCEPT !.head = [tracker.head EXCEPT !.open = Without(@, v.id)]]
    BY <1>4, <1>6, <2>1
  <2>3. v.id \in Range(tracker.head.open)
    BY <1>3, <2>1
  <2> QED BY <1>1, <2>2, <2>3, RemoveOpenListed
<1>13. UNCHANGED <<journal, snap, node, comp, adrift, overlap, history, revivable, lost, failed,
                   counters, seq>> /\ Blame(t)
  BY DEF RemoveOpen, files
<1> QED BY <1>1, <1>2, <1>7, <1>8, <1>9, <1>10, <1>11, <1>12, <1>13, TrackerStep

LEMMA RewriteSegmentKeeps ==
  ASSUME ListInv, ~unique, NEW t \in Tasks, RewriteSegment(t) PROVE ListInv'
<1>1. /\ node = "up" /\ task[t].pc = "rewrite" /\ TaskOK(task[t]) /\ IsTracker(tracker)
      /\ ~task[t].stale => FreshRead(task[t], tracker)
  BY DEF RewriteSegment, At, ListInv, WorkOK, TrackerTypeOK, ReadsFresh
<1>2. PICK v : v = task[t]
  BY Zenon
<1>3. /\ v \in TaskRecords /\ v.pc = "rewrite" /\ v.seg \in Nat \ {0}
      /\ v.ids \in Seq(Ids) /\ v.id \in Range(v.ids)
  BY <1>1, <1>2 DEF TaskOK, TaskRecords
<1>4. PICK s : s = Without(v.ids, v.id)
  BY Zenon
<1>5. s \in Seq(Ids)
  BY <1>3, <1>4, WithoutFacts
<1>6. tracker' = write_segment(tracker, v.seg, s)
  BY <1>2, <1>4 DEF RewriteSegment
<1>7. IsTracker(tracker')
  BY <1>1, <1>3, <1>5, <1>6, WriteSegmentFacts
<1>8. PICK w : w = Idle
  BY Zenon
<1>9. TaskOK(w) /\ w.pc = "idle" /\ FreshRead(w, tracker')
  BY Zenon, <1>8, IdleIsOK
<1>10. w.pc \notin Indexing /\ v.pc \notin Indexing /\ w.pc \notin Removing
  BY <1>3, <1>9 DEF Indexing, Removing
<1>11. Wrote(t, w) /\ deleted' = deleted \cup {v.id}
  BY <1>2, <1>8 DEF RewriteSegment
<1>12. ~v.stale => Listed(tracker) \ {v.id} \subseteq Listed(tracker')
  <2> SUFFICES ASSUME ~v.stale PROVE Listed(tracker) \ {v.id} \subseteq Listed(tracker')
    OBVIOUS
  <2>1. v.ids = read_segment(tracker, v.seg)
    BY <1>1, <1>2, <1>3 DEF FreshRead
  <2>2. tracker' = write_segment(tracker, v.seg, Without(read_segment(tracker, v.seg), v.id))
    BY <1>4, <1>6, <2>1
  <2> QED BY <1>1, <1>3, <2>1, <2>2, RewriteListed
<1>13. UNCHANGED <<journal, snap, node, comp, adrift, overlap, history, revivable, lost, failed,
                   counters, seq>> /\ Blame(t)
  BY DEF RewriteSegment, files
<1> QED BY <1>1, <1>2, <1>7, <1>8, <1>9, <1>10, <1>11, <1>12, <1>13, TrackerStep

----------------------------------------------------------------------------
(* Commit, compaction, crash and recovery.                                 *)

LEMMA JournalWriteKeeps ==
  ASSUME ListInv, ~unique, NEW t \in Tasks, JournalWrite(t) PROVE ListInv'
<1>1. /\ node = "up" /\ task[t].pc = "minted" /\ TaskOK(task[t])
      /\ task = [u \in Tasks |-> task[u]]
      /\ WorkOK /\ ReadsFresh /\ TrackerTypeOK /\ NothingForgotten
  BY DEF JournalWrite, At, ListInv, WorkOK
<1>2. PICK v : v = task[t]
  BY Zenon
<1>3. v \in TaskRecords /\ v.pc = "minted" /\ v.id \in Ids /\ v.n \in Nat /\ v.n > 0
  BY <1>1, <1>2 DEF TaskOK, TaskRecords
<1>4. PICK w : w = [v EXCEPT !.pc = "journalled"]
  BY Zenon
<1>5. w \in TaskRecords /\ w.pc = "journalled" /\ w.id = v.id /\ w.n = v.n
  BY <1>3, <1>4 DEF TaskRecords, Indexing
<1>6. TaskOK(w) /\ FreshRead(w, tracker') /\ w.pc \in Indexing
      /\ v.pc \notin Indexing /\ v.pc \notin Removing
  BY <1>3, <1>5 DEF TaskOK, FreshRead, Indexing, Removing
<1>7. UNCHANGED <<snap, tracker, node, comp, seq, deleted, revivable, raced, failed, adrift, lost,
                  counters>>
  BY DEF JournalWrite, table
<1>8. Moves(t, w)
  <2>1. task' = [task EXCEPT ![t] = w]
    BY <1>2, <1>4 DEF JournalWrite, Goto
  <2>2. task' = [u \in Tasks |-> IF u = t THEN w ELSE task[u]]
    BY <1>1, <2>1
  <2> QED BY <1>7, <2>2 DEF Moves
<1>9. /\ task' = [u \in Tasks |-> task'[u]] /\ \A u \in Tasks : TaskOK(task'[u])
      /\ \A y \in Unindexed' : y \in Unindexed \/ y = v.id
      /\ Unindexed \subseteq Unindexed' /\ v.id \in Unindexed' /\ Deleting \subseteq Deleting'
  BY <1>1, <1>2, <1>5, <1>6, <1>8, MovesWork
<1>10. /\ journal' \in [Ids -> Nat] /\ journal'[v.id] # 0
       /\ \A y \in Ids : journal[y] # 0 => journal'[y] # 0
  BY <1>1, <1>2, <1>3 DEF JournalWrite, TrackerTypeOK
<1>11. history' \in Seq(Ids) /\ Committed' = Committed \cup {v.id}
  <2>1. history \in Seq(Ids) /\ history' = Append(history, v.id)
    BY <1>1, <1>2 DEF JournalWrite, TrackerTypeOK
  <2> QED BY <1>3, <2>1, RangeOfAppend DEF Committed
<1>12. overlap \subseteq overlap' /\ (comp = "flushed" => v.id \in overlap')
  BY <1>2 DEF JournalWrite
<1>13. Excepted \subseteq Excepted'
  BY <1>7, <1>9 DEF Excepted
<1>14. Unindexed \cup failed \subseteq Ids /\ Committed \subseteq Ids
  <2>1. Unindexed \subseteq Ids
    BY <1>1 DEF WorkOK, TaskOK, Unindexed, Working, Indexing
  <2>2. failed \subseteq Ids /\ history \in Seq(Ids)
    BY <1>1 DEF TrackerTypeOK
  <2>3. Committed \subseteq Ids
    BY <2>2 DEF Committed, Range
  <2> QED BY <2>1, <2>2, <2>3
<1>15. JournalHas'
  BY <1>1, <1>7, <1>9, <1>10, <1>14 DEF NothingForgotten, JournalHas
<1>16. NoneMissing'
  BY <1>1, <1>7, <1>9, <1>11, <1>13 DEF NothingForgotten, NoneMissing
<1>17. Recovered'
  BY <1>1, <1>7, <1>10, <1>11, <1>13, <1>14 DEF NothingForgotten, Recovered
<1>18. SnapshotHas'
  BY <1>1, <1>7, <1>9, <1>11, <1>12, <1>13 DEF NothingForgotten, SnapshotHas
<1>19. WorkOK'
  BY <1>1, <1>7, <1>9 DEF WorkOK
<1>20. ReadsFresh'
  BY <1>1, <1>6, <1>8, MovesFresh
<1>21. TrackerTypeOK'
  BY <1>1, <1>7, <1>10, <1>11 DEF TrackerTypeOK
<1> QED BY <1>15, <1>16, <1>17, <1>18, <1>19, <1>20, <1>21 DEF ListInv, NothingForgotten

LEMMA FlushSnapshotKeeps ==
  ASSUME ListInv, ~unique, FlushSnapshot PROVE ListInv'
<1>1. WorkOK /\ ReadsFresh /\ TrackerTypeOK /\ NothingForgotten
  BY DEF ListInv
<1>2. UNCHANGED <<journal, tracker, node, seq, task, history, deleted, revivable, raced, failed, lost,
                  counters>>
  BY DEF FlushSnapshot, table
<1>3. /\ snap' = [recs |-> recs, tracker |-> tracker] /\ snap'.tracker = tracker /\ node # "down"
      /\ overlap' = Unindexed \cup failed /\ adrift' = adrift \cap overlap' /\ comp' = "flushed"
  BY DEF FlushSnapshot
<1>4. Unindexed' = Unindexed /\ Deleting' = Deleting /\ Committed' = Committed
  BY <1>2 DEF Unindexed, Deleting, Working, Committed
<1>5. Excepted' = Excepted
  BY <1>2, <1>4 DEF Excepted
<1>6. Committed \ (Excepted \cup Unindexed \cup failed) \subseteq Listed(tracker)
  BY <1>1, <1>3 DEF NothingForgotten, NoneMissing
<1>7. \A id \in Unindexed \cup failed : journal[id] # 0 \/ id \in adrift
  BY <1>1 DEF NothingForgotten, JournalHas
<1>8. TrackerTypeOK'
  BY <1>1, <1>2, <1>3 DEF TrackerTypeOK
<1>9. WorkOK'
  BY <1>1, <1>2, <1>3 DEF WorkOK
<1>10. ReadsFresh'
  BY <1>1, <1>2 DEF ReadsFresh
<1>11. NoneMissing'
  BY <1>2, <1>4, <1>5, <1>6 DEF NoneMissing
<1>12. Recovered'
  BY <1>2, <1>3, <1>4, <1>5, <1>6, <1>7 DEF Recovered
<1>13. JournalHas'
  BY <1>2, <1>3, <1>4, <1>7 DEF JournalHas
<1>14. SnapshotHas'
  BY <1>2, <1>3, <1>4, <1>5, <1>6 DEF SnapshotHas
<1> QED BY <1>8, <1>9, <1>10, <1>11, <1>12, <1>13, <1>14 DEF ListInv, NothingForgotten

LEMMA TruncateJournalKeeps ==
  ASSUME ListInv, ~unique, TruncateJournal PROVE ListInv'
<1>1. WorkOK /\ ReadsFresh /\ TrackerTypeOK /\ NothingForgotten
  BY DEF ListInv
<1>2. UNCHANGED <<snap, tracker, seq, task, history, deleted, revivable, raced, failed, lost, counters>>
  BY DEF TruncateJournal, table
<1>3. /\ journal' = NoRecords /\ node' = "up" /\ comp = "flushed" /\ comp' = "idle"
      /\ adrift' = overlap /\ node # "down"
  BY <1>1 DEF TruncateJournal, WorkOK
<1>4. Unindexed' = Unindexed /\ Deleting' = Deleting /\ Committed' = Committed
  BY <1>2 DEF Unindexed, Deleting, Working, Committed
<1>5. Excepted' = Excepted
  BY <1>2, <1>4 DEF Excepted
<1>6. Committed \ (Excepted \cup Unindexed \cup failed) \subseteq Listed(tracker)
  BY <1>1, <1>3 DEF NothingForgotten, NoneMissing
<1>7. /\ Unindexed \cup failed \subseteq overlap
      /\ Committed \ (Excepted \cup overlap) \subseteq Listed(snap.tracker)
  BY <1>1, <1>3 DEF NothingForgotten, SnapshotHas
<1>8. TrackerTypeOK'
  <2>1. journal' \in [Ids -> Nat]
    BY <1>3 DEF NoRecords
  <2> QED BY <1>1, <1>2, <1>3, <2>1 DEF TrackerTypeOK
<1>9. WorkOK'
  BY <1>1, <1>2, <1>3 DEF WorkOK
<1>10. ReadsFresh'
  BY <1>1, <1>2 DEF ReadsFresh
<1>11. NoneMissing'
  BY <1>2, <1>4, <1>5, <1>6 DEF NoneMissing
<1>12. Recovered'
  BY <1>2, <1>3, <1>4, <1>5, <1>7 DEF Recovered
<1>13. JournalHas'
  BY <1>2, <1>3, <1>4, <1>7 DEF JournalHas
<1>14. SnapshotHas'
  BY <1>3 DEF SnapshotHas
<1> QED BY <1>8, <1>9, <1>10, <1>11, <1>12, <1>13, <1>14 DEF ListInv, NothingForgotten

LEMMA CrashKeeps ==
  ASSUME ListInv, ~unique, Crash PROVE ListInv'
<1>1. WorkOK /\ ReadsFresh /\ TrackerTypeOK /\ NothingForgotten
  BY DEF ListInv
<1>2. UNCHANGED <<journal, snap, history, deleted, raced>>
  BY DEF Crash, files
<1>3. /\ node' = "down" /\ comp' = "idle" /\ tracker' = EmptyTracker /\ seq' = 0
      /\ task' = [t \in Tasks |-> Idle]
      /\ revivable' = revivable \cup deleted \cup Deleting /\ lost' = lost \cup adrift
      /\ failed' = {} /\ overlap' = {} /\ adrift' = {}
  BY DEF Crash
<1>4. \A t \in Tasks : task'[t] = Idle /\ task'[t].pc = "idle" /\ TaskOK(task'[t])
  BY <1>3, IdleIsOK
<1>5. Unindexed' = {} /\ Committed' = Committed
  BY <1>2, <1>4 DEF Unindexed, Working, Committed
<1>6. Excepted \cup adrift \subseteq Excepted'
  BY <1>2, <1>3 DEF Excepted
<1>7. TrackerTypeOK'
  <2>1. /\ counters' \in [writes : Nat, deletes : Nat, crashes : Nat, faults : Nat]
        /\ counters'.writes \in Nat
    <3>1. /\ counters \in [writes : Nat, deletes : Nat, crashes : Nat, faults : Nat]
          /\ counters' = [counters EXCEPT !.crashes = @ + 1]
      BY <1>1 DEF Crash, TrackerTypeOK
    <3> QED BY <3>1
  <2> QED BY <1>1, <1>2, <1>3, <2>1, EmptyIsTracker DEF TrackerTypeOK
<1>8. WorkOK'
  BY <1>3, <1>4 DEF WorkOK
<1>9. ReadsFresh'
  BY <1>4, IdleIsOK DEF ReadsFresh
<1>10. NoneMissing'
  BY <1>3 DEF NoneMissing
<1>11. Recovered'
  BY <1>1, <1>2, <1>5, <1>6 DEF NothingForgotten, Recovered
<1>12. JournalHas'
  BY <1>3, <1>5 DEF JournalHas
<1>13. SnapshotHas'
  BY <1>3 DEF SnapshotHas
<1> QED BY <1>7, <1>8, <1>9, <1>10, <1>11, <1>12, <1>13 DEF ListInv, NothingForgotten

LEMMA OpenKeeps ==
  ASSUME ListInv, ~unique, Open PROVE ListInv'
<1>1. WorkOK /\ ReadsFresh /\ TrackerTypeOK /\ NothingForgotten
  BY DEF ListInv
<1>2. UNCHANGED <<journal, snap, comp, seq, task, history, deleted, revivable, raced, failed, lost,
                  overlap, adrift, counters>>
  BY DEF Open, files, ghosts
<1>3. PICK R : R = {i \in Ids : journal[i] # 0}
  BY Zenon
<1>4. /\ node = "down" /\ node' \in {"up", "recovering"}
      /\ tracker' = IF R = {} THEN snap.tracker ELSE Rebuilt(snap.tracker, R)
  BY <1>3 DEF Open
<1>5. /\ \A t \in Tasks : task[t].pc = "idle"
      /\ failed = {} /\ comp = "idle" /\ adrift = {} /\ IsTracker(snap.tracker)
  BY <1>1, <1>4 DEF WorkOK, TrackerTypeOK
<1>6. IsTracker(tracker') /\ Listed(snap.tracker) \cup R \subseteq Listed(tracker')
  <2>1. CASE R = {}
    BY <1>4, <1>5, <2>1
  <2>2. CASE R # {}
    <3>1. R \in SUBSET Ids
      BY <1>3
    <3>2. /\ IsTracker(Rebuilt(snap.tracker, R))
          /\ Listed(snap.tracker) \cup R \subseteq Listed(Rebuilt(snap.tracker, R))
      BY <1>5, <3>1, RebuiltFacts
    <3> QED BY <1>4, <2>2, <3>2
  <2> QED BY <2>1, <2>2
<1>7. Unindexed' = Unindexed /\ Deleting' = Deleting /\ Committed' = Committed
  BY <1>2 DEF Unindexed, Deleting, Working, Committed
<1>8. Excepted' = Excepted
  BY <1>2, <1>7 DEF Excepted
<1>9. Committed \subseteq Ids
  BY <1>1 DEF TrackerTypeOK, Committed, Range
<1>10. Committed \ Excepted \subseteq Listed(tracker')
  BY <1>1, <1>3, <1>5, <1>6, <1>9 DEF NothingForgotten, Recovered
<1>11. TrackerTypeOK'
  BY <1>1, <1>2, <1>4, <1>6 DEF TrackerTypeOK
<1>12. WorkOK'
  BY <1>1, <1>2, <1>4, <1>5 DEF WorkOK
<1>13. ReadsFresh'
  BY <1>2, <1>5 DEF ReadsFresh, FreshRead
<1>14. NoneMissing'
  BY <1>2, <1>7, <1>8, <1>10 DEF NoneMissing
<1>15. Recovered' /\ JournalHas' /\ SnapshotHas'
  BY <1>1, <1>2, <1>7, <1>8 DEF NothingForgotten, Recovered, JournalHas, SnapshotHas
<1> QED BY <1>11, <1>12, <1>13, <1>14, <1>15 DEF ListInv, NothingForgotten

----------------------------------------------------------------------------
LEMMA ListInvInit == Init => LInv
<1> SUFFICES ASSUME Init, ~unique PROVE ListInv
  BY DEF LInv
<1>1. \A t \in Tasks : task[t] = Idle /\ task[t].pc = "idle" /\ TaskOK(task[t])
  BY IdleIsOK DEF Init
<1>2. Unindexed = {} /\ Committed = {}
  BY <1>1 DEF Unindexed, Working, Committed, Init, Range
<1>3. TrackerTypeOK
  <2>1. journal \in [Ids -> Nat] /\ history \in Seq(Ids)
    BY DEF Init, NoRecords
  <2> QED BY <2>1, EmptyIsTracker DEF TrackerTypeOK, Init
<1>4. WorkOK
  BY <1>1 DEF WorkOK, Init
<1>5. ReadsFresh
  BY <1>1, IdleIsOK DEF ReadsFresh
<1>6. NothingForgotten
  BY <1>2 DEF NothingForgotten, NoneMissing, Recovered, JournalHas, SnapshotHas, Init
<1> QED BY <1>3, <1>4, <1>5, <1>6 DEF ListInv

LEMMA ListInvStep == LInv /\ [Next]_vars => LInv'
<1> SUFFICES ASSUME LInv, [Next]_vars, ~unique' PROVE ListInv'
  BY SMTT(30) DEF LInv
<1>1. unique' = unique
  BY DEF Next, BeginWrite, JournalWrite, StoreRecord, SetSingle, ReadHead, SealSegment, WriteHead,
         IndexFails, BeginDelete, RemoveOpen, ScanSegment, RewriteSegment, FlushSnapshot,
         TruncateJournal, Crash, Open, vars
<1>2. ~unique /\ ListInv
  BY <1>1 DEF LInv
<1>3. ASSUME NEW t \in Tasks, SetSingle(t) PROVE FALSE
  BY <1>2, <1>3 DEF SetSingle
<1>4. CASE UNCHANGED vars
  <2>1. UNCHANGED <<journal, snap, tracker, node, comp, seq, task, counters>>
        /\ UNCHANGED <<history, deleted, revivable, raced, failed, overlap, adrift, lost>>
    BY <1>4 DEF vars, files, table, ghosts
  <2>2. Unindexed' = Unindexed /\ Deleting' = Deleting /\ Committed' = Committed
    BY <2>1 DEF Unindexed, Deleting, Working, Committed
  <2>3. Excepted' = Excepted
    BY <2>1, <2>2 DEF Excepted
  <2>4. TrackerTypeOK' /\ WorkOK' /\ ReadsFresh'
    BY <1>2, <2>1 DEF ListInv, TrackerTypeOK, WorkOK, ReadsFresh
  <2>5. NothingForgotten'
    BY <1>2, <2>1, <2>2, <2>3
       DEF ListInv, NothingForgotten, NoneMissing, Recovered, JournalHas, SnapshotHas
  <2> QED BY <2>4, <2>5 DEF ListInv
<1>5. CASE Next
  BY <1>2, <1>3, <1>5, BeginWriteKeeps, JournalWriteKeeps, StoreRecordKeeps, ReadHeadKeeps,
     SealSegmentKeeps, WriteHeadKeeps, IndexFailsKeeps, BeginDeleteKeeps, RemoveOpenKeeps,
     ScanSegmentKeeps, RewriteSegmentKeeps, FlushSnapshotKeeps, TruncateJournalKeeps, CrashKeeps,
     OpenKeeps DEF Next
<1> QED BY <1>4, <1>5

\* commit_write, index_committed, live_remove, compact_journal and live_rebuild
\* together: from the moment a write is in the journal, and at every step of every
\* handler, compaction, crash and recovery, the saved tracker or the journal has its
\* id, apart from the ids that a delete, a stale read or an overlapping compaction
\* touched.
THEOREM ListIsRecoverable == Spec => []ListRecoverable
<1>1. LInv => ListRecoverable
  BY DEF LInv, ListInv, NothingForgotten, Recovered, ListRecoverable, Excepted
<1> QED BY <1>1, ListInvInit, ListInvStep, PTL DEF Spec

\* A running node serves every record whose write was acknowledged and indexed: no
\* append, seal, removal, failed update, crash or rebuild drops another record's id,
\* apart from the ids that a delete, a stale read or an overlapping compaction touched.
THEOREM CommittedIsListed == Spec => [](~unique => NoneMissing)
<1>1. LInv => (~unique => NoneMissing)
  BY DEF LInv, ListInv, NothingForgotten
<1> QED BY <1>1, ListInvInit, ListInvStep, PTL DEF Spec

=============================================================================
