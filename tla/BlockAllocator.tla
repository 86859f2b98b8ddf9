--------------------------- MODULE BlockAllocator ---------------------------
(***************************************************************************)
(* The allocator of the data file's 4 KiB blocks and the file length that  *)
(* BlockFile keeps in step with it.                                        *)
(*                                                                         *)
(* by_start and by_len hold the same free extents under two orders and are *)
(* only changed together (insert_free, remove_free), so one set stands for *)
(* both.  used is what the callers hold: the runs handed out and not yet   *)
(* freed, which a reopen gets back from the page journal's ledger.         *)
(***************************************************************************)
EXTENDS Integers

CONSTANTS MaxBlocks,   \* bound: blocks the file may span
          MaxRun       \* bound: blocks in one request

ASSUME BoundsAreNatural == MaxBlocks \in Nat /\ MaxRun \in Nat

VARIABLES capacity, extents, used

vars == <<capacity, extents, used>>

BlockRun == [start : Nat, len : Nat \ {0}]
Run(s, n) == [start |-> s, len |-> n]
End(r) == r.start + r.len
Disjoint(r, q) == End(r) <= q.start \/ End(q) <= r.start

----------------------------------------------------------------------------
(* Operators of the allocator, on a set of free extents fs.                *)

\* The first entry of by_len at or above n blocks: the shortest extent that
\* fits and, among those, the first.
BestFit(fs, e, n) ==
  /\ e.len >= n
  /\ \A f \in fs : f.len >= n => e.len < f.len \/ (e.len = f.len /\ e.start <= f.start)

\* tail_free: the last extent, if it ends where the file does.
TailFree(fs, cap) ==
  {e \in fs : End(e) = cap /\ \A f \in fs : f.start <= e.start}

\* The neighbours that free merges with the run it returns: the last extent
\* before it, if it ends there, and the extent that starts at its end.
LeftOf(fs, r) ==
  {e \in fs : /\ e.start < r.start /\ End(e) = r.start
              /\ \A f \in fs : f.start < r.start => f.start <= e.start}
RightOf(fs, r) == {e \in fs : e.start = End(r)}

Freed(fs, r) ==
  LET s == IF LeftOf(fs, r) = {} THEN r.start
           ELSE (CHOOSE e \in LeftOf(fs, r) : TRUE).start
      t == IF RightOf(fs, r) = {} THEN End(r)
           ELSE End(CHOOSE e \in RightOf(fs, r) : TRUE)
  IN  (fs \ (LeftOf(fs, r) \cup RightOf(fs, r))) \cup {Run(s, t - s)}

\* An extent e with the run r cut out of it.
Carved(fs, e, r) ==
  (fs \ {e}) \cup {p \in {Run(e.start, r.start - e.start), Run(End(r), End(e) - End(r))} :
                     p.len > 0}

\* from_used_runs: the gaps a sweep over the sorted used runs leaves, from 0 or
\* the end of a run up to the next run or the capacity.
MutFromUsedRuns(cap, runs) ==
  {g \in [start : {0} \cup {End(u) : u \in runs}, len : 1..cap] :
     /\ End(g) \in {u.start : u \in runs}
     /\ \A u \in runs : Disjoint(g, u)}
FromUsedRuns(cap, runs) ==
  {g \in [start : {0} \cup {End(u) : u \in runs}, len : 1..cap] :
     /\ End(g) \in {cap} \cup {u.start : u \in runs}
     /\ \A u \in runs : Disjoint(g, u)}

----------------------------------------------------------------------------
(* Operations.                                                             *)

\* allocate, when an extent fits: the rest of it goes back to the pool.
MutAllocateFit(n) ==
  \E e \in extents :
    /\ BestFit(extents, e, n)
    /\ extents' = (extents \ {e}) \cup
                  (IF e.len > n THEN {Run(e.start + n - 1, e.len - n)} ELSE {})
    /\ used' = used \cup {Run(e.start, n)}
    /\ UNCHANGED capacity
AllocateFit(n) ==
  \E e \in extents :
    /\ BestFit(extents, e, n)
    /\ extents' = Carved(extents, e, Run(e.start, n))
    /\ used' = used \cup {Run(e.start, n)}
    /\ UNCHANGED capacity

\* allocate, when none fits: a free tail is extended, else the file grows.
AllocateTail(n) ==
  /\ \A f \in extents : f.len < n
  /\ \E e \in TailFree(extents, capacity) :
       /\ e.start + n <= MaxBlocks
       /\ extents' = extents \ {e}
       /\ capacity' = e.start + n
       /\ used' = used \cup {Run(e.start, n)}

AllocateGrow(n) ==
  /\ \A f \in extents : f.len < n
  /\ TailFree(extents, capacity) = {}
  /\ capacity + n <= MaxBlocks
  /\ capacity' = capacity + n
  /\ used' = used \cup {Run(capacity, n)}
  /\ UNCHANGED extents

\* free, by the holder of the run.
Free(r) ==
  /\ extents' = Freed(extents, r)
  /\ used' = used \ {r}
  /\ UNCHANGED capacity

\* reserve: an exact run, in blocks that are free once the file spans it (the
\* code panics otherwise).
Reserve(r) ==
  LET grown == IF End(r) > capacity
               THEN Freed(extents, Run(capacity, End(r) - capacity)) ELSE extents
  IN  /\ \A u \in used : Disjoint(r, u)
      /\ End(r) <= MaxBlocks
      /\ capacity' = IF End(r) > capacity THEN End(r) ELSE capacity
      /\ \E e \in grown :
           /\ e.start <= r.start /\ End(r) <= End(e)
           /\ extents' = Carved(grown, e, r)
      /\ used' = used \cup {r}

\* truncate, with the set_len that follows it.
Truncate ==
  \E e \in TailFree(extents, capacity) :
    /\ extents' = extents \ {e}
    /\ capacity' = e.start
    /\ UNCHANGED used

\* BlockFile::open after a restart: the capacity is the length of the file.
Reopen ==
  /\ extents' = FromUsedRuns(capacity, used)
  /\ UNCHANGED <<capacity, used>>

Init == capacity = 0 /\ extents = {} /\ used = {}

Next ==
  \/ \E n \in 1..MaxRun : AllocateFit(n)
  \/ \E n \in 1..MaxRun : AllocateTail(n)
  \/ \E n \in 1..MaxRun : AllocateGrow(n)
  \/ \E r \in used : Free(r)
  \/ \E s \in 0..MaxBlocks, n \in 1..MaxRun : Reserve(Run(s, n))
  \/ Truncate
  \/ Reopen

Spec == Init /\ [][Next]_vars

----------------------------------------------------------------------------
(* Properties.                                                             *)

\* Extents and runs are never empty: insert_free, carve and merge drop the
\* zero-length pieces.
TypeOK ==
  /\ capacity \in Nat
  /\ extents \in SUBSET BlockRun
  /\ used \in SUBSET BlockRun

Covers(r, b) == r.start <= b /\ b < End(r)

\* "Blocks [0, capacity) are either allocated or in a free extent": every block
\* of the file is in exactly one extent or run, and none of them reaches past
\* the end.  A block handed out twice, or leaked by a merge, a carve or a
\* truncate, breaks it.
Partition ==
  /\ \A r \in extents \cup used : End(r) <= capacity
  /\ \A r, q \in extents \cup used : r # q => Disjoint(r, q)
  /\ extents \cap used = {}
  /\ \A b \in 0..(capacity - 1) : \E r \in extents \cup used : Covers(r, b)

\* "Maximal, non-overlapping extents": no two free extents touch, however the
\* frees, reserves and truncates were ordered.  truncate relies on it to
\* reclaim the whole free tail in one call.
Maximal ==
  \A e, f \in extents : e # f => End(e) < f.start \/ End(f) < e.start

\* Reopening loses nothing: inverting the runs in use gives back exactly the
\* extents the running allocator had.
RebuildAgrees == FromUsedRuns(capacity, used) = extents
=============================================================================
