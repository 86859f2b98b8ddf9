------------------------------ MODULE DataFile ------------------------------
(***************************************************************************)
(* The page table behind a node: pages picked by a hash, a second page     *)
(* when the first is full, and a rebalance that grows the table while      *)
(* writers go on.  A writer whose insert trips the fill threshold, or      *)
(* finds both pages full, runs the rebalance itself; one at a time does.   *)
(* Every access to the pages takes the page lock anew and the page count   *)
(* is read outside it, so a rebalance is many steps and writers, flushes   *)
(* and restarts come between any two of them.                              *)
(*                                                                         *)
(* A value is the number of the write that stored it, 0 for none.          *)
(***************************************************************************)
EXTENDS Naturals, SequencesExt, FiniteSetsExt

CONSTANTS
  Keys,         \* the u128 keys in use: anchors, trackers, records, heap anchors
  Hash,         \* per key the mixed hash its route key gives
  Probe,        \* per key the mixed hash of the double-hash step
  Count0,       \* page count of a new file
  Capacity,     \* bytes of a page behind its header
  EntryCost,    \* DirEntry::SIZE
  Sizes,        \* sizes of the stored bytes
  Writers,      \* writing threads
  MaxWrites,    \* bound: writes
  MaxFlushes,   \* bound: snapshots
  MaxRestarts   \* bound: restarts

ASSUME Limits ==
  /\ Count0 \in Nat \ {0} /\ Capacity \in Nat /\ EntryCost \in Nat /\ Sizes \subseteq Nat
  /\ Hash \in [Keys -> Nat] /\ Probe \in [Keys -> Nat]
  /\ MaxWrites \in Nat /\ MaxFlushes \in Nat /\ MaxRestarts \in Nat

Values == 0..MaxWrites

VARIABLES
  pages,      \* the page vector, from index 0
  count,      \* page_count
  previous,   \* previous_page_counts
  latch,      \* rebalancing
  cache,      \* per key the value the cache holds, 0 for none
  task,       \* per writer its step and its locals
  snap,       \* data.bin, with what the table held when it was written
  \* history, for the properties
  latest,     \* per key the value last put on a page
  adrift,     \* keys whose page copy is not, or not the only, newest one
  raced,      \* keys two writers stored before either reached the cache
  counters

table == <<pages, count, previous>>
ghosts == <<latest, adrift, raced>>
vars == <<table, latch, cache, task, snap, ghosts, counters>>

----------------------------------------------------------------------------
(* One page.                                                               *)

\* bytes is the page's counter in page_bytes, which only grows.
EmptyPage == [dir |-> <<>>, used |-> 0, bytes |-> 0]
Entry(k, v, s) == [id |-> k, val |-> v, size |-> s]

\* Page::lookup returns the first directory match.
PageLookup(p, k) ==
  LET hits == SelectSeq(p.dir, LAMBDA e : e.id = k)
  IN  IF hits = <<>> THEN 0 ELSE Head(hits).val

\* Page::remove drops the directory entries and leaves the bytes.
PageRemove(p, k) == [p EXCEPT !.dir = SelectSeq(@, LAMBDA e : e.id # k)]

Fits(p, s) == Capacity - p.used >= EntryCost + s
PageInsert(p, e) ==
  [dir |-> Append(p.dir, e), used |-> p.used + e.size, bytes |-> p.bytes + e.size]

LiveBytes(p) == FoldLeft(LAMBDA n, e : n + e.size, 0, p.dir)
Compact(p) == [p EXCEPT !.used = LiveBytes(p)]

\* Page::upsert.  The old entry is gone even when the new one does not fit.
Upsert(p, e) ==
  LET r == PageRemove(p, e.id)
  IN  IF Fits(r, e.size) THEN [ok |-> TRUE, page |-> PageInsert(r, e)]
      ELSE IF LiveBytes(r) + e.size + (Len(r.dir) + 1) * EntryCost > Capacity
           THEN [ok |-> FALSE, page |-> r]
      ELSE [ok |-> TRUE, page |-> PageInsert(Compact(r), e)]

----------------------------------------------------------------------------
(* Routing.                                                                *)

PageIndex(k, n) == Hash[k] % n

\* double_hash_step: odd, and 1 for a table of one page.
DoubleHashStep(k, n) ==
  IF n <= 1 THEN 1 ELSE LET s == Probe[k] % n IN IF s % 2 = 0 THEN s + 1 ELSE s

FallbackIndex(k, n) == (PageIndex(k, n) + DoubleHashStep(k, n)) % n

\* lookup_at_key at one page count.
TryAt(pgs, k, n) ==
  LET v == PageLookup(pgs[PageIndex(k, n)], k)
  IN  IF v # 0 THEN v ELSE PageLookup(pgs[FallbackIndex(k, n)], k)

\* lookup_at_key: the current page count, then the older ones, newest first.
MutLookupAtKey(pgs, n, prev, k) == TryAt(pgs, k, n)
LookupAtKey(pgs, n, prev, k) ==
  LET found == SelectSeq([i \in 1..(Len(prev) + 1) |->
                            TryAt(pgs, k, IF i = 1 THEN n ELSE prev[Len(prev) + 2 - i])],
                         LAMBDA v : v # 0)
  IN  IF found = <<>> THEN 0 ELSE Head(found)

Lookup(k) == LookupAtKey(pages, count, previous, k)

\* read_full_id, read_unique_anchor, read_heap_anchor: the cache first.
Read(k) == IF cache[k] # 0 THEN cache[k] ELSE Lookup(k)

----------------------------------------------------------------------------
Idle == [pc |-> "idle", key |-> CHOOSE k \in Keys : TRUE, val |-> 0, size |-> 0, n |-> 0,
         retry |-> FALSE, old |-> 0, grown |-> 0, todo |-> <<>>, page |-> 0,
         moves |-> <<>>]

Init ==
  /\ pages = [i \in 0..(Count0 - 1) |-> EmptyPage]
  /\ count = Count0 /\ previous = <<>> /\ latch = FALSE
  /\ cache = [k \in Keys |-> 0]
  /\ task = [w \in Writers |-> Idle]
  /\ latest = [k \in Keys |-> 0] /\ adrift = {} /\ raced = {}
  /\ snap = [pages |-> pages, count |-> count, map |-> latest, adrift |-> {}]
  /\ counters = [writes |-> 0, flushes |-> 0, restarts |-> 0]

At(w, pc) == task[w].pc = pc
Goto(w, pc) == task' = [task EXCEPT ![w].pc = pc]
Done(w) == task' = [task EXCEPT ![w] = Idle]

Copies(k) == FoldFunction(LAMBDA p, n : n + Len(SelectSeq(p.dir, LAMBDA e : e.id = k)), 0, pages')
BeingMoved == UNION {{m.id : m \in Range(task[w].moves)} : w \in Writers}

----------------------------------------------------------------------------
(* insert_at_key and the typed writes around it.                           *)

BeginWrite(w, k, s) ==
  /\ At(w, "idle") /\ counters.writes < MaxWrites
  /\ counters' = [counters EXCEPT !.writes = @ + 1]
  /\ task' = [task EXCEPT ![w] = [Idle EXCEPT !.pc = "load", !.key = k, !.size = s,
                                               !.val = counters.writes + 1]]
  /\ UNCHANGED <<table, latch, cache, snap, ghosts>>

\* try_insert_at_key reads the page count before it takes the page lock.
LoadCount(w) ==
  /\ At(w, "load")
  /\ task' = [task EXCEPT ![w].pc = "insert", ![w].n = count]
  /\ UNCHANGED <<table, latch, cache, snap, ghosts, counters>>

\* The rest of try_insert_at_key, under the page lock: the pages and whether it
\* succeeded.
Inserted(e, n) ==
  LET p == PageIndex(e.id, n)
      a == FallbackIndex(e.id, n)
      first == Upsert(pages[p], e)
      tried == [pages EXCEPT ![p] = first.page]
      second == Upsert(tried[a], e)
  IN  IF first.ok THEN [ok |-> TRUE, pages |-> tried]
      ELSE [ok |-> second.ok, pages |-> [tried EXCEPT ![a] = second.page]]

\* The page copy of the key of w is the only one, and lookups reach it.
Settled(w) == task[w].n = count /\ Copies(task[w].key) = 1 /\ task[w].key \notin BeingMoved

TryInsert(w) ==
  LET t == task[w]
      r == Inserted(Entry(t.key, t.val, t.size), t.n)
  IN  /\ At(w, "insert")
      /\ pages' = r.pages
      /\ \/ /\ r.ok
            /\ task' = [task EXCEPT ![w].pc = IF t.retry THEN "cache" ELSE "fill", ![w].n = 0]
            /\ latest' = [latest EXCEPT ![t.key] = t.val]
            /\ adrift' = IF Settled(w) THEN adrift \ {t.key} ELSE adrift \cup {t.key}
            /\ raced' = IF \E u \in Writers \ {w} : task[u].key = t.key /\ task[u].pc # "idle"
                        THEN raced \cup {t.key} ELSE raced
         \/ /\ ~r.ok /\ t.retry
            /\ Done(w)
            /\ adrift' = adrift \cup {t.key}
            /\ UNCHANGED <<latest, raced>>
         \/ /\ ~r.ok /\ ~t.retry
            /\ task' = [task EXCEPT ![w].pc = "grow", ![w].n = 0, ![w].retry = TRUE]
            /\ adrift' = adrift \cup {t.key}
            /\ UNCHANGED <<latest, raced>>
      /\ UNCHANGED <<count, previous, latch, cache, snap, counters>>

\* fill_ratio against REBALANCE_FILL_THRESHOLD, three quarters.
UsedPages == Cardinality({i \in DOMAIN pages : pages[i].dir # <<>>})
CheckFill(w) ==
  /\ At(w, "fill")
  /\ Goto(w, IF 4 * UsedPages >= 3 * count THEN "grow" ELSE "cache")
  /\ UNCHANGED <<table, latch, cache, snap, ghosts, counters>>

\* put_versioned or put_anchor, the end of every typed write.
CachePut(w) ==
  /\ At(w, "cache")
  /\ cache' = [cache EXCEPT ![task[w].key] = task[w].val]
  /\ Done(w)
  /\ UNCHANGED <<table, latch, snap, ghosts, counters>>

----------------------------------------------------------------------------
(* rebalance.                                                              *)

\* Back to the caller: Ok, or an Err that only the PageFull path passes on.
Caller(w, pc) == [Idle EXCEPT !.pc = pc, !.key = task[w].key, !.val = task[w].val,
                               !.size = task[w].size, !.retry = task[w].retry]
AfterOk(w) == Caller(w, IF task[w].retry THEN "load" ELSE "cache")
AfterErr(w) == IF task[w].retry THEN Idle ELSE Caller(w, "cache")

\* Another writer is at it.
JoinRebalance(w) ==
  /\ At(w, "grow") /\ latch
  /\ task' = [task EXCEPT ![w] = AfterOk(w)]
  /\ UNCHANGED <<table, latch, cache, snap, ghosts, counters>>

\* The growth factor is 1.75.
NewCount == Max({(count * 7 + 3) \div 4, count + 1})

StartRebalance(w) ==
  /\ At(w, "grow") /\ ~latch
  /\ latch' = TRUE
  /\ previous' = Append(previous, count)
  /\ task' = [task EXCEPT ![w].pc = "extend", ![w].old = count, ![w].grown = NewCount]
  /\ UNCHANGED <<pages, count, cache, snap, ghosts, counters>>

ExtendPages(w) ==
  /\ At(w, "extend")
  /\ pages' = [i \in 0..(task[w].grown - 1) |-> IF i < task[w].old THEN pages[i] ELSE EmptyPage]
  /\ Goto(w, "publish")
  /\ UNCHANGED <<count, previous, latch, cache, snap, ghosts, counters>>

PublishCount(w) ==
  /\ At(w, "publish")
  /\ count' = task[w].grown
  /\ Goto(w, "order")
  /\ UNCHANGED <<pages, previous, latch, cache, snap, ghosts, counters>>

\* The old pages, the ones with most bytes first; the sort is stable.
FillOrder(w) ==
  /\ At(w, "order")
  /\ task' = [task EXCEPT ![w].pc = "walk",
       ![w].todo = SetToSortSeq(0..(task[w].old - 1),
                     LAMBDA i, j : \/ pages[i].bytes > pages[j].bytes
                                   \/ pages[i].bytes = pages[j].bytes /\ i < j)]
  /\ UNCHANGED <<table, latch, cache, snap, ghosts, counters>>

\* The first half of rebalance_one_page, under the read lock.
CollectMoves(w) ==
  LET i == Head(task[w].todo)
      leaving == SelectSeq(pages[i].dir, LAMBDA e : PageIndex(e.id, task[w].grown) # i)
  IN  /\ At(w, "walk") /\ task[w].todo # <<>>
      /\ task' = [task EXCEPT ![w].pc = IF leaving = <<>> THEN "walk" ELSE "move",
                              ![w].todo = Tail(@), ![w].page = IF leaving = <<>> THEN 0 ELSE i,
                              ![w].moves = leaving]
      /\ UNCHANGED <<table, latch, cache, snap, ghosts, counters>>

\* Its second half: one move under the write lock, into the new slot and then
\* out of the old one.  A full slot ends the rebalance.
MutMoveOne(w) ==
  LET e == Head(task[w].moves)
      to == PageIndex(e.id, task[w].grown)
      rest == Tail(task[w].moves)
  IN  /\ At(w, "move")
      /\ pages' = [pages EXCEPT ![to] = IF Fits(@, e.size) THEN PageInsert(@, e) ELSE @,
                                ![task[w].page] = PageRemove(@, e.id)]
      /\ task' = [task EXCEPT ![w].pc = IF rest = <<>> THEN "walk" ELSE "move", ![w].moves = rest]
      /\ UNCHANGED <<count, previous, latch, cache, snap, ghosts, counters>>
MoveOne(w) ==
  LET e == Head(task[w].moves)
      to == PageIndex(e.id, task[w].grown)
      rest == Tail(task[w].moves)
  IN  /\ At(w, "move")
      /\ \/ /\ Fits(pages[to], e.size)
            /\ pages' = [pages EXCEPT ![to] = PageInsert(@, e),
                                      ![task[w].page] = PageRemove(@, e.id)]
            /\ task' = [task EXCEPT ![w].pc = IF rest = <<>> THEN "walk" ELSE "move",
                                    ![w].moves = rest]
            /\ UNCHANGED latch
         \/ /\ ~Fits(pages[to], e.size)
            /\ latch' = FALSE
            /\ task' = [task EXCEPT ![w] = AfterErr(w)]
            /\ UNCHANGED pages
      /\ UNCHANGED <<count, previous, cache, snap, ghosts, counters>>

FinishRebalance(w) ==
  /\ At(w, "walk") /\ task[w].todo = <<>>
  /\ previous' = SelectSeq(previous, LAMBDA c : c # task[w].old)
  /\ latch' = FALSE
  /\ task' = [task EXCEPT ![w] = AfterOk(w)]
  /\ UNCHANGED <<pages, count, cache, snap, ghosts, counters>>

Rebalance(w) ==
  \/ JoinRebalance(w) \/ StartRebalance(w) \/ ExtendPages(w) \/ PublishCount(w)
  \/ FillOrder(w) \/ CollectMoves(w) \/ MoveOne(w) \/ FinishRebalance(w)

----------------------------------------------------------------------------
(* The snapshot.                                                           *)

\* flush, under the read lock: the pages and the page count.  The older counts
\* are not written, so what a rebalance has yet to move is adrift in the file.
Flush ==
  /\ counters.flushes < MaxFlushes
  /\ counters' = [counters EXCEPT !.flushes = @ + 1]
  /\ snap' = [pages |-> pages, count |-> count, map |-> latest,
              adrift |-> IF previous = <<>> THEN adrift ELSE Keys]
  /\ UNCHANGED <<table, latch, cache, task, ghosts>>

\* The process ends and open_on_disk reads the file: reload_from_disk drops a
\* page beyond the page count.
Restart ==
  /\ counters.restarts < MaxRestarts
  /\ counters' = [counters EXCEPT !.restarts = @ + 1]
  /\ pages' = [i \in 0..(snap.count - 1) |->
              [snap.pages[i] EXCEPT !.bytes = LiveBytes(snap.pages[i])]]
  /\ count' = snap.count /\ previous' = <<>> /\ latch' = FALSE
  /\ cache' = [k \in Keys |-> 0]
  /\ task' = [w \in Writers |-> Idle]
  /\ latest' = snap.map /\ adrift' = snap.adrift /\ raced' = {}
  /\ UNCHANGED snap

Step(w) ==
  LoadCount(w) \/ TryInsert(w) \/ CheckFill(w) \/ CachePut(w) \/ Rebalance(w)

Next ==
  \/ \E w \in Writers : Step(w) \/ \E k \in Keys, s \in Sizes : BeginWrite(w, k, s)
  \/ Flush \/ Restart

Spec == Init /\ [][Next]_vars

----------------------------------------------------------------------------
(* Properties.                                                             *)

PageType(p) == p.used \in Nat /\ \A e \in Range(p.dir) : e.id \in Keys /\ e.val \in Values \ {0}

\* TypeOK: pages hold entries of known keys, and counts are positive.
TypeOK ==
  /\ count \in Nat \ {0} /\ previous \in Seq(Nat) /\ latch \in BOOLEAN
  /\ \A i \in DOMAIN pages : PageType(pages[i])
  /\ cache \in [Keys -> Values] /\ latest \in [Keys -> Values]
  /\ adrift \subseteq Keys /\ raced \subseteq Keys

\* Whatever a rebalance has moved so far, a lookup on the pages finds the value
\* last stored, for every key whose writes did not overlap a rehash, fail, or
\* leave a second copy behind (lookup_at_key, rebalance).
LookupLatest == \A k \in Keys \ adrift : Lookup(k) = latest[k]

\* A read goes to the cache first.  It returns the value last stored when no
\* write of the key is between its page and the cache and none raced another,
\* even for a key that is adrift on the pages (read_full_id).
ReadLatest ==
  \A k \in Keys \ raced :
    (cache[k] # 0 /\ \A w \in Writers : task[w].key = k => At(w, "idle")) => Read(k) = latest[k]

\* Every index a thread may compute is inside the page vector: the current
\* count, the older counts and the counts threads have loaded (the order of
\* steps 2 and 3 of rebalance; an index out of bounds panics).
ProbesInBounds ==
  \A n \in {count} \cup Range(previous) \cup {task[w].n : w \in Writers} :
    n <= Cardinality(DOMAIN pages)

\* The latch is held by exactly one writer, which is inside rebalance
\* (the swap on `rebalancing`).
Rebalancing == {w \in Writers : task[w].pc \in {"extend", "publish", "order", "walk", "move"}}
SingleFlight == Cardinality(Rebalancing) = IF latch THEN 1 ELSE 0

\* The table as a whole: pages and cache answer with the last value, one writer
\* rebalances, and no index leaves the page vector.
TableSound == LookupLatest /\ ReadLatest /\ SingleFlight /\ ProbesInBounds

\* The table implements the durable map: for the keys that are not adrift a
\* read changes only with the page insert of a write, and a restart goes back
\* to what the snapshot saved.  No step of a rebalance is visible.
Visible(k) == IF k \in adrift THEN latest[k] ELSE Lookup(k)
OnDisk(k) == IF k \in snap.adrift THEN snap.map[k]
             ELSE LookupAtKey(snap.pages, snap.count, <<>>, k)
Map == INSTANCE DurableMap WITH store <- [k \in Keys |-> Visible(k)],
                                saved <- [k \in Keys |-> OnDisk(k)]
ImplementsMap == Map!Spec

\* data.rs:549 promises that the freshest copy wins when the same id was rewritten under
\* multiple sizes, and page.rs that a second write replaces the first: the
\* pages never answer with an older value than the last one stored.
NewestWins == \A k \in Keys : Lookup(k) \in {0, latest[k]}

\* data.rs: "a crash recovers the in-progress rehash".
RehashRecovers ==
  (adrift = {} /\ snap.map = latest) =>
    \A k \in Keys : LookupAtKey(snap.pages, snap.count, <<>>, k) = latest[k]

\* data.rs: the page count is "always a power of two", which makes the odd
\* double-hash step lead to another page.
SecondPageDiffers == count > 1 => \A k \in Keys : FallbackIndex(k, count) # PageIndex(k, count)
=============================================================================
