------------------------------- MODULE Heap -------------------------------
(***************************************************************************)
(* The content-addressed heap file (heap.rs) behind the heap anchors of    *)
(* the data file (file/data.rs), as NodeStorage drives it.                 *)
(*                                                                         *)
(* An entry holds a value once, with the list of the records that own it.  *)
(* Its blocks follow from its length: an owner that does not fit extends   *)
(* the entry at the tail of the file or moves it there, and the anchor is  *)
(* repointed.  NodeStorage holds the heap mutex for a whole call, so a     *)
(* call is one action; only the two files are written at different times.  *)
(*                                                                         *)
(* The heap is a length in blocks and the entries by start block.  Lengths *)
(* are in units: a value takes Base of them with its headers, an owner     *)
(* one, a block BlockSize.  Content hashes are taken to be distinct: a     *)
(* collision is an error that changes nothing.                             *)
(***************************************************************************)
EXTENDS Naturals, Sequences, Functions

CONSTANTS Contents, Owners, Base, BlockSize, MaxHeapBlocks,
          MaxCalls, MaxFlushes, MaxFaults, MaxRestarts

ASSUME Limits == /\ {Base, BlockSize, MaxHeapBlocks} \subseteq Nat \ {0}
                 /\ {MaxCalls, MaxFlushes, MaxFaults, MaxRestarts} \subseteq Nat

VARIABLES
  heap,       \* HeapFile::buffer: [len, at], at from start blocks to entries
  freed,      \* HeapFile::freed
  anchor,     \* the heap anchors of the page table, by content
  heapBin,    \* heap.bin
  dataBin,    \* the anchors of data.bin
  claims,     \* history: who stored each content and has not released it
  claimsBin,  \* history: claims and anchors when heap.bin was written
  ordered,    \* history: heap.bin was written after data.bin
  stale,      \* history: contents whose two files differed at a restart
  dangling,   \* history: a restart read an anchor its heap.bin does not have
  calls, flushes, faults, restarts   \* counters, for the bounds

heapVars == <<heap, freed, anchor, heapBin, dataBin, claims, claimsBin, ordered,
          stale, dangling, calls, flushes, faults, restarts>>

-----------------------------------------------------------------------------
\* Where an anchor that is absent or tombstoned points.
NoBlock == MaxHeapBlocks

BlocksFor(n) == (n + BlockSize - 1) \div BlockSize

\* EntryView::used
Used(e) == Base + Len(e.owners)

Alloc(e) == BlocksFor(Used(e))

\* entry: parse and bounds-check.  A block inside another entry is an error
\* too; the code would read owner ids and padding there as a header.
Readable(h, b) == b \in DOMAIN h.at /\ b + Alloc(h.at[b]) <= h.len

\* read_decompressed of read_value: the value of a readable entry.
read_decompressed(h, b) == IF Readable(h, b) THEN {h.at[b].content} ELSE {}

Extent(h, b) == b .. b + Alloc(h.at[b]) - 1

Put(f, k, v) == [x \in DOMAIN f \cup {k} |-> IF x = k THEN v ELSE f[x]]

\* A new entry at the tail, with the owners of the entry that moves there.
append_relocated(h, c, owners) ==
  LET e == [content |-> c, owners |-> owners]
  IN [len |-> h.len + Alloc(e), at |-> Put(h.at, h.len, e)]

\* A new entry at the tail, with a single owner.
append_entry(h, c, o) == append_relocated(h, c, <<o>>)

-----------------------------------------------------------------------------
\* The blocks an entry moved from are wiped at once.
MutScrubMoved(h, b, o) ==
  LET e == h.at[b]
      more == [e EXCEPT !.owners = Append(@, o)]
      moved == append_relocated(h, e.content, more.owners)
  IN IF o \in Range(e.owners) THEN [heap |-> h, block |-> b, freed |-> <<>>]
     ELSE [heap |-> [moved EXCEPT !.at = [x \in DOMAIN @ \ {b} |-> @[x]]],
           block |-> h.len, freed |-> <<[start |-> b, blocks |-> Alloc(e)]>>]

\* add_owner: the heap it leaves, where the entry is now, what it frees.
AddOwner(h, b, o) ==
  LET e == h.at[b]
      more == [e EXCEPT !.owners = Append(@, o)]
      grows == Alloc(more) > Alloc(e)
      inPlace(n) == [len |-> h.len + n, at |-> [h.at EXCEPT ![b] = more]]
  IN IF o \in Range(e.owners) THEN [heap |-> h, block |-> b, freed |-> <<>>]
     ELSE IF ~grows THEN [heap |-> inPlace(0), block |-> b, freed |-> <<>>]
     ELSE IF b + Alloc(e) = h.len
       THEN [heap |-> inPlace(1), block |-> b, freed |-> <<>>]
     ELSE [heap |-> append_relocated(h, e.content, more.owners), block |-> h.len,
           freed |-> <<[start |-> b, blocks |-> Alloc(e)]>>]

\* The last owner is dropped in place of the one released.
MutSwapRemove(s, i) == SubSeq(s, 1, Len(s) - 1)

\* The swap-remove of remove_owner.
SwapRemove(s, i) == SubSeq([s EXCEPT ![i] = s[Len(s)]], 1, Len(s) - 1)

\* remove_owner: the heap it leaves, whether the entry died, what it frees.
RemoveOwner(h, b, o) ==
  LET e == h.at[b]
      left == SwapRemove(e.owners, CHOOSE i \in DOMAIN e.owners : e.owners[i] = o)
  IN IF o \notin Range(e.owners)
     THEN [heap |-> h, dead |-> e.owners = <<>>, freed |-> <<>>]
     ELSE [heap |-> [h EXCEPT !.at[b].owners = left], dead |-> left = <<>>,
           freed |-> IF left = <<>>
                     THEN <<[start |-> b, blocks |-> Alloc(e)]>> ELSE <<>>]

-----------------------------------------------------------------------------
Empty == [len |-> 0, at |-> <<>>]

Nobody == [c \in Contents |-> {}]

NoAnchors == [c \in Contents |-> NoBlock]

HeapInit ==
  /\ heap = Empty /\ heapBin = Empty
  /\ freed = <<>>
  /\ anchor = NoAnchors /\ dataBin = NoAnchors
  /\ claims = Nobody
  /\ claimsBin = [claims |-> Nobody, anchor |-> NoAnchors]
  /\ ordered = TRUE /\ stale = {} /\ dangling = FALSE
  /\ calls = 0 /\ flushes = 0 /\ faults = 0 /\ restarts = 0

\* What no call of store, release or take_freed changes.
files == <<heapBin, dataBin, claimsBin, ordered, dangling, flushes, restarts>>

Called == calls < MaxCalls /\ calls' = calls + 1

Flushed == flushes < MaxFlushes /\ flushes' = flushes + 1

\* The anchor write of a call, the data file's insert, succeeds or fails: on
\* failure the call returns with the heap already changed.
WriteAnchor(c, b) ==
  \/ anchor' = [anchor EXCEPT ![c] = b] /\ UNCHANGED <<faults, stale>>
  \/ /\ b # anchor[c] /\ faults < MaxFaults
     /\ faults' = faults + 1
     /\ stale' = stale \cup {c}
     /\ UNCHANGED anchor

\* dedup_store, no anchor: append an entry and write its anchor.
StoreNew(c, o) ==
  /\ anchor[c] = NoBlock
  /\ heap.len + BlocksFor(Base + 1) <= MaxHeapBlocks
  /\ heap' = append_entry(heap, c, o)
  /\ WriteAnchor(c, heap.len)
  /\ claims' = [claims EXCEPT ![c] = @ \cup {o}]
  /\ Called
  /\ UNCHANGED <<freed, files>>

\* dedup_store, anchor found: compare the bytes, list the owner, repoint the
\* anchor if the entry moved.  Other bytes, or none, are an error.
StoreShared(c, o) ==
  /\ anchor[c] # NoBlock
  /\ Readable(heap, anchor[c])
  /\ heap.at[anchor[c]].content = c
  /\ LET r == AddOwner(heap, anchor[c], o)
     IN /\ r.heap.len <= MaxHeapBlocks
        /\ heap' = r.heap
        /\ freed' = freed \o r.freed
        /\ WriteAnchor(c, r.block)
  /\ claims' = [claims EXCEPT ![c] = @ \cup {o}]
  /\ Called
  /\ UNCHANGED files

\* release_owner: the bytes are not compared.  The last owner frees the
\* blocks and tombstones the anchor.
Release(c, o) ==
  /\ anchor[c] # NoBlock
  /\ Readable(heap, anchor[c])
  /\ LET r == RemoveOwner(heap, anchor[c], o)
     IN /\ heap' = r.heap
        /\ freed' = freed \o r.freed
        /\ WriteAnchor(c, IF r.dead THEN NoBlock ELSE anchor[c])
  /\ claims' = [claims EXCEPT ![c] = @ \ {o}]
  /\ Called
  /\ UNCHANGED files

\* take_freed
TakeFreed ==
  /\ freed # <<>>
  /\ freed' = <<>>
  /\ UNCHANGED <<heap, anchor, claims, stale, calls, faults, files>>

\* flush_snapshot and compact_journal: data.bin only.
FlushSnapshot ==
  /\ dataBin # anchor
  /\ dataBin' = anchor
  /\ ordered' = FALSE
  /\ Flushed
  /\ UNCHANGED <<heap, freed, anchor, heapBin, claims, claimsBin, stale,
                 dangling, calls, faults, restarts>>

\* HeapFile::flush, which only open and a caller of the public handle use.
FlushHeap ==
  /\ ordered => heapBin # heap
  /\ heapBin' = heap
  /\ claimsBin' = [claims |-> claims, anchor |-> anchor]
  /\ ordered' = TRUE
  /\ Flushed
  /\ UNCHANGED <<heap, freed, anchor, dataBin, claims, stale, dangling, calls,
                 faults, restarts>>

Cut(h, n) == [len |-> n, at |-> [b \in {x \in DOMAIN h.at : x < n} |-> h.at[b]]]

\* std::fs::write rewrites the file in place, so a crash inside it leaves a
\* prefix of the buffer.
TornFlush(n) ==
  /\ n < heap.len /\ faults < MaxFaults
  /\ faults' = faults + 1
  /\ heapBin' = Cut(heap, n)
  /\ claimsBin' = [claims |-> claims, anchor |-> anchor]
  /\ ordered' = FALSE
  /\ Flushed
  /\ UNCHANGED <<heap, freed, anchor, dataBin, claims, stale, dangling, calls,
                 restarts>>

\* The process stops and NodeStorage::open reads both files; it writes them
\* again as it read them.
Restart ==
  /\ restarts < MaxRestarts
  /\ restarts' = restarts + 1
  /\ heap' = heapBin /\ anchor' = dataBin /\ freed' = <<>>
  /\ claims' = claimsBin.claims
  /\ stale' = stale \cup {c \in Contents : dataBin[c] # claimsBin.anchor[c]}
  /\ dangling' = (dangling \/ \E c \in Contents : dataBin[c] # NoBlock
                                 /\ ~Readable(heapBin, dataBin[c]))
  /\ ordered' = TRUE
  /\ claimsBin' = [claimsBin EXCEPT !.anchor = dataBin]
  /\ UNCHANGED <<heapBin, dataBin, calls, flushes, faults>>

HeapNext ==
  \/ \E c \in Contents, o \in Owners : StoreNew(c, o)
  \/ \E c \in Contents, o \in Owners : StoreShared(c, o)
  \/ \E c \in Contents, o \in Owners : Release(c, o)
  \/ TakeFreed
  \/ FlushSnapshot
  \/ FlushHeap
  \/ \E n \in 0 .. MaxHeapBlocks : TornFlush(n)
  \/ Restart

HeapSpec == HeapInit /\ [][HeapNext]_heapVars

-----------------------------------------------------------------------------
Live(c) == anchor[c] # NoBlock

\* dedup_read: the value the anchor of a content leads to, if any.
dedup_read(c) == IF Live(c) THEN read_decompressed(heap, anchor[c]) ELSE {}

\* Values are stored once and whole.  The anchor of a content leads to an
\* entry with that value, listed by exactly the records that stored it and
\* have not released it, each once, through extensions, relocations and
\* swap-removes.  Exempt are contents whose anchor write failed or whose files
\* differed at a restart, and everything once an anchor dangles.
OwnersExact ==
  \A c \in Contents \ stale : ~dangling =>
    IF Live(c)
    THEN /\ dedup_read(c) = {c}
         /\ Range(heap.at[anchor[c]].owners) = claims[c]
         /\ IsInjective(heap.at[anchor[c]].owners)
    ELSE claims[c] = {}

\* No two entries that anchors lead to share a block, and all of them lie in
\* the file, although the blocks of an entry are recomputed from an owner list
\* that grows and shrinks.
EntriesDisjoint ==
  ~dangling => \A c, d \in Contents : Live(c) /\ Live(d) =>
    /\ anchor[c] + Alloc(heap.at[anchor[c]]) <= heap.len
    /\ c # d => Extent(heap, anchor[c]) \cap Extent(heap, anchor[d]) = {}

Span(r) == r.start .. r.start + r.blocks - 1

\* The ranges handed to the cleanup pass are dead: none is reported twice and
\* none holds a block of an entry an anchor leads to.
FreedIsDead ==
  (~dangling /\ stale = {}) =>
    /\ \A i, j \in DOMAIN freed : i # j => Span(freed[i]) \cap Span(freed[j]) = {}
    /\ \A i \in DOMAIN freed, c \in Contents :
         Live(c) => Span(freed[i]) \cap Extent(heap, anchor[c]) = {}

\* The heap as a whole: what anchors lead to is exact, entries share no block, and
\* what is handed to the cleanup is dead (store, remove_owner, relocation).
HeapExact == OwnersExact /\ EntriesDisjoint /\ FreedIsDead

\* Saving the anchors first and the heap second is a safe order: every anchor
\* of data.bin then leads to its value in heap.bin, also when entries moved,
\* died or grew in between.
SavedInOrder ==
  (ordered /\ ~dangling) =>
    \A c \in Contents : dataBin[c] # NoBlock =>
      Readable(heapBin, dataBin[c]) /\ heapBin.at[dataBin[c]].content = c

\* node_storage.rs has the heap "flushed on every commit", so a restart would
\* never give an anchor the bytes of another content.  (Violated: the heap is
\* written at open only, and an entry appended after the restart takes the
\* block the anchor of another content still names.)
ReadsOwnContent ==
  \A c \in Contents : dedup_read(c) \subseteq {c}
=============================================================================
