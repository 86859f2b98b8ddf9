---------------------------- MODULE BlockPages ----------------------------
(***************************************************************************)
(* The linear-hash directory (file/linear.rs) with its dictionary store    *)
(* (file/dict.rs), and the B+ tree node cache (file/btree_store.rs), over  *)
(* one shared block file.                                                  *)
(*                                                                         *)
(* Both write copy-on-write: a new run is written, the pointer is changed, *)
(* the old run is freed and may be handed to the other.  The directory is  *)
(* used through &mut self, so its calls are one action each.  NodeCache is *)
(* shared: a load that misses reads the file and fills the cache in two    *)
(* steps.  The tree above the cache is not written yet; its edit is the    *)
(* protocol the comments of NodeCache ask of it, on a single node.         *)
(*                                                                         *)
(* A place stands for a run; an allocation gives any place not in use.     *)
(***************************************************************************)
EXTENDS Naturals, Sequences, SequencesExt, FiniteSets

CONSTANTS
  Ids, Hash,    \* record ids and hash_of
  Values,       \* payloads
  Places,       \* runs of data.bin
  MaxBuckets,   \* bound: buckets
  MaxEdits,     \* bound: node edits
  MaxPageOps    \* bound: operations of the directory

VARIABLES
  dir,       \* LinearDirectory::dir
  current,   \* DictStore::current
  dicts,     \* DictStore::cache
  disk,      \* the image of each run
  runs,      \* BlockAllocator: runs handed out
  root,      \* the tree's reference to its node
  cache,     \* NodeCache::cache
  editor,    \* the replaced reference, between the steps of an edit
  loader,    \* a load between its read and its insert
  store,     \* history: the map the directory implements
  forgotten, \* history: dictionaries an open did not reserve
  late,      \* history: references cached by a load that was overtaken
  version,   \* history: the node written last
  pageOps

blockPagesVars == <<dir, current, dicts, disk, runs, root, cache, editor, loader, store,
          forgotten, late, version, pageOps>>

NoRef == "none"

NoRecord == "no record"

NoPage == "empty"     \* PageDescriptor::EMPTY

NoRecords == [id \in Ids |-> NoRecord]

Page(recs, d) == [kind |-> "page", recs |-> recs, dict |-> d, node |-> 0]

Dict == [kind |-> "dict", recs |-> NoRecords, dict |-> NoRef, node |-> 0]

NotLoading == [ref |-> NoRef, node |-> 0]

Node(n) == [kind |-> "node", recs |-> NoRecords, dict |-> NoRef, node |-> n]

BlankRun == [kind |-> "blank", recs |-> NoRecords, dict |-> NoRef, node |-> 0]

-----------------------------------------------------------------------------
\* Routing.  Buckets count from 0, sequences from 1.

\* 2^level, the greatest power of two up to m.
LevelBase(m) == CHOOSE b \in {2 ^ l : l \in 0 .. m} : b <= m /\ m < 2 * b

SplitPointer(m) == m - LevelBase(m)

\* index: one more bit for buckets below the split pointer.
Index(m, id) ==
  LET b == Hash[id] % LevelBase(m)
  IN IF b < SplitPointer(m) THEN Hash[id] % (2 * LevelBase(m)) ELSE b

\* The bit above.
MutMovesOn(m, id) == (Hash[id] \div (2 * LevelBase(m))) % 2 = 1

\* split_next: bit `level` of the hash.
MovesOn(m, id) == (Hash[id] \div LevelBase(m)) % 2 = 1

-----------------------------------------------------------------------------
\* read_bucket: the page decodes if its dictionary is cached or on disk.
CanRead(p) ==
  p # NoPage =>
    /\ disk[p].kind = "page"
    /\ disk[p].dict \in {NoRef} \cup dicts
         \cup {q \in Places : disk[q].kind = "dict"}

Records(p) == IF p = NoPage THEN NoRecords ELSE disk[p].recs

\* get
Get(id) == LET p == dir[Index(Len(dir), id) + 1]
           IN IF CanRead(p) THEN Records(p)[id] ELSE "error"

\* The dictionaries read on the way are cached (DictStore::load).
Loaded(p) == IF p = NoPage \/ disk[p].dict = NoRef THEN {} ELSE {disk[p].dict}

\* place_if_nonempty: where a page with these records may go.
PlacesFor(recs, old) == IF recs = NoRecords THEN {NoPage} ELSE Places \ runs

Written(d, recs, p) == IF p = NoPage THEN d ELSE [d EXCEPT ![p] = Page(recs, current)]

Count == pageOps < MaxPageOps /\ pageOps' = pageOps + 1

tree == <<root, cache, editor, loader, late, version>>

\* commit: write the new page, free the old one, swap the descriptor.
Commit(i, recs) ==
  LET old == dir[i + 1] IN
  \E p \in PlacesFor(recs, old) :
    /\ CanRead(old)
    /\ disk' = Written(disk, recs, p)
    /\ runs' = (runs \cup {p}) \ {old, NoPage}
    /\ dir' = [dir EXCEPT ![i + 1] = p]
    /\ dicts' = dicts \cup Loaded(old) \cup ({current} \ {NoRef})
    /\ Count
    /\ UNCHANGED <<current, forgotten, tree>>

\* put, and commit_slot with one upsert.
PutRecord(id, v) ==
  LET i == Index(Len(dir), id)
  IN /\ Commit(i, [Records(dir[i + 1]) EXCEPT ![id] = v])
     /\ store' = [store EXCEPT ![id] = v]

\* remove
RemoveRecord(id) ==
  LET i == Index(Len(dir), id)
  IN /\ Records(dir[i + 1])[id] # NoRecord
     /\ Commit(i, [Records(dir[i + 1]) EXCEPT ![id] = NoRecord])
     /\ store' = [store EXCEPT ![id] = NoRecord]

\* commit_slot: a batch for one bucket.
CommitSlot(i, batch) ==
  /\ \A id \in DOMAIN batch : Index(Len(dir), id) = i
  /\ Commit(i, [id \in Ids |-> IF id \in DOMAIN batch THEN batch[id]
                               ELSE Records(dir[i + 1])[id]])
  /\ store' = [id \in Ids |-> IF id \in DOMAIN batch THEN batch[id] ELSE store[id]]

\* split_next: when the second page finds no space, the first keeps its run
\* and the directory is unchanged.
SplitNext ==
  LET m == Len(dir)
      s == SplitPointer(m)
      old == dir[s + 1]
      recs == Records(old)
      keep == [id \in Ids |-> IF MovesOn(m, id) THEN NoRecord ELSE recs[id]]
      moved == [id \in Ids |-> IF MovesOn(m, id) THEN recs[id] ELSE NoRecord]
  IN /\ m < MaxBuckets /\ CanRead(old)
     /\ \E p \in PlacesFor(keep, old) :
          \/ \E q \in PlacesFor(moved, old) \ ({p} \ {NoPage}) :
               /\ disk' = Written(Written(disk, keep, p), moved, q)
               /\ runs' = (runs \cup {p, q}) \ {old, NoPage}
               /\ dir' = Append([dir EXCEPT ![s + 1] = p], q)
          \/ /\ PlacesFor(moved, old) \subseteq {p} \ {NoPage}
             /\ disk' = Written(disk, keep, p)
             /\ runs' = (runs \cup {p}) \ {NoPage}
             /\ UNCHANGED dir
     /\ dicts' = dicts \cup Loaded(old) \cup ({current} \ {NoRef})
     /\ Count
     /\ UNCHANGED <<current, forgotten, store, tree>>

\* install_dictionary: written to a run of its own, made current.
InstallDictionary ==
  \E p \in Places \ runs :
    /\ disk' = [disk EXCEPT ![p] = Dict]
    /\ runs' = runs \cup {p}
    /\ current' = p
    /\ dicts' = dicts \cup {p}
    /\ Count
    /\ UNCHANGED <<dir, forgotten, store, tree>>

\* What the referenced pages hold; a dictionary's run is not among them.
used_runs == (Range(dir) \cup {root}) \ {NoPage, NoRef}

\* from_buckets over a file opened with used_runs: the runs of the buckets
\* are reserved, those of dictionaries are not.  The tree reserves its node.
ReopenPages ==
  /\ editor = NoRef /\ loader = NotLoading
  /\ runs' = used_runs
  /\ current' = NoRef /\ dicts' = {} /\ cache' = [p \in {} |-> 0]
  /\ forgotten' = forgotten \cup {p \in Places : disk[p].kind = "dict"}
  /\ late' = {}
  /\ Count
  /\ UNCHANGED <<dir, disk, root, editor, loader, store, version>>

-----------------------------------------------------------------------------
linear == <<dir, current, dicts, store, forgotten, pageOps>>

CachePut(p, n) == [x \in DOMAIN cache \cup {p} |-> IF x = p THEN n ELSE cache[x]]

CacheDrop(p) == [x \in DOMAIN cache \ {p} |-> cache[x]]

\* NodeCache::write to a fresh run, and the parent repointed.
NodeWrite ==
  /\ editor = NoRef /\ version < MaxEdits
  /\ \E p \in Places \ runs :
       /\ disk' = [disk EXCEPT ![p] = Node(version + 1)]
       /\ runs' = runs \cup {p}
       /\ cache' = CachePut(p, version + 1)
       /\ root' = p
       /\ late' = late \ {p}
  /\ editor' = root
  /\ version' = version + 1
  /\ UNCHANGED <<loader, linear>>

\* The old run is freed and stays cached.
MutNodeRetire ==
  /\ editor # NoRef
  /\ runs' = runs \ {editor}
  /\ editor' = NoRef
  /\ UNCHANGED <<disk, root, cache, loader, late, version, linear>>

\* NodeCache::invalidate and the free of the old run.
NodeRetire ==
  /\ editor # NoRef
  /\ cache' = CacheDrop(editor)
  /\ runs' = runs \ {editor}
  /\ editor' = NoRef
  /\ UNCHANGED <<disk, root, loader, late, version, linear>>

\* NodeCache::load, a miss: read the page with no lock held.
LoadRead ==
  /\ loader = NotLoading /\ root # NoRef
  /\ root \notin DOMAIN cache
  /\ loader' = [ref |-> root, node |-> disk[root].node]
  /\ UNCHANGED <<disk, runs, root, cache, editor, late, version, linear>>

\* NodeCache::load, a miss: cache what was read.
LoadInsert ==
  /\ loader # NotLoading
  /\ cache' = CachePut(loader.ref, loader.node)
  /\ late' = IF root # loader.ref \/ disk[root].node # loader.node
             THEN late \cup {loader.ref} ELSE late
  /\ loader' = NotLoading
  /\ UNCHANGED <<disk, runs, root, editor, version, linear>>

-----------------------------------------------------------------------------
BlockPagesInit ==
  /\ dir = <<NoPage>>
  /\ current = NoRef /\ dicts = {}
  /\ disk = [p \in Places |-> BlankRun] /\ runs = {}
  /\ root = NoRef /\ cache = [p \in {} |-> 0]
  /\ editor = NoRef /\ loader = NotLoading
  /\ store = NoRecords
  /\ forgotten = {} /\ late = {} /\ version = 0 /\ pageOps = 0

Batches == [Ids -> Values \cup {NoRecord}]

BlockPagesNext ==
  \/ \E id \in Ids, v \in Values : PutRecord(id, v)
  \/ \E id \in Ids : RemoveRecord(id)
  \/ \E i \in 0 .. Len(dir) - 1, batch \in Batches : CommitSlot(i, batch)
  \/ SplitNext
  \/ InstallDictionary
  \/ ReopenPages
  \/ NodeWrite
  \/ NodeRetire
  \/ LoadRead
  \/ LoadInsert

BlockPagesSpec == BlockPagesInit /\ [][BlockPagesNext]_blockPagesVars

-----------------------------------------------------------------------------
\* A page that needs a dictionary an open did not reserve.
Endangered(id) ==
  LET p == dir[Index(Len(dir), id) + 1]
  IN p # NoPage /\ disk[p].dict \in forgotten

\* Every record is read from the bucket it routes to, at every number of
\* buckets and not only powers of two, across splits, dictionaries, splits
\* that ran out of space and reopens.  Exempt are records compressed with a
\* dictionary whose run an open left free.
GetExact == \A id \in Ids : Endangered(id) \/ Get(id) = store[id]

\* A run has one purpose: what the buckets, the current dictionary and the
\* tree refer to is handed out by the allocator, and no two of them share it.
RunsExclusive ==
  LET refs == <<current, root>> \o dir
  IN /\ \A i \in DOMAIN refs : refs[i] \in runs \cup {NoRef, NoPage}
     /\ \A i, j \in DOMAIN refs :
          i # j /\ refs[i] \notin {NoRef, NoPage} => refs[i] # refs[j]

\* Runs stay exclusive, and the node cache agrees with the file, although the runs
\* of replaced nodes are reused by nodes and by pages: exempt is a reference filled by a load that an
\* edit overtook.
NodeCacheFresh ==
  /\ RunsExclusive
  /\ \A r \in DOMAIN cache \ late : disk[r] = Node(cache[r])

\* The same with no exemption: every load serves the node written last.
\* (Violated: load reads the page and fills the cache with no lock held across
\* the two, so it can replace a newer node that reuses the run.)
LoadsAreFresh == root \in DOMAIN cache => cache[root] = version

\* linear.rs: used_runs is what to "feed to BlockFile::open to rebuild the
\* allocator".  (Violated: it leaves out the dictionary pages were compressed
\* with, so its run is handed out again and those pages cannot be read.)
ReopenKeepsRecords == \A id \in Ids : Get(id) = store[id]
=============================================================================
