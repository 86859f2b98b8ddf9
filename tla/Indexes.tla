------------------------------ MODULE Indexes ------------------------------
(***************************************************************************)
(* The in-memory indexes (index/) and the permission list built on them    *)
(* (permissions.rs).                                                       *)
(*                                                                         *)
(* A DiscreteIndex has an AdaptiveIndex per bucket: a sorted array that    *)
(* becomes, once, a B+ tree loaded in bulk.  Inserts go to the leaf the    *)
(* separators name, and leaves never split.  Keys may repeat.  An entry is *)
(* its key: which anchor of equal keys a binary search hits is left to the *)
(* standard library.  A PromotablePermissionList is a vector of users that *)
(* becomes an AdaptiveIndex of threshold 0.                                *)
(***************************************************************************)
EXTENDS Integers, Sequences, SequencesExt, FiniteSets, FiniteSetsExt

CONSTANTS
  Buckets,     \* bucket keys
  MaxKey,      \* IndexKey::MAX; keys are 0 .. MaxKey
  Threshold,   \* btree_threshold
  NodeMax,     \* MAX_ENTRIES_PER_NODE
  Users,       \* users of a permission list, naturals up to MaxKey
  InlineMax,   \* INLINE_TO_TREE_THRESHOLD
  MaxOps       \* bound: operations

ASSUME IndexLimits == /\ {MaxKey, Threshold, InlineMax, MaxOps} \subseteq Nat
                      /\ NodeMax \in Nat \ {0, 1}
                      /\ Users \subseteq 0 .. MaxKey

VARIABLES
  buckets,     \* DiscreteIndex::buckets; a bucket never inserted to is absent
  totalCount,  \* DiscreteIndex::total_count
  acl,         \* a PromotablePermissionList
  held,        \* history: per bucket and key, inserts less removals
  straddled,   \* history: keys a bulk load put in two leaves, by bucket
  members,     \* history: users added
  ops

indexVars == <<buckets, totalCount, acl, held, straddled, members, ops>>

Keys == 0 .. MaxKey

-----------------------------------------------------------------------------
\* array.rs and the leaves of btree.rs: a sorted sequence of keys.

Below(s, k) == Cardinality({i \in DOMAIN s : s[i] < k})

\* binary_search_by_key and Vec::insert.
SortedInsert(s, k) == InsertAt(s, Below(s, k) + 1, k)

Found(s, k) == k \in Range(s)

SortedRemove(s, k) == IF Found(s, k) THEN RemoveAt(s, Below(s, k) + 1) ELSE s

\* IndexBackend::range: start inclusive, end exclusive.
InRange(s, lo, hi) == SelectSeq(s, LAMBDA k : k >= lo /\ k < hi)

-----------------------------------------------------------------------------
\* btree.rs.  A node is a leaf or has separators and children.

Leaf(s) == [leaf |-> TRUE, entries |-> s, keys |-> <<>>, children |-> <<>>]

\* slice::chunks
Chunks(s, n) ==
  [i \in 1 .. (Len(s) + n - 1) \div n |->
     SubSeq(s, (i - 1) * n + 1, IF i * n < Len(s) THEN i * n ELSE Len(s))]

RECURSIVE FirstKeyOf(_)
FirstKeyOf(n) == IF n.leaf THEN n.entries[1] ELSE FirstKeyOf(n.children[1])

\* The separators are the last keys of the left neighbours.
MutInternal(chunk) ==
  [leaf |-> FALSE, entries |-> <<>>, children |-> chunk,
   keys |-> [i \in 1 .. Len(chunk) - 1 |-> FirstKeyOf(chunk[i])]]

Internal(chunk) ==
  [leaf |-> FALSE, entries |-> <<>>, children |-> chunk,
   keys |-> [i \in 1 .. Len(chunk) - 1 |-> FirstKeyOf(chunk[i + 1])]]

RECURSIVE BuildLevels(_)
BuildLevels(level) ==
  IF Len(level) = 1 THEN level[1]
  ELSE BuildLevels([i \in DOMAIN Chunks(level, NodeMax) |->
                      Internal(Chunks(level, NodeMax)[i])])

\* from_sorted
FromSorted(s) ==
  IF s = <<>> THEN Leaf(<<>>)
  ELSE BuildLevels([i \in DOMAIN Chunks(s, NodeMax) |-> Leaf(Chunks(s, NodeMax)[i])])

\* partition_point(|k| k <= key), clamped to the last child.
ChildFor(n, k) ==
  LET pos == Cardinality({i \in DOMAIN n.keys : n.keys[i] <= k})
  IN (IF pos < Len(n.children) - 1 THEN pos ELSE Len(n.children) - 1) + 1

RECURSIVE FindLeaf(_, _)
FindLeaf(n, k) == IF n.leaf THEN n.entries ELSE FindLeaf(n.children[ChildFor(n, k)], k)

RECURSIVE SetLeaf(_, _, _)
SetLeaf(n, k, s) ==
  IF n.leaf THEN [n EXCEPT !.entries = s]
  ELSE [n EXCEPT !.children[ChildFor(n, k)] = SetLeaf(@, k, s)]

RECURSIVE CollectAll(_)
CollectAll(n) ==
  IF n.leaf THEN n.entries
  ELSE FlattenSeq([i \in DOMAIN n.children |-> CollectAll(n.children[i])])

\* The keys FromSorted(s) has in two leaves.
Straddling(s) ==
  {s[i] : i \in {j \in 1 .. Len(s) - 1 : j % NodeMax = 0 /\ s[j] = s[j + 1]}}

-----------------------------------------------------------------------------
\* adaptive.rs

EmptyIndex == [converted |-> FALSE, array |-> <<>>, tree |-> Leaf(<<>>), count |-> 0]

IndexLen(x) == IF x.converted THEN x.count ELSE Len(x.array)

Promote(x) ==
  [converted |-> TRUE, array |-> <<>>, tree |-> FromSorted(x.array),
   count |-> Len(x.array)]

Promotes(x, threshold) == ~x.converted /\ IndexLen(x) >= threshold

IndexInsert(x, k, threshold) ==
  LET y == IF Promotes(x, threshold) THEN Promote(x) ELSE x
  IN IF y.converted
     THEN [y EXCEPT !.tree = SetLeaf(@, k, SortedInsert(FindLeaf(@, k), k)),
                    !.count = @ + 1]
     ELSE [y EXCEPT !.array = SortedInsert(@, k)]

IndexLookup(x, k) == Found(IF x.converted THEN FindLeaf(x.tree, k) ELSE x.array, k)

IndexRemove(x, k) ==
  IF ~IndexLookup(x, k) THEN x
  ELSE IF x.converted
    THEN [x EXCEPT !.tree = SetLeaf(@, k, SortedRemove(FindLeaf(@, k), k)),
                   !.count = @ - 1]
  ELSE [x EXCEPT !.array = SortedRemove(@, k)]

IndexRange(x, lo, hi) == InRange(IF x.converted THEN CollectAll(x.tree) ELSE x.array, lo, hi)

\* IndexBackend::all_sorted: MIN..MAX, whose end is exclusive.
AllSorted(x) == IndexRange(x, 0, MaxKey)

-----------------------------------------------------------------------------
\* discrete.rs

Bucket(b) == IF b \in DOMAIN buckets THEN buckets[b] ELSE EmptyIndex

Step == ops < MaxOps /\ ops' = ops + 1

\* DiscreteIndex::insert
Insert(b, k) ==
  /\ Step
  /\ buckets' = [x \in DOMAIN buckets \cup {b} |->
                   IF x = b THEN IndexInsert(Bucket(b), k, Threshold) ELSE buckets[x]]
  /\ totalCount' = totalCount + 1
  /\ held' = [held EXCEPT ![b][k] = @ + 1]
  /\ straddled' = [straddled EXCEPT ![b] =
                     IF Promotes(Bucket(b), Threshold)
                     THEN Straddling(Bucket(b).array) ELSE @]
  /\ UNCHANGED <<acl, members>>

\* DiscreteIndex::remove
RemoveKey(b, k) ==
  /\ Step
  /\ IndexLookup(Bucket(b), k)
  /\ buckets' = [buckets EXCEPT ![b] = IndexRemove(@, k)]
  /\ totalCount' = totalCount - 1
  /\ held' = [held EXCEPT ![b][k] = @ - 1]
  /\ UNCHANGED <<acl, straddled, members>>

-----------------------------------------------------------------------------
\* permissions.rs: PromotablePermissionList

EmptyAcl == [promoted |-> FALSE, users |-> <<>>, tree |-> EmptyIndex]

FromInline(users) ==
  IF Len(users) > InlineMax
  THEN [promoted |-> TRUE, users |-> <<>>,
        tree |-> FoldLeft(LAMBDA x, u : IndexInsert(x, u, 0), EmptyIndex, users)]
  ELSE [promoted |-> FALSE, users |-> users, tree |-> EmptyIndex]

AclContains(a, u) == IF a.promoted THEN IndexLookup(a.tree, u) ELSE u \in Range(a.users)

AclLen(a) == IF a.promoted THEN IndexLen(a.tree) ELSE Len(a.users)

\* add_user: a promoted list does not look for the user first.
AddUser(u) ==
  /\ Step
  /\ acl' = IF acl.promoted
            THEN [acl EXCEPT !.tree = IndexInsert(@, u, 0)]
            ELSE FromInline(IF u \in Range(acl.users) THEN acl.users
                            ELSE Append(acl.users, u))
  /\ members' = members \cup {u}
  /\ UNCHANGED <<buckets, totalCount, held, straddled>>

\* PermissionGroupStore::register: a group replaces the one of its id.
register(groups, id, users) ==
  [g \in DOMAIN groups \cup {id} |-> IF g = id THEN users ELSE groups[g]]

\* A record's permission: none, a list of users, or a group.
NoPermission == [kind |-> "none"]
Inline(users) == [kind |-> "inline", users |-> users]
Group(id) == [kind |-> "group", id |-> id]

\* PermissionRef::allows_user leaves groups to the caller.
allows_user(p, u) == p.kind = "inline" /\ u \in Range(p.users)

check_access(p, u, recordTenant, userTenant, groups) ==
  CASE p.kind = "none" -> userTenant = recordTenant
    [] p.kind = "inline" -> allows_user(p, u)
    [] p.kind = "group" -> p.id \in DOMAIN groups /\ u \in Range(groups[p.id])

IndexInit ==
  /\ buckets = <<>> /\ totalCount = 0
  /\ acl = EmptyAcl
  /\ held = [b \in Buckets |-> [k \in Keys |-> 0]]
  /\ straddled = [b \in Buckets |-> {}]
  /\ members = {} /\ ops = 0

IndexNext ==
  \/ \E b \in Buckets, k \in Keys : Insert(b, k)
  \/ \E b \in Buckets, k \in Keys : RemoveKey(b, k)
  \/ \E u \in Users : AddUser(u)

IndexSpec == IndexInit /\ [][IndexNext]_indexVars

-----------------------------------------------------------------------------
Occurrences(s, k) == Cardinality({i \in DOMAIN s : s[i] = k})

\* A scan of a bucket is sorted and has every entry, before and after the
\* array becomes a tree and however inserts and removals follow; the greatest
\* key is outside the range all_sorted asks for.
ScanExact ==
  \A b \in Buckets : LET s == AllSorted(Bucket(b)) IN
    /\ IsSorted(s, <=)
    /\ \A k \in Keys : Occurrences(s, k) = (IF k = MaxKey THEN 0 ELSE held[b][k])

\* A point lookup finds a key exactly when the bucket has an entry for it: the
\* separators of the bulk load keep routing right as leaves grow and empty.
\* Exempt are keys the bulk load put in two leaves.
LookupExact ==
  /\ \A b \in Buckets : \A k \in Keys \ straddled[b] :
       IndexLookup(Bucket(b), k) <=> held[b][k] > 0
  /\ \A u \in Users : AclContains(acl, u) <=> u \in members

\* A list gives the same users access when a record holds it, when a record names
\* the group it was last registered as, and when it is promoted; the tenants do
\* not matter then, and no other group is consulted (check_access, contains).
AccessAgrees ==
  ~acl.promoted => \A u \in Users :
    LET groups == register(register(register(<<>>, 1, SetToSeq(Users)), 1, acl.users), 2, <<u>>)
        Allowed(p) == check_access(p, u, 1, 2, groups)
    IN /\ Allowed(Inline(acl.users)) <=> AclContains(acl, u)
       /\ Allowed(Group(1)) <=> AclContains(FromInline(acl.users \o acl.users), u)
       /\ ~Allowed(Group(3)) /\ ~Allowed(NoPermission)

\* The counters agree with the entries: the total over the buckets, the count a
\* promoted index keeps, and what is really stored.
CountsExact ==
  /\ totalCount = MapThenSumSet(LAMBDA b : IndexLen(Bucket(b)), DOMAIN buckets)
  /\ \A b \in DOMAIN buckets :
       IndexLen(buckets[b]) = MapThenSumSet(LAMBDA k : held[b][k], Keys)

\* An index, as an array or as a tree, is the multiset of the keys inserted and not
\* removed: scans, point lookups and counters agree with it; and a permission is the
\* same users in each of its forms.
IndexExact == ScanExact /\ LookupExact /\ CountsExact /\ AccessAgrees

\* index/mod.rs: remove returns "true if found".  (Violated: of equal keys in
\* two leaves only those in the right one are found; once they are removed the
\* others are listed by a scan but neither looked up nor removed.)
RemoveFinds ==
  \A b \in Buckets, k \in Keys : held[b][k] > 0 => IndexLookup(Bucket(b), k)

\* index/mod.rs: all_sorted returns "all entries in sorted order".  (Violated:
\* the range it asks for excludes IndexKey::MAX.)
ScanComplete ==
  \A b \in Buckets : Len(AllSorted(Bucket(b))) = IndexLen(Bucket(b))

\* A permission list counts its users.  (Violated: once promoted, adding a user
\* who is listed adds an entry.)
LenIsUsers == AclLen(acl) = Cardinality(members)
=============================================================================
