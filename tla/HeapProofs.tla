----------------------------- MODULE HeapProofs -----------------------------
(***************************************************************************)
(* The heap file: owners are exact, entries share no block, and the order  *)
(* anchors first, heap second is safe, for every set of contents and       *)
(* owners, every block size and every bound.                               *)
(***************************************************************************)
EXTENDS Heap, TLAPS

-----------------------------------------------------------------------------
(* The inductive invariant.                                                *)

Entries == [content : Contents, owners : Seq(Owners)]

\* Entries start inside the file; the end of one may be torn off.
IsHeap(h) ==
    /\ h = [len |-> h.len, at |-> h.at]
    /\ h.len \in Nat /\ DOMAIN h.at \subseteq 0 .. h.len - 1
    /\ h.at \in [DOMAIN h.at -> Entries]

AnchorTable == [Contents -> Nat]
ClaimTable == [Contents -> SUBSET Owners]
Freed == [start : Nat, blocks : Nat]

HeapTypeOK ==
    /\ IsHeap(heap) /\ IsHeap(heapBin) /\ heapBin.len <= heap.len
    /\ freed \in Seq(Freed)
    /\ anchor \in AnchorTable /\ dataBin \in AnchorTable
    /\ claims \in ClaimTable /\ claimsBin \in [claims : ClaimTable, anchor : AnchorTable]
    /\ stale \subseteq Contents

\* No entry starts inside the one at block b.
Alone(h, b) == \A x \in DOMAIN h.at : b < x => b + Alloc(h.at[b]) <= x

\* Every anchor of table a leads to a whole entry with its content.
Leads(h, a) ==
    \A c \in Contents : a[c] # NoBlock =>
       /\ Readable(h, a[c]) /\ h.at[a[c]].content = c
       /\ Alone(h, a[c])

\* What heap.bin has of an anchor's entry is that content's: blocks are given out
\* once, so an anchor that is newer than heap.bin points behind its end.
Keeps(h, a) ==
    \A c \in Contents : a[c] # NoBlock /\ a[c] < h.len =>
       /\ a[c] \in DOMAIN h.at /\ h.at[a[c]].content = c
       /\ Alone(h, a[c])

Reaches ==
    ~dangling => /\ Leads(heap, anchor) /\ Leads(heap, dataBin)
                 /\ Keeps(heapBin, anchor) /\ Keeps(heapBin, dataBin)

\* The owners in an entry are those of the claims.
Lists(h, b, owners) ==
    Range(h.at[b].owners) = owners /\ IsInjective(h.at[b].owners)
OwnersTrue ==
    \A c \in Contents \ stale : ~dangling =>
       IF anchor[c] # NoBlock THEN Lists(heap, anchor[c], claims[c]) ELSE claims[c] = {}

\* The owners in heap.bin are those of the claims when it was written.
OwnersSaved ==
    \A c \in Contents \ stale : ~dangling =>
       IF claimsBin.anchor[c] # NoBlock
       THEN claimsBin.anchor[c] \in DOMAIN heapBin.at =>
               Lists(heapBin, claimsBin.anchor[c], claimsBin.claims[c])
       ELSE claimsBin.claims[c] = {}

\* Freed ranges lie in the file.
FreedInFile == ~dangling => \A i \in DOMAIN freed : freed[i].start + freed[i].blocks <= heap.len

HeapInv ==
    /\ HeapTypeOK /\ Reaches /\ OwnersTrue /\ OwnersSaved /\ FreedInFile /\ FreedIsDead
    /\ SavedInOrder

-----------------------------------------------------------------------------
(* Blocks.                                                                 *)

LEMMA Quotient ==
    ASSUME NEW n \in Nat, NEW d \in Nat \ {0}
    PROVE  /\ n \div d \in Nat /\ (n \div d) * d <= n /\ n < (n \div d) * d + d
           /\ (n + 1) \div d \in {n \div d, n \div d + 1}
<1>1. n \div d \in Int /\ (n \div d) * d <= n /\ n < (n \div d) * d + d
  OBVIOUS
<1>2. (n + 1) \div d \in Int /\ ((n + 1) \div d) * d <= n + 1 /\ n + 1 < ((n + 1) \div d) * d + d
  OBVIOUS
<1>3. ASSUME NEW p \in Int, NEW q \in Int, NEW m \in Int, p * d <= m, m < q * d + d PROVE p <= q
  <2>1. SUFFICES ASSUME p >= q + 1 PROVE FALSE
    OBVIOUS
  <2>2. p * d >= (q + 1) * d
    BY <2>1
  <2>3. (q + 1) * d = q * d + d
    OBVIOUS
  <2> QED BY <1>3, <2>2, <2>3
<1>4. n \div d >= 0
  <2>1. 0 * d <= n
    OBVIOUS
  <2> QED BY <1>1, <1>3, <2>1
<1>5. n \div d <= (n + 1) \div d
  BY <1>1, <1>2, <1>3
<1>6. (n + 1) \div d <= n \div d + 1
  <2>1. (n \div d + 1) * d = (n \div d) * d + d
    BY <1>1
  <2>2. n + 1 < (n \div d + 1) * d + d
    BY <1>1, <2>1
  <2> QED BY <1>1, <1>2, <1>3, <2>2
<1> QED BY <1>1, <1>2, <1>4, <1>5, <1>6

\* An owner more takes at most one block more, one less takes none.
LEMMA BlocksGrow ==
    ASSUME NEW n \in Nat \ {0}
    PROVE  /\ BlocksFor(n) \in Nat \ {0}
           /\ BlocksFor(n + 1) \in {BlocksFor(n), BlocksFor(n) + 1}
<1>1. BlockSize \in Nat \ {0}
  BY Limits
<1> DEFINE m == n + BlockSize - 1
<1>2. m \in Nat /\ m >= BlockSize /\ (n + 1) + BlockSize - 1 = m + 1
  BY <1>1
<1> HIDE DEF m
<1>3. /\ m \div BlockSize \in Nat /\ m < (m \div BlockSize) * BlockSize + BlockSize
      /\ (m + 1) \div BlockSize \in {m \div BlockSize, m \div BlockSize + 1}
  BY <1>1, <1>2, Quotient
<1>4. m \div BlockSize # 0
  <2> SUFFICES ASSUME m \div BlockSize = 0 PROVE FALSE
    OBVIOUS
  <2>1. 0 * BlockSize = 0
    BY <1>1
  <2> QED BY <1>1, <1>2, <1>3, <2>1
<1>5. BlocksFor(n) = m \div BlockSize /\ BlocksFor(n + 1) = (m + 1) \div BlockSize
  BY <1>2 DEF BlocksFor, m
<1> QED BY <1>3, <1>4, <1>5

LEMMA EntryBlocks ==
    ASSUME NEW e \in Entries
    PROVE  /\ Alloc(e) \in Nat \ {0}
           /\ \A f \in Entries : Len(f.owners) = Len(e.owners) + 1 =>
                 Alloc(f) \in {Alloc(e), Alloc(e) + 1}
           /\ \A f \in Entries : Len(f.owners) = Len(e.owners) => Alloc(f) = Alloc(e)
<1>1. Base \in Nat \ {0}
  BY Limits
<1>2. \A f \in Entries : Len(f.owners) \in Nat /\ Base + Len(f.owners) \in Nat \ {0}
  BY <1>1 DEF Entries
<1>3. \A f \in Entries : Alloc(f) = BlocksFor(Base + Len(f.owners))
  BY DEF Alloc, Used
<1>4. Alloc(e) \in Nat \ {0}
  BY <1>2, <1>3, BlocksGrow
<1>5. ASSUME NEW f \in Entries, Len(f.owners) = Len(e.owners) + 1
      PROVE  Alloc(f) \in {Alloc(e), Alloc(e) + 1}
  <2>1. Base + Len(f.owners) = (Base + Len(e.owners)) + 1
    BY <1>1, <1>2, <1>5
  <2> QED BY <1>2, <1>3, <2>1, BlocksGrow
<1> QED BY <1>3, <1>4, <1>5

-----------------------------------------------------------------------------
(* Owner lists.                                                            *)

LEMMA SwapRemoveFacts ==
    ASSUME NEW S, NEW s \in Seq(S), NEW k \in DOMAIN s
    PROVE  /\ SwapRemove(s, k) \in Seq(S) /\ Len(SwapRemove(s, k)) = Len(s) - 1
           /\ IsInjective(s) => /\ IsInjective(SwapRemove(s, k))
                                /\ Range(SwapRemove(s, k)) = Range(s) \ {s[k]}
<1>0. Len(s) \in Nat /\ DOMAIN s = 1 .. Len(s) /\ k \in 1 .. Len(s) /\ Len(s) >= 1
      /\ \A j \in 1 .. Len(s) : s[j] \in S
  OBVIOUS
<1>1. PICK u : u = [s EXCEPT ![k] = s[Len(s)]]
  BY Zenon
<1>2. u \in Seq(S) /\ Len(u) = Len(s) /\ \A j \in 1 .. Len(s) : u[j] = IF j = k THEN s[Len(s)] ELSE s[j]
  BY <1>0, <1>1
<1>3. PICK l : l = SubSeq(u, 1, Len(s) - 1)
  BY Zenon
<1>4. SwapRemove(s, k) = l
  BY <1>1, <1>3 DEF SwapRemove
<1>5. l \in Seq(S) /\ Len(l) = Len(s) - 1 /\ DOMAIN l = 1 .. Len(s) - 1
      /\ \A j \in 1 .. Len(s) - 1 : l[j] = u[j]
  BY <1>0, <1>2, <1>3
<1>6. \A j \in 1 .. Len(s) - 1 : l[j] = IF j = k THEN s[Len(s)] ELSE s[j]
  BY <1>0, <1>2, <1>5
<1>7. ASSUME IsInjective(s)
      PROVE  IsInjective(l) /\ Range(l) = Range(s) \ {s[k]}
  <2> DEFINE from(j) == IF j = k THEN Len(s) ELSE j
  <2>1. \A j \in 1 .. Len(s) - 1 : from(j) \in 1 .. Len(s) /\ from(j) # k /\ l[j] = s[from(j)]
    BY <1>0, <1>6
  <2>2. \A i, j \in 1 .. Len(s) - 1 : from(i) = from(j) => i = j
    BY <1>0
  <2>3. \A i \in 1 .. Len(s) : i # k => \E j \in 1 .. Len(s) - 1 : from(j) = i
    <3> SUFFICES ASSUME NEW i \in 1 .. Len(s), i # k PROVE \E j \in 1 .. Len(s) - 1 : from(j) = i
      OBVIOUS
    <3>1. CASE i = Len(s)
      <4>1. k \in 1 .. Len(s) - 1 /\ from(k) = i
        BY <1>0, <3>1
      <4> QED BY <4>1
    <3>2. CASE i # Len(s)
      <4>0. Len(s) \in Nat
        BY <1>0
      <4>1. i \in 1 .. Len(s) - 1
        BY <3>2, <4>0
      <4>2. from(i) = i
        OBVIOUS
      <4> QED BY <4>1, <4>2
    <3> QED BY <3>1, <3>2
  <2> HIDE DEF from
  <2>4. IsInjective(l)
    BY <1>0, <1>5, <1>7, <2>1, <2>2 DEF IsInjective
  <2>5. Range(l) \subseteq Range(s) \ {s[k]}
    BY <1>0, <1>5, <1>7, <2>1 DEF Range, IsInjective
  <2>6. ASSUME NEW x \in Range(s) \ {s[k]} PROVE x \in Range(l)
    <3>1. PICK i \in 1 .. Len(s) : x = s[i] /\ i # k
      BY <1>0 DEF Range
    <3>2. PICK j \in 1 .. Len(s) - 1 : from(j) = i
      BY <2>3, <3>1
    <3> QED BY <1>5, <2>1, <3>1, <3>2 DEF Range
  <2> QED BY <2>4, <2>5, <2>6
<1> QED BY <1>4, <1>5, <1>7

LEMMA AppendOwner ==
    ASSUME NEW S, NEW s \in Seq(S), NEW x \in S
    PROVE  /\ Append(s, x) \in Seq(S) /\ Len(Append(s, x)) = Len(s) + 1
           /\ Range(Append(s, x)) = Range(s) \cup {x}
           /\ IsInjective(s) /\ x \notin Range(s) => IsInjective(Append(s, x))
<1>1. PICK a : a = Append(s, x)
  BY Zenon
<1>2. /\ a \in Seq(S) /\ Len(a) = Len(s) + 1 /\ DOMAIN a = DOMAIN s \cup {Len(s) + 1}
      /\ \A i \in DOMAIN s : a[i] = s[i]
      /\ a[Len(s) + 1] = x
  BY <1>1
<1>3. Range(a) = Range(s) \cup {x}
  BY <1>2 DEF Range
<1>4. IsInjective(s) /\ x \notin Range(s) => IsInjective(a)
  BY <1>2 DEF Range, IsInjective
<1> QED BY <1>1, <1>2, <1>3, <1>4

-----------------------------------------------------------------------------
(* The two ways a call changes the heap.                                   *)

\* The entry at block b changes its owners, and may take one block more at the tail.
InPlace(h, g, b, k) ==
    /\ b \in DOMAIN h.at /\ IsHeap(g) /\ DOMAIN g.at = DOMAIN h.at
    /\ k \in {0, 1} /\ g.len = h.len + k
    /\ \A x \in DOMAIN h.at \ {b} : g.at[x] = h.at[x]
    /\ g.at[b].content = h.at[b].content
    /\ Alloc(g.at[b]) <= Alloc(h.at[b]) + k
    /\ k = 1 => b + Alloc(h.at[b]) = h.len

LEMMA HeapFacts ==
    ASSUME NEW h, IsHeap(h)
    PROVE  /\ h.len \in Nat /\ h.len \notin DOMAIN h.at
           /\ \A x \in DOMAIN h.at : /\ x \in Nat /\ x < h.len /\ h.at[x] \in Entries
                                     /\ h.at[x].content \in Contents /\ h.at[x].owners \in Seq(Owners)
                                     /\ Alloc(h.at[x]) \in Nat \ {0}
<1>1. /\ h.len \in Nat /\ h.len \notin DOMAIN h.at
      /\ \A x \in DOMAIN h.at : x \in Nat /\ x < h.len /\ h.at[x] \in Entries
  BY DEF IsHeap
<1>2. \A e \in Entries : e.content \in Contents /\ e.owners \in Seq(Owners)
  BY DEF Entries
<1> QED BY <1>1, <1>2, EntryBlocks

\* Nothing but an owner list of the same kind changes.
LEMMA InPlaceIntro ==
    ASSUME NEW h, IsHeap(h), NEW b \in DOMAIN h.at, NEW w \in Seq(Owners), NEW k \in {0, 1},
           NEW e \in Entries, e = [content |-> h.at[b].content, owners |-> w],
           Alloc(e) <= Alloc(h.at[b]) + k, k = 1 => b + Alloc(h.at[b]) = h.len,
           NEW g, g = [len |-> h.len + k, at |-> [h.at EXCEPT ![b] = e]]
    PROVE  InPlace(h, g, b, k) /\ g.at[b].owners = w
<1>1. /\ g.len = h.len + k /\ g.at = [h.at EXCEPT ![b] = e] /\ g = [len |-> g.len, at |-> g.at]
  OBVIOUS
<1>2. /\ DOMAIN g.at = DOMAIN h.at /\ g.at[b] = e
      /\ \A x \in DOMAIN h.at \ {b} : g.at[x] = h.at[x]
      /\ g.at \in [DOMAIN h.at -> Entries]
  BY <1>1 DEF IsHeap
<1>3. IsHeap(g)
  <2>1. h.len \in Nat /\ DOMAIN h.at \subseteq 0 .. h.len - 1
    BY DEF IsHeap
  <2>2. g.len \in Nat /\ 0 .. h.len - 1 \subseteq 0 .. g.len - 1
    BY <1>1, <2>1
  <2> QED BY <1>1, <1>2, <2>1, <2>2 DEF IsHeap
<1>4. e.content = h.at[b].content /\ e.owners = w
  OBVIOUS
<1> QED BY <1>1, <1>2, <1>3, <1>4 DEF InPlace

LEMMA InPlaceSame ==
    ASSUME NEW h, IsHeap(h), NEW b \in DOMAIN h.at
    PROVE  InPlace(h, h, b, 0)
<1>1. h.len \in Nat /\ Alloc(h.at[b]) \in Nat
  BY HeapFacts
<1> QED BY <1>1 DEF InPlace

LEMMA AppendShape ==
    ASSUME NEW h, IsHeap(h), NEW c \in Contents, NEW w \in Seq(Owners),
           NEW g, g = append_relocated(h, c, w)
    PROVE  /\ IsHeap(g) /\ DOMAIN g.at = DOMAIN h.at \cup {h.len} /\ h.len \notin DOMAIN h.at
           /\ \A x \in DOMAIN h.at : g.at[x] = h.at[x]
           /\ g.at[h.len] = [content |-> c, owners |-> w] /\ g.at[h.len] \in Entries
           /\ g.len = h.len + Alloc(g.at[h.len]) /\ Alloc(g.at[h.len]) \in Nat \ {0}
<1>1. PICK e : e = [content |-> c, owners |-> w]
  BY Zenon
<1>2. e \in Entries /\ Alloc(e) \in Nat \ {0}
  BY <1>1, EntryBlocks DEF Entries
<1>3. g = [len |-> h.len + Alloc(e), at |-> Put(h.at, h.len, e)]
  BY <1>1 DEF append_relocated
<1>4. g.len = h.len + Alloc(e) /\ g.at = Put(h.at, h.len, e) /\ g = [len |-> g.len, at |-> g.at]
  BY <1>3
<1>5. h.len \in Nat /\ h.len \notin DOMAIN h.at /\ \A x \in DOMAIN h.at : h.at[x] \in Entries
  BY HeapFacts
<1>6. /\ DOMAIN g.at = DOMAIN h.at \cup {h.len} /\ g.at[h.len] = e
      /\ \A x \in DOMAIN h.at : g.at[x] = h.at[x]
      /\ g.at \in [DOMAIN g.at -> Entries]
  BY <1>2, <1>4, <1>5 DEF Put
<1>7. IsHeap(g)
  <2>1. g.len \in Nat /\ 0 .. h.len - 1 \subseteq 0 .. g.len - 1 /\ h.len \in 0 .. g.len - 1
    BY <1>2, <1>4, <1>5
  <2>2. DOMAIN h.at \subseteq 0 .. h.len - 1
    BY DEF IsHeap
  <2> QED BY <1>4, <1>6, <2>1, <2>2 DEF IsHeap
<1> QED BY <1>1, <1>2, <1>4, <1>5, <1>6, <1>7

\* add_owner leaves the entry, lengthens it in place, or moves it.
AddedTo(h, b, o, r) ==
    \/ /\ o \in Range(h.at[b].owners)
       /\ r.heap = h /\ r.block = b /\ r.freed = <<>>
    \/ /\ o \notin Range(h.at[b].owners) /\ r.block = b /\ r.freed = <<>>
       /\ \E k \in {0, 1} : InPlace(h, r.heap, b, k)
       /\ r.heap.at[b].owners = Append(h.at[b].owners, o)
    \/ /\ o \notin Range(h.at[b].owners) /\ r.block = h.len
       /\ r.heap = append_relocated(h, h.at[b].content, Append(h.at[b].owners, o))
       /\ r.freed = <<[start |-> b, blocks |-> Alloc(h.at[b])]>>

LEMMA AddOwnerFacts ==
    ASSUME NEW h, IsHeap(h), NEW b \in DOMAIN h.at, NEW o \in Owners,
           NEW r, r = AddOwner(h, b, o)
    PROVE  AddedTo(h, b, o, r)
<1>1. PICK e : e = h.at[b]
  OBVIOUS
<1>2. e \in Entries /\ e.content \in Contents /\ e.owners \in Seq(Owners) /\ h.len \in Nat
      /\ Alloc(e) \in Nat /\ b \in Nat
  BY <1>1, HeapFacts
<1>3. PICK w : w = Append(e.owners, o)
  BY Zenon
<1>4. w \in Seq(Owners) /\ Len(w) = Len(e.owners) + 1
  BY <1>2, <1>3
<1>5. PICK more : more = [content |-> e.content, owners |-> w]
  BY Zenon
<1>6. more \in Entries /\ more.owners = w /\ more = [content |-> h.at[b].content, owners |-> w]
  BY <1>1, <1>2, <1>4, <1>5 DEF Entries
<1>E. more = [e EXCEPT !.owners = Append(@, o)]
  <2>1. e = [content |-> e.content, owners |-> e.owners]
    BY <1>2 DEF Entries
  <2>2. [e EXCEPT !.owners = w] = [content |-> e.content, owners |-> w]
    BY <2>1
  <2> QED BY <1>3, <1>5, <2>2
<1>7. Alloc(more) \in {Alloc(e), Alloc(e) + 1}
  BY <1>2, <1>4, <1>6, EntryBlocks
<1>8. r = IF o \in Range(e.owners) THEN [heap |-> h, block |-> b, freed |-> <<>>]
          ELSE IF ~(Alloc(more) > Alloc(e))
          THEN [heap |-> [len |-> h.len + 0, at |-> [h.at EXCEPT ![b] = more]], block |-> b, freed |-> <<>>]
          ELSE IF b + Alloc(e) = h.len
          THEN [heap |-> [len |-> h.len + 1, at |-> [h.at EXCEPT ![b] = more]], block |-> b, freed |-> <<>>]
          ELSE [heap |-> append_relocated(h, e.content, w), block |-> h.len,
                freed |-> <<[start |-> b, blocks |-> Alloc(e)]>>]
  BY Zenon, <1>1, <1>6, <1>E DEF AddOwner
<1>9. CASE o \in Range(e.owners)
  BY <1>1, <1>8, <1>9 DEF AddedTo
<1>10. CASE o \notin Range(e.owners) /\ ~(Alloc(more) > Alloc(e))
  <2>1. r.heap = [len |-> h.len + 0, at |-> [h.at EXCEPT ![b] = more]] /\ r.block = b /\ r.freed = <<>>
    BY <1>8, <1>10
  <2>2. Alloc(more) <= Alloc(e) + 0
    BY <1>2, <1>7, <1>10
  <2>3. InPlace(h, r.heap, b, 0) /\ r.heap.at[b].owners = w
    BY <1>1, <1>4, <1>6, <2>1, <2>2, InPlaceIntro
  <2> QED BY <1>1, <1>3, <1>10, <2>1, <2>3 DEF AddedTo
<1>11. CASE o \notin Range(e.owners) /\ Alloc(more) > Alloc(e) /\ b + Alloc(e) = h.len
  <2>1. r.heap = [len |-> h.len + 1, at |-> [h.at EXCEPT ![b] = more]] /\ r.block = b /\ r.freed = <<>>
    BY <1>8, <1>11
  <2>2. Alloc(more) <= Alloc(e) + 1
    BY <1>2, <1>7
  <2>3. InPlace(h, r.heap, b, 1) /\ r.heap.at[b].owners = w
    BY <1>1, <1>4, <1>6, <1>11, <2>1, <2>2, InPlaceIntro
  <2> QED BY <1>1, <1>3, <1>11, <2>1, <2>3 DEF AddedTo
<1>12. CASE o \notin Range(e.owners) /\ Alloc(more) > Alloc(e) /\ b + Alloc(e) # h.len
  BY <1>1, <1>3, <1>8, <1>12 DEF AddedTo
<1> QED BY Zenon, <1>9, <1>10, <1>11, <1>12

\* remove_owner leaves the entry or shortens it in place.
LEMMA RemoveOwnerFacts ==
    ASSUME NEW h, IsHeap(h), NEW b \in DOMAIN h.at, NEW o \in Owners,
           NEW r, r = RemoveOwner(h, b, o)
    PROVE  \/ /\ o \notin Range(h.at[b].owners) /\ r.heap = h /\ r.freed = <<>>
              /\ r.dead = (h.at[b].owners = <<>>)
           \/ /\ o \in Range(h.at[b].owners) /\ InPlace(h, r.heap, b, 0)
              /\ \E i \in DOMAIN h.at[b].owners :
                    /\ h.at[b].owners[i] = o
                    /\ r.heap.at[b].owners = SwapRemove(h.at[b].owners, i)
              /\ r.dead = (r.heap.at[b].owners = <<>>)
              /\ r.freed = IF r.dead THEN <<[start |-> b, blocks |-> Alloc(h.at[b])]>> ELSE <<>>
<1>1. PICK e : e = h.at[b]
  OBVIOUS
<1>2. e \in Entries /\ e.content \in Contents /\ e.owners \in Seq(Owners) /\ h.len \in Nat
      /\ Alloc(e) \in Nat /\ b \in Nat
  BY <1>1, HeapFacts
<1>3. PICK i : i = CHOOSE j \in DOMAIN e.owners : e.owners[j] = o
  OBVIOUS
<1>4. PICK left : left = SwapRemove(e.owners, i)
  OBVIOUS
<1>5. r = IF o \notin Range(e.owners)
          THEN [heap |-> h, dead |-> e.owners = <<>>, freed |-> <<>>]
          ELSE [heap |-> [h EXCEPT !.at[b].owners = left], dead |-> left = <<>>,
                freed |-> IF left = <<>> THEN <<[start |-> b, blocks |-> Alloc(e)]>> ELSE <<>>]
  BY <1>1, <1>3, <1>4 DEF RemoveOwner
<1>6. CASE o \notin Range(e.owners)
  BY <1>1, <1>5, <1>6
<1>7. CASE o \in Range(e.owners)
  <2>1. i \in DOMAIN e.owners /\ e.owners[i] = o
    BY <1>3, <1>7 DEF Range
  <2>2. left \in Seq(Owners) /\ Len(left) = Len(e.owners) - 1
    BY <1>2, <1>4, <2>1, SwapRemoveFacts
  <2>3. PICK f : f = [content |-> e.content, owners |-> left]
    BY ZenonT(30)
  <2>4. f \in Entries /\ f.owners = left
    BY <1>2, <2>2, <2>3 DEF Entries
  <2>5. Alloc(f) <= Alloc(e) + 0
    <3>1. Len(e.owners) \in Nat /\ Len(e.owners) = Len(f.owners) + 1
      BY <1>2, <2>2, <2>4
    <3>2. Alloc(e) \in {Alloc(f), Alloc(f) + 1} /\ Alloc(f) \in Nat
      BY <1>2, <2>4, <3>1, EntryBlocks
    <3> QED BY <1>2, <3>2
  <2>6. r.heap = [len |-> h.len + 0, at |-> [h.at EXCEPT ![b] = f]]
    <3>1. r.heap = [h EXCEPT !.at[b].owners = left]
      BY <1>5, <1>7
    <3>2. [e EXCEPT !.owners = left] = f
      BY <1>2, <2>3 DEF Entries
    <3>3. h = [len |-> h.len, at |-> h.at]
      BY DEF IsHeap
    <3>4. [h EXCEPT !.at[b].owners = left] = [len |-> h.len, at |-> [h.at EXCEPT ![b] = [e EXCEPT !.owners = left]]]
      BY <1>1, <3>3
    <3> QED BY <1>2, <3>1, <3>2, <3>4
  <2>7. InPlace(h, r.heap, b, 0) /\ r.heap.at[b].owners = left
    BY <1>1, <2>2, <2>3, <2>4, <2>5, <2>6, InPlaceIntro
  <2>8. r.dead = (left = <<>>) /\ r.freed = IF left = <<>> THEN <<[start |-> b, blocks |-> Alloc(e)]>> ELSE <<>>
    BY <1>5, <1>7
  <2> QED BY Zenon, <1>1, <1>4, <1>7, <2>1, <2>7, <2>8
<1> QED BY <1>6, <1>7

-----------------------------------------------------------------------------
(* What anchors lead to.                                                   *)

LEMMA LeadsInPlace ==
    ASSUME NEW h, IsHeap(h), NEW g, NEW b, NEW k, InPlace(h, g, b, k), NEW a \in AnchorTable,
           Leads(h, a)
    PROVE  Leads(g, a)
<1> SUFFICES ASSUME NEW c \in Contents, a[c] # NoBlock
             PROVE  Readable(g, a[c]) /\ g.at[a[c]].content = c /\ Alone(g, a[c])
  BY DEF Leads
<1>1. PICK y : y = a[c]
  OBVIOUS
<1>2. /\ y \in DOMAIN h.at /\ y + Alloc(h.at[y]) <= h.len /\ h.at[y].content = c
      /\ \A x \in DOMAIN h.at : y < x => y + Alloc(h.at[y]) <= x
  BY <1>1 DEF Leads, Readable, Alone
<1>3. /\ b \in DOMAIN h.at /\ DOMAIN g.at = DOMAIN h.at /\ k \in {0, 1} /\ g.len = h.len + k
      /\ \A x \in DOMAIN h.at \ {b} : g.at[x] = h.at[x]
      /\ g.at[b].content = h.at[b].content
      /\ Alloc(g.at[b]) <= Alloc(h.at[b]) + k
      /\ k = 1 => b + Alloc(h.at[b]) = h.len
      /\ IsHeap(g)
  BY DEF InPlace
<1>4. h.len \in Nat /\ \A x \in DOMAIN h.at : x \in Nat /\ x < h.len /\ Alloc(h.at[x]) \in Nat
                                              /\ Alloc(g.at[x]) \in Nat
  BY <1>3, HeapFacts
<1>5. y + Alloc(g.at[y]) <= g.len /\ \A x \in DOMAIN g.at : y < x => y + Alloc(g.at[y]) <= x
  <2>1. CASE y # b
    BY <1>2, <1>3, <1>4, <2>1
  <2>2. CASE y = b /\ k = 0
    BY <1>2, <1>3, <1>4, <2>2
  <2>3. CASE y = b /\ k = 1
    BY <1>2, <1>3, <1>4, <2>3
  <2> QED BY <1>3, <2>1, <2>2, <2>3
<1> QED BY <1>1, <1>2, <1>3, <1>5 DEF Readable, Alone

LEMMA LeadsAppended ==
    ASSUME NEW h, IsHeap(h), NEW d \in Contents, NEW w \in Seq(Owners),
           NEW g, g = append_relocated(h, d, w), NEW a \in AnchorTable, Leads(h, a)
    PROVE  Leads(g, a) /\ Leads(g, [a EXCEPT ![d] = h.len])
<1>1. /\ IsHeap(g) /\ DOMAIN g.at = DOMAIN h.at \cup {h.len} /\ h.len \notin DOMAIN h.at
      /\ \A x \in DOMAIN h.at : g.at[x] = h.at[x]
      /\ g.at[h.len] = [content |-> d, owners |-> w] /\ g.at[h.len].content = d
      /\ g.len = h.len + Alloc(g.at[h.len]) /\ Alloc(g.at[h.len]) \in Nat \ {0}
  BY AppendShape
<1>2. h.len \in Nat /\ \A x \in DOMAIN h.at : x \in Nat /\ x < h.len /\ Alloc(h.at[x]) \in Nat
  BY HeapFacts
<1>3. ASSUME NEW c \in Contents, a[c] # NoBlock
      PROVE  Readable(g, a[c]) /\ g.at[a[c]].content = c /\ Alone(g, a[c])
  <2>1. PICK y : y = a[c]
    OBVIOUS
  <2>2. /\ y \in DOMAIN h.at /\ y + Alloc(h.at[y]) <= h.len /\ h.at[y].content = c
        /\ \A x \in DOMAIN h.at : y < x => y + Alloc(h.at[y]) <= x
    BY <1>3, <2>1 DEF Leads, Readable, Alone
  <2>3. g.at[y] = h.at[y] /\ y + Alloc(h.at[y]) <= g.len
    BY <1>1, <1>2, <2>2
  <2>4. \A x \in DOMAIN g.at : y < x => y + Alloc(g.at[y]) <= x
    BY <1>1, <2>2, <2>3
  <2> QED BY <1>1, <2>1, <2>2, <2>3, <2>4 DEF Readable, Alone
<1>4. Readable(g, h.len) /\ g.at[h.len].content = d /\ Alone(g, h.len)
  <2>1. \A x \in DOMAIN g.at : ~(h.len < x)
    BY <1>1, <1>2
  <2>2. h.len + Alloc(g.at[h.len]) <= g.len
    BY <1>1, <1>2
  <2> QED BY <1>1, <2>1, <2>2 DEF Readable, Alone
<1>5. Leads(g, [a EXCEPT ![d] = h.len])
  <2>1. \A c \in Contents : [a EXCEPT ![d] = h.len][c] = IF c = d THEN h.len ELSE a[c]
    BY DEF AnchorTable
  <2> QED BY <1>3, <1>4, <2>1 DEF Leads
<1> QED BY <1>3, <1>5 DEF Leads

LEMMA ConcatOne ==
    ASSUME NEW S, NEW s \in Seq(S), NEW x \in S
    PROVE  /\ s \o <<>> = s
           /\ s \o <<x>> \in Seq(S) /\ DOMAIN (s \o <<x>>) = DOMAIN s \cup {Len(s) + 1}
           /\ Len(s) + 1 \notin DOMAIN s
           /\ \A i \in DOMAIN s : (s \o <<x>>)[i] = s[i]
           /\ (s \o <<x>>)[Len(s) + 1] = x
<1>1. s \o <<x>> = Append(s, x) /\ s \o <<>> = s
  OBVIOUS
<1>2. PICK a : a = Append(s, x)
  BY ZenonT(30)
<1>3. /\ a \in Seq(S) /\ DOMAIN a = DOMAIN s \cup {Len(s) + 1}
      /\ \A i \in DOMAIN s : a[i] = s[i]
      /\ a[Len(s) + 1] = x /\ Len(s) + 1 \notin DOMAIN s
  BY <1>2
<1> QED BY <1>1, <1>2, <1>3

-----------------------------------------------------------------------------
(* A call changes one entry, or adds one, and then its anchor.             *)

LEMMA HeapAppended ==
    ASSUME IsHeap(heap), NEW d \in Contents,
           \E v \in Seq(Owners) : heap' = append_relocated(heap, d, v)
    PROVE  /\ IsHeap(heap') /\ heap'.len = heap.len + Alloc(heap'.at[heap.len])
           /\ Alloc(heap'.at[heap.len]) \in Nat
           /\ \A x \in DOMAIN heap.at : heap'.at[x] = heap.at[x]
<1>1. PICK v \in Seq(Owners) : heap' = append_relocated(heap, d, v)
  OBVIOUS
<1>2. PICK h, g : h = heap /\ g = heap'
  OBVIOUS
<1>3. IsHeap(h) /\ g = append_relocated(h, d, v)
  BY <1>1, <1>2
<1>4. /\ IsHeap(g) /\ DOMAIN g.at = DOMAIN h.at \cup {h.len} /\ h.len \notin DOMAIN h.at
      /\ \A x \in DOMAIN h.at : g.at[x] = h.at[x]
      /\ g.at[h.len] = [content |-> d, owners |-> v] /\ g.at[h.len] \in Entries
      /\ g.len = h.len + Alloc(g.at[h.len]) /\ Alloc(g.at[h.len]) \in Nat \ {0}
  BY <1>3, AppendShape
<1>5. Alloc(g.at[h.len]) \in Nat
  BY <1>4
<1> QED BY <1>2, <1>4, <1>5

LEMMA FreedTypes ==
    ASSUME HeapTypeOK
    PROVE  \A j \in DOMAIN freed : freed[j].start \in Nat /\ freed[j].blocks \in Nat
<1>1. \A j \in DOMAIN freed : freed[j] \in Freed
  BY DEF HeapTypeOK
<1>2. \A x \in Freed : x.start \in Nat /\ x.blocks \in Nat
  BY DEF Freed
<1> QED BY <1>1, <1>2

\* The blocks an anchor leads to after a call are those from before, or behind the
\* old end of the file.
LEMMA ExtentsMove ==
    ASSUME HeapTypeOK, NEW c \in Contents, Leads(heap, anchor),
           \/ /\ \E k \in {0, 1} : InPlace(heap, heap', anchor[c], k)
              /\ anchor' \in {anchor, [anchor EXCEPT ![c] = NoBlock]}
           \/ /\ \E w \in Seq(Owners) : heap' = append_relocated(heap, c, w)
              /\ anchor' \in {anchor, [anchor EXCEPT ![c] = heap.len]},
           NEW d \in Contents, anchor'[d] # NoBlock
    PROVE  \/ /\ anchor'[d] = anchor[d]
              /\ \A z \in Extent(heap', anchor'[d]) : z \in Extent(heap, anchor[d]) \/ z >= heap.len
           \/ anchor'[d] = heap.len /\ \A z \in Extent(heap', anchor'[d]) : z >= heap.len
<1>T. IsHeap(heap) /\ anchor \in [Contents -> Nat]
  BY DEF HeapTypeOK, AnchorTable
<1>1. heap.len \in Nat /\ \A x \in DOMAIN heap.at : x \in Nat /\ Alloc(heap.at[x]) \in Nat
  BY <1>T, HeapFacts
<1>2. CASE \E k \in {0, 1} : InPlace(heap, heap', anchor[c], k)
                             /\ anchor' \in {anchor, [anchor EXCEPT ![c] = NoBlock]}
  <2>1. PICK k \in {0, 1} : InPlace(heap, heap', anchor[c], k)
    BY <1>2
  <2>2. anchor'[d] = anchor[d]
    BY <1>2, <1>T
  <2>3. PICK b, y : b = anchor[c] /\ y = anchor[d]
    OBVIOUS
  <2>4. /\ b \in DOMAIN heap.at /\ DOMAIN heap'.at = DOMAIN heap.at
        /\ \A x \in DOMAIN heap.at \ {b} : heap'.at[x] = heap.at[x]
        /\ Alloc(heap'.at[b]) <= Alloc(heap.at[b]) + k
        /\ k = 1 => b + Alloc(heap.at[b]) = heap.len
        /\ IsHeap(heap')
    BY <2>1, <2>3 DEF InPlace
  <2>5. y \in DOMAIN heap.at /\ Alloc(heap'.at[y]) \in Nat
    <3>1. y \in DOMAIN heap.at
      BY <2>2, <2>3 DEF Leads, Readable
    <3> QED BY <2>4, <3>1, HeapFacts
  <2>6. \A z \in y .. y + Alloc(heap'.at[y]) - 1 :
           z \in y .. y + Alloc(heap.at[y]) - 1 \/ z >= heap.len
    <3>1. CASE y # b
      BY <2>4, <2>5, <3>1
    <3>2. CASE y = b /\ k = 0
      BY <1>1, <2>4, <2>5, <3>2
    <3>3. CASE y = b /\ k = 1
      BY <1>1, <2>4, <2>5, <3>3
    <3> QED BY <3>1, <3>2, <3>3
  <2> QED BY <2>2, <2>3, <2>6 DEF Extent
<1>3. CASE \E w \in Seq(Owners) : heap' = append_relocated(heap, c, w)
                                  /\ anchor' \in {anchor, [anchor EXCEPT ![c] = heap.len]}
  <2>1. PICK w \in Seq(Owners) : heap' = append_relocated(heap, c, w)
    BY <1>3
  <2>2. /\ \A x \in DOMAIN heap.at : heap'.at[x] = heap.at[x]
        /\ Alloc(heap'.at[heap.len]) \in Nat
    BY <1>T, <2>1, HeapAppended
  <2>3. CASE anchor'[d] = anchor[d]
    <3>1. anchor[d] \in DOMAIN heap.at
      BY <2>3 DEF Leads, Readable
    <3> QED BY <2>2, <2>3, <3>1 DEF Extent
  <2>4. CASE anchor'[d] = heap.len
    <3>1. \A z \in heap.len .. heap.len + Alloc(heap'.at[heap.len]) - 1 : z >= heap.len
      BY <1>1, <2>2
    <3> QED BY <2>4, <3>1 DEF Extent
  <2> QED BY <1>3, <1>T, <2>3, <2>4
<1> QED BY <1>2, <1>3

LEMMA CallStep ==
    ASSUME HeapInv, NEW c \in Contents, heap.len # NoBlock \/ heap'.len = heap.len \/ anchor' = anchor,
           \/ /\ anchor[c] # NoBlock /\ \E k \in {0, 1} : InPlace(heap, heap', anchor[c], k)
              /\ anchor' \in {anchor, [anchor EXCEPT ![c] = NoBlock]}
           \/ /\ \E w \in Seq(Owners) : heap' = append_relocated(heap, c, w)
              /\ anchor' \in {anchor, [anchor EXCEPT ![c] = heap.len]},
           stale' \in {stale, stale \cup {c}},
           \/ freed' = freed
           \/ /\ anchor[c] # NoBlock /\ anchor[c] \in DOMAIN heap.at
              /\ freed' = freed \o <<[start |-> anchor[c], blocks |-> Alloc(heap.at[anchor[c]])]>>
              /\ c \notin stale' => anchor'[c] # anchor[c],
           claims' \in ClaimTable, \A d \in Contents \ {c} : claims'[d] = claims[d],
           ~dangling /\ c \notin stale' =>
              IF anchor'[c] # NoBlock THEN Lists(heap', anchor'[c], claims'[c]) ELSE claims'[c] = {},
           UNCHANGED <<heapBin, dataBin, claimsBin, ordered, dangling>>
    PROVE  HeapInv'
<1>T. /\ IsHeap(heap) /\ IsHeap(heapBin) /\ heapBin.len <= heap.len /\ freed \in Seq(Freed)
      /\ anchor \in [Contents -> Nat] /\ dataBin \in AnchorTable /\ stale \subseteq Contents
      /\ anchor \in AnchorTable
  BY DEF HeapInv, HeapTypeOK, AnchorTable
<1>1. heap.len \in Nat /\ heapBin.len \in Nat /\ NoBlock \in Nat
      /\ \A x \in DOMAIN heap.at : x \in Nat /\ Alloc(heap.at[x]) \in Nat
  BY <1>T, HeapFacts, Limits DEF NoBlock
<1>2. IsHeap(heap') /\ heap'.len \in Nat /\ heap.len <= heap'.len
  <2>1. CASE \E k \in {0, 1} : InPlace(heap, heap', anchor[c], k)
    <3>1. IsHeap(heap') /\ \E k \in {0, 1} : heap'.len = heap.len + k
      BY <2>1 DEF InPlace
    <3> QED BY <1>1, <3>1
  <2>2. CASE \E w \in Seq(Owners) : heap' = append_relocated(heap, c, w)
    <3>1. IsHeap(heap') /\ heap'.len = heap.len + Alloc(heap'.at[heap.len])
          /\ Alloc(heap'.at[heap.len]) \in Nat
      BY <1>T, <2>2, HeapAppended
    <3> QED BY <1>1, <3>1
  <2> QED BY <2>1, <2>2
<1>3. anchor' \in AnchorTable
  BY Zenon, <1>1, <1>T DEF AnchorTable
<1>4. freed' \in Seq(Freed)
  <2>1. CASE freed' = freed
    BY <1>T, <2>1
  <2>2. CASE freed' # freed
    <3>1. PICK x : x = [start |-> anchor[c], blocks |-> Alloc(heap.at[anchor[c]])]
      OBVIOUS
    <3>2. x \in Freed /\ freed' = freed \o <<x>>
      BY <1>1, <1>T, <2>2, <3>1 DEF Freed
    <3> QED BY <1>T, <3>2, ConcatOne
  <2> QED BY <2>1, <2>2
<1>5. HeapTypeOK'
  BY <1>1, <1>2, <1>3, <1>4, <1>T DEF HeapInv, HeapTypeOK
<1>6. Reaches'
  <2> SUFFICES ASSUME ~dangling
               PROVE  /\ Leads(heap', anchor') /\ Leads(heap', dataBin)
                      /\ Keeps(heapBin, anchor') /\ Keeps(heapBin, dataBin)
    BY DEF Reaches
  <2>0. /\ Leads(heap, anchor) /\ Leads(heap, dataBin)
        /\ Keeps(heapBin, anchor) /\ Keeps(heapBin, dataBin)
    BY DEF HeapInv, Reaches
  <2>1. Leads(heap', anchor) /\ Leads(heap', dataBin)
        /\ (anchor' = [anchor EXCEPT ![c] = heap.len] => Leads(heap', anchor') \/ anchor' = [anchor EXCEPT ![c] = NoBlock])
    BY ZenonT(30), <1>T, <2>0, LeadsInPlace, LeadsAppended
  <2>2. \A d \in Contents : \/ anchor'[d] = anchor[d] \/ anchor'[d] = NoBlock
                            \/ anchor'[d] = heap.len
    BY <1>T
  <2>3. Leads(heap', anchor')
    <3>1. CASE anchor' = anchor
      BY <2>1, <3>1
    <3>2. CASE anchor' = [anchor EXCEPT ![c] = NoBlock]
      <4>1. \A d \in Contents : anchor'[d] # NoBlock => anchor'[d] = anchor[d]
        BY <1>T, <3>2
      <4> QED BY <2>1, <4>1 DEF Leads
    <3>3. CASE anchor' = [anchor EXCEPT ![c] = heap.len]
      BY <2>1, <3>2, <3>3
    <3> QED BY <3>1, <3>2, <3>3
  <2>4. Keeps(heapBin, anchor')
    <3>1. \A d \in Contents : anchor'[d] # NoBlock /\ anchor'[d] < heapBin.len => anchor'[d] = anchor[d]
      BY <1>1, <1>T, <2>2
    <3> QED BY <2>0, <3>1 DEF Keeps
  <2> QED BY <2>0, <2>1, <2>3, <2>4
<1>7. \A d \in Contents \ {c} : anchor'[d] = anchor[d]
  BY <1>T
<1>8. OwnersTrue'
  <2> SUFFICES ASSUME NEW d \in Contents, d \notin stale', ~dangling
               PROVE  IF anchor'[d] # NoBlock THEN Lists(heap', anchor'[d], claims'[d])
                      ELSE claims'[d] = {}
    BY DEF OwnersTrue
  <2>1. CASE d = c
    BY <2>1
  <2>2. CASE d # c
    <3>1. anchor'[d] = anchor[d] /\ claims'[d] = claims[d] /\ d \notin stale
      BY <1>7, <2>2
    <3>2. IF anchor[d] # NoBlock THEN Lists(heap, anchor[d], claims[d]) ELSE claims[d] = {}
      BY <3>1 DEF HeapInv, OwnersTrue
    <3>3. Leads(heap, anchor)
      BY DEF HeapInv, Reaches
    <3>4. anchor[d] # NoBlock => anchor[d] \in DOMAIN heap.at /\ heap.at[anchor[d]].content = d
      BY <3>3 DEF Leads, Readable
    <3>5. anchor[c] # NoBlock => heap.at[anchor[c]].content = c
      BY <3>3 DEF Leads
    <3>6. anchor[d] # NoBlock => heap'.at[anchor[d]] = heap.at[anchor[d]]
      <4>1. CASE anchor[c] # NoBlock /\ \E k \in {0, 1} : InPlace(heap, heap', anchor[c], k)
        <5>1. \A x \in DOMAIN heap.at \ {anchor[c]} : heap'.at[x] = heap.at[x]
          BY <4>1 DEF InPlace
        <5> QED BY <2>2, <3>4, <3>5, <4>1, <5>1
      <4>2. CASE \E w \in Seq(Owners) : heap' = append_relocated(heap, c, w)
        BY <1>T, <3>4, <4>2, HeapAppended
      <4> QED BY <4>1, <4>2
    <3> QED BY <3>1, <3>2, <3>6 DEF Lists
  <2> QED BY <2>1, <2>2
<1>9. OwnersSaved'
  BY DEF HeapInv, OwnersSaved
<1>10. SavedInOrder'
  BY DEF HeapInv, SavedInOrder
<1>11. FreedInFile'
  <2> SUFFICES ASSUME ~dangling, NEW i \in DOMAIN freed'
               PROVE  freed'[i].start + freed'[i].blocks <= heap'.len
    BY DEF FreedInFile
  <2>1. \A j \in DOMAIN freed : freed[j].start + freed[j].blocks <= heap'.len
    <3>1. \A j \in DOMAIN freed : freed[j].start \in Nat /\ freed[j].blocks \in Nat
      BY FreedTypes DEF HeapInv
    <3>2. \A j \in DOMAIN freed : freed[j].start + freed[j].blocks <= heap.len
      BY DEF HeapInv, FreedInFile
    <3> QED BY <1>1, <1>2, <3>1, <3>2
  <2>2. CASE freed' = freed
    BY <2>1, <2>2
  <2>3. CASE freed' # freed
    <3>1. PICK x : x = [start |-> anchor[c], blocks |-> Alloc(heap.at[anchor[c]])]
      OBVIOUS
    <3>2. x \in Freed /\ freed' = freed \o <<x>> /\ anchor[c] # NoBlock
      BY <1>1, <1>T, <2>3, <3>1 DEF Freed
    <3>3. anchor[c] + Alloc(heap.at[anchor[c]]) <= heap.len
      BY <3>2 DEF HeapInv, Reaches, Leads, Readable
    <3>4. x.start + x.blocks <= heap'.len
      BY <1>1, <1>2, <1>T, <2>3, <3>1, <3>3
    <3> QED BY <1>T, <2>1, <3>2, <3>4, ConcatOne
  <2> QED BY <2>2, <2>3
<1>12. FreedIsDead'
  <2> SUFFICES ASSUME ~dangling, stale' = {}
               PROVE  /\ \A i, j \in DOMAIN freed' : i # j => Span(freed'[i]) \cap Span(freed'[j]) = {}
                      /\ \A i \in DOMAIN freed', d \in Contents :
                            anchor'[d] # NoBlock => Span(freed'[i]) \cap Extent(heap', anchor'[d]) = {}
    BY DEF FreedIsDead, Live
  <2>1. stale = {} /\ c \notin stale'
    OBVIOUS
  <2>2. Leads(heap, anchor)
    BY DEF HeapInv, Reaches
  <2>3. /\ \A i, j \in DOMAIN freed : i # j => Span(freed[i]) \cap Span(freed[j]) = {}
        /\ \A i \in DOMAIN freed, d \in Contents :
              anchor[d] # NoBlock => Span(freed[i]) \cap Extent(heap, anchor[d]) = {}
    BY <2>1 DEF HeapInv, FreedIsDead, Live
  <2>4. \A d \in Contents : anchor'[d] # NoBlock =>
           \/ /\ anchor'[d] = anchor[d]
              /\ \A z \in Extent(heap', anchor'[d]) : z \in Extent(heap, anchor[d]) \/ z >= heap.len
           \/ anchor'[d] = heap.len /\ \A z \in Extent(heap', anchor'[d]) : z >= heap.len
    BY <2>2, ExtentsMove DEF HeapInv
  <2>5. \A i \in DOMAIN freed, z \in Nat : z \in Span(freed[i]) => z < heap.len
    <3>1. \A j \in DOMAIN freed : freed[j].start \in Nat /\ freed[j].blocks \in Nat
      BY FreedTypes DEF HeapInv
    <3>2. \A j \in DOMAIN freed : freed[j].start + freed[j].blocks <= heap.len
      BY DEF HeapInv, FreedInFile
    <3> QED BY <1>1, <3>1, <3>2 DEF Span
  <2>6. \A i \in DOMAIN freed : Span(freed[i]) \subseteq Nat
    <3>1. \A j \in DOMAIN freed : freed[j].start \in Nat /\ freed[j].blocks \in Nat
      BY FreedTypes DEF HeapInv
    <3> QED BY <3>1 DEF Span
  <2>7. \A i \in DOMAIN freed, d \in Contents :
           anchor'[d] # NoBlock => Span(freed[i]) \cap Extent(heap', anchor'[d]) = {}
    <3> SUFFICES ASSUME NEW i \in DOMAIN freed, NEW d \in Contents, anchor'[d] # NoBlock,
                        NEW z \in Span(freed[i]), z \in Extent(heap', anchor'[d])
                 PROVE  FALSE
      OBVIOUS
    <3>1. z \in Nat /\ z < heap.len
      BY <2>5, <2>6
    <3>2. ~(z >= heap.len)
      BY <1>1, <3>1
    <3>3. anchor'[d] = anchor[d] /\ z \in Extent(heap, anchor[d])
      BY <2>4, <3>2
    <3> QED BY <2>3, <3>3
  <2>8. CASE freed' = freed
    BY <2>3, <2>7, <2>8
  <2>9. CASE freed' # freed
    <3>1. PICK x : x = [start |-> anchor[c], blocks |-> Alloc(heap.at[anchor[c]])]
      OBVIOUS
    <3>2. /\ x \in Freed /\ freed' = freed \o <<x>> /\ anchor[c] # NoBlock
          /\ anchor[c] \in DOMAIN heap.at /\ anchor'[c] # anchor[c]
      BY <1>1, <1>T, <2>1, <2>9, <3>1 DEF Freed
    <3>3. Span(x) = Extent(heap, anchor[c])
      BY <3>1 DEF Span, Extent
    <3>4. /\ DOMAIN freed' = DOMAIN freed \cup {Len(freed) + 1} /\ Len(freed) + 1 \notin DOMAIN freed
          /\ \A i \in DOMAIN freed : freed'[i] = freed[i]
          /\ freed'[Len(freed) + 1] = x
      BY <1>T, <3>2, ConcatOne
    <3>5. \A i \in DOMAIN freed : Span(freed[i]) \cap Span(x) = {}
      BY <2>3, <3>2, <3>3
    <3>6. ASSUME NEW d \in Contents, anchor'[d] # NoBlock,
                 NEW z \in Span(x), z \in Extent(heap', anchor'[d])
          PROVE  FALSE
      <4>1. PICK b, y : b = anchor[c] /\ y = anchor[d]
        OBVIOUS
      <4>2. /\ b \in DOMAIN heap.at /\ b + Alloc(heap.at[b]) <= heap.len /\ heap.at[b].content = c
            /\ \A w \in DOMAIN heap.at : b < w => b + Alloc(heap.at[b]) <= w
        BY <2>2, <3>2, <4>1 DEF Leads, Readable, Alone
      <4>3. z \in Nat /\ b <= z /\ z < b + Alloc(heap.at[b])
        BY <1>1, <3>3, <4>1, <4>2 DEF Extent
      <4>4. ~(z >= heap.len)
        BY <1>1, <4>2, <4>3
      <4>5. anchor'[d] = y /\ z \in Extent(heap, y) /\ d # c
        BY <2>4, <3>2, <3>6, <4>1, <4>4
      <4>6. /\ y \in DOMAIN heap.at /\ heap.at[y].content = d
            /\ \A w \in DOMAIN heap.at : y < w => y + Alloc(heap.at[y]) <= w
        BY <2>2, <3>6, <4>1, <4>5 DEF Leads, Readable, Alone
      <4>7. y <= z /\ z < y + Alloc(heap.at[y]) /\ y # b
        BY <1>1, <4>2, <4>3, <4>5, <4>6 DEF Extent
      <4>8. CASE y < b
        BY <1>1, <4>2, <4>3, <4>6, <4>7, <4>8
      <4>9. CASE b < y
        BY <1>1, <4>2, <4>3, <4>6, <4>7, <4>9
      <4> QED BY <1>1, <4>2, <4>6, <4>7, <4>8, <4>9
    <3>7. \A d \in Contents : anchor'[d] # NoBlock => Span(x) \cap Extent(heap', anchor'[d]) = {}
      BY <3>6
    <3> QED BY SMTT(30), <2>3, <2>7, <3>4, <3>5, <3>7
  <2> QED BY <2>8, <2>9
<1> QED BY <1>5, <1>6, <1>8, <1>9, <1>10, <1>11, <1>12 DEF HeapInv

LEMMA InitHeapInv == HeapInit => HeapInv
<1> SUFFICES ASSUME HeapInit PROVE HeapInv
  OBVIOUS
<1>1. /\ heap = [len |-> 0, at |-> <<>>] /\ heapBin = heap /\ freed = <<>>
      /\ anchor = [c \in Contents |-> NoBlock] /\ dataBin = anchor
      /\ claims = [c \in Contents |-> {}]
      /\ claimsBin = [claims |-> claims, anchor |-> anchor] /\ stale = {} /\ ~dangling
  BY DEF HeapInit, Empty, Nobody, NoAnchors
<1>2. NoBlock \in Nat
  BY Limits DEF NoBlock
<1>3. <<>> \in [{} -> Entries] /\ DOMAIN <<>> = {} /\ <<>> \in Seq(Freed)
  OBVIOUS
<1>4. IsHeap(heap) /\ heap.len \in Nat
  BY <1>1, <1>3 DEF IsHeap
<1>5. /\ anchor \in AnchorTable /\ claims \in ClaimTable
      /\ claimsBin \in [claims : ClaimTable, anchor : AnchorTable]
  BY <1>1, <1>2 DEF AnchorTable, ClaimTable
<1>6. HeapTypeOK
  BY <1>1, <1>3, <1>4, <1>5 DEF HeapTypeOK
<1>7. \A c \in Contents : /\ anchor[c] = NoBlock /\ dataBin[c] = NoBlock /\ claims[c] = {}
                          /\ claimsBin.anchor[c] = NoBlock /\ claimsBin.claims[c] = {}
  BY <1>1
<1>8. Reaches /\ SavedInOrder
  BY <1>7 DEF Reaches, Leads, Keeps, SavedInOrder
<1>9. OwnersTrue /\ OwnersSaved
  BY <1>7 DEF OwnersTrue, OwnersSaved
<1>10. FreedInFile /\ FreedIsDead
  BY <1>1, <1>3 DEF FreedInFile, FreedIsDead
<1> QED BY <1>6, <1>8, <1>9, <1>10 DEF HeapInv

\* The claims of a call's content change, and no others.
LEMMA ClaimsMove ==
    ASSUME HeapInv, NEW c \in Contents, NEW s \in SUBSET Owners,
           claims' = [claims EXCEPT ![c] = s]
    PROVE  claims' \in ClaimTable /\ claims'[c] = s /\ \A d \in Contents \ {c} : claims'[d] = claims[d]
BY DEF HeapInv, HeapTypeOK, ClaimTable

LEMMA StoreNewStep ==
    ASSUME HeapInv, NEW c \in Contents, NEW o \in Owners, StoreNew(c, o)
    PROVE  HeapInv'
<1>T. /\ IsHeap(heap) /\ heap.len \in Nat /\ anchor \in [Contents -> Nat]
      /\ claims[c] \in SUBSET Owners
  BY HeapFacts DEF HeapInv, HeapTypeOK, AnchorTable, ClaimTable
<1>0. /\ anchor[c] = NoBlock /\ heap.len + BlocksFor(Base + 1) <= MaxHeapBlocks
      /\ heap' = append_relocated(heap, c, <<o>>) /\ WriteAnchor(c, heap.len)
      /\ claims' = [claims EXCEPT ![c] = claims[c] \cup {o}] /\ freed' = freed
      /\ UNCHANGED <<heapBin, dataBin, claimsBin, ordered, dangling>>
  BY DEF StoreNew, append_entry, files
<1>1. heap.len # NoBlock
  <2>1. Base + 1 \in Nat \ {0} /\ MaxHeapBlocks \in Nat
    BY Limits
  <2>2. BlocksFor(Base + 1) \in Nat \ {0}
    BY <2>1, BlocksGrow
  <2> QED BY <1>0, <1>T, <2>1, <2>2 DEF NoBlock
<1>2. claims[c] \cup {o} \in SUBSET Owners
  BY <1>T
<1>3. /\ claims' \in ClaimTable /\ claims'[c] = claims[c] \cup {o}
      /\ \A d \in Contents \ {c} : claims'[d] = claims[d]
  BY ZenonT(30), <1>0, <1>2, ClaimsMove
<1>4. PICK w \in Seq(Owners) : w = <<o>>
  <2>1. <<o>> \in Seq(Owners)
    OBVIOUS
  <2> QED BY Zenon, <2>1
<1>5. Range(w) = {o} /\ IsInjective(w)
  BY <1>4 DEF Range, IsInjective
<1>6. heap'.at[heap.len].owners = w
  <2>1. PICK h, g : h = heap /\ g = heap'
    BY Zenon
  <2>2. IsHeap(h) /\ g = append_relocated(h, c, w)
    BY <1>0, <1>4, <1>T, <2>1
  <2>3. /\ IsHeap(g) /\ DOMAIN g.at = DOMAIN h.at \cup {h.len} /\ h.len \notin DOMAIN h.at
        /\ \A x \in DOMAIN h.at : g.at[x] = h.at[x]
        /\ g.at[h.len] = [content |-> c, owners |-> w] /\ g.at[h.len] \in Entries
        /\ g.len = h.len + Alloc(g.at[h.len]) /\ Alloc(g.at[h.len]) \in Nat \ {0}
    BY <2>2, AppendShape
  <2> QED BY <2>1, <2>3
<1>7. ~dangling /\ c \notin stale => Lists(heap', heap.len, claims'[c])
  <2>1. ~dangling /\ c \notin stale => claims[c] = {}
    BY <1>0 DEF HeapInv, OwnersTrue
  <2> QED BY <1>3, <1>5, <1>6, <2>1 DEF Lists
<1>8. \E v \in Seq(Owners) : heap' = append_relocated(heap, c, v)
  BY ZenonT(30), <1>0, <1>4
<1>9. CASE anchor' = [anchor EXCEPT ![c] = heap.len] /\ stale' = stale
  <2>1. anchor'[c] = heap.len
    BY <1>9, <1>T
  <2> QED BY ZenonT(30), <1>0, <1>1, <1>3, <1>7, <1>8, <1>9, <2>1, CallStep
<1>10. CASE anchor' = anchor /\ stale' = stale \cup {c}
  BY ZenonT(30), <1>0, <1>1, <1>3, <1>8, <1>10, CallStep
<1> QED BY <1>0, <1>9, <1>10 DEF WriteAnchor

LEMMA StoreSharedStep ==
    ASSUME HeapInv, NEW c \in Contents, NEW o \in Owners, StoreShared(c, o)
    PROVE  HeapInv'
<1>T. /\ IsHeap(heap) /\ heap.len \in Nat /\ anchor \in [Contents -> Nat]
      /\ claims[c] \in SUBSET Owners /\ freed \in Seq(Freed) /\ freed \o <<>> = freed
  BY HeapFacts DEF HeapInv, HeapTypeOK, AnchorTable, ClaimTable
<1>1. PICK b : b = anchor[c]
  BY Zenon
<1>2. PICK r : r = AddOwner(heap, b, o)
  BY Zenon
<1>0. /\ b # NoBlock /\ b \in DOMAIN heap.at /\ heap.at[b].content = c
      /\ r.heap.len <= MaxHeapBlocks /\ heap' = r.heap /\ freed' = freed \o r.freed
      /\ WriteAnchor(c, r.block)
      /\ claims' = [claims EXCEPT ![c] = claims[c] \cup {o}]
      /\ UNCHANGED <<heapBin, dataBin, claimsBin, ordered, dangling>>
  BY <1>1, <1>2 DEF StoreShared, Readable, files
<1>3. claims[c] \cup {o} \in SUBSET Owners
  BY <1>T
<1>4. /\ claims' \in ClaimTable /\ claims'[c] = claims[c] \cup {o}
      /\ \A d \in Contents \ {c} : claims'[d] = claims[d]
  <2>1. PICK t \in SUBSET Owners : t = claims[c] \cup {o}
    BY Zenon, <1>3
  <2>2. claims' = [claims EXCEPT ![c] = t]
    BY <1>0, <2>1
  <2> QED BY ZenonT(30), <2>1, <2>2, ClaimsMove
<1>5. PICK s : s = heap.at[b].owners
  BY Zenon
<1>6. s \in Seq(Owners) /\ b \in Nat /\ b < heap.len
  BY <1>0, <1>5, <1>T, HeapFacts
<1>7. ~dangling /\ c \notin stale => Range(s) = claims[c] /\ IsInjective(s)
  BY <1>0, <1>1, <1>5 DEF HeapInv, OwnersTrue, Lists
<1>8. /\ Append(s, o) \in Seq(Owners) /\ Range(Append(s, o)) = Range(s) \cup {o}
      /\ IsInjective(s) /\ o \notin Range(s) => IsInjective(Append(s, o))
  BY <1>6, AppendOwner
<1>9. /\ r.block = b => anchor' = anchor /\ stale' = stale
      /\ \/ anchor' = [anchor EXCEPT ![c] = r.block] /\ stale' = stale
         \/ anchor' = anchor /\ stale' = stale \cup {c}
  BY <1>0, <1>1, <1>T DEF WriteAnchor
<1>10. CASE o \in Range(s) /\ r.heap = heap /\ r.block = b /\ r.freed = <<>>
  <2>1. InPlace(heap, heap', b, 0) /\ anchor' = anchor /\ stale' = stale /\ freed' = freed
    BY <1>0, <1>9, <1>10, <1>T, InPlaceSame
  <2>2. ~dangling /\ c \notin stale => Lists(heap', b, claims'[c])
    BY ZenonT(30), <1>0, <1>4, <1>5, <1>7, <1>10 DEF Lists
  <2> QED BY ZenonT(30), <1>0, <1>1, <1>4, <2>1, <2>2, CallStep
<1>11. CASE /\ o \notin Range(s) /\ r.block = b /\ r.freed = <<>>
            /\ \E k \in {0, 1} : InPlace(heap, r.heap, b, k)
            /\ r.heap.at[b].owners = Append(s, o)
  <2>1. anchor' = anchor /\ stale' = stale /\ freed' = freed
    BY <1>0, <1>9, <1>11, <1>T
  <2>2. ~dangling /\ c \notin stale => Lists(heap', b, claims'[c])
    BY <1>0, <1>4, <1>7, <1>8, <1>11 DEF Lists
  <2>3. \E k \in {0, 1} : InPlace(heap, heap', b, k)
    BY SMTT(30), <1>0, <1>11
  <2> QED BY ZenonT(30), <1>0, <1>1, <1>4, <2>1, <2>2, <2>3, CallStep
<1>12. CASE /\ o \notin Range(s) /\ r.block = heap.len
            /\ r.heap = append_relocated(heap, c, Append(s, o))
            /\ r.freed = <<[start |-> b, blocks |-> Alloc(heap.at[b])]>>
  <2>1. PICK w \in Seq(Owners) : w = Append(s, o)
    BY Zenon, <1>8
  <2>2. PICK h, g : h = heap /\ g = heap'
    BY Zenon
  <2>3. IsHeap(h) /\ g = append_relocated(h, c, w)
    BY ZenonT(30), <1>0, <1>12, <1>T, <2>1, <2>2
  <2>4. /\ IsHeap(g) /\ DOMAIN g.at = DOMAIN h.at \cup {h.len} /\ h.len \notin DOMAIN h.at
        /\ \A x \in DOMAIN h.at : g.at[x] = h.at[x]
        /\ g.at[h.len] = [content |-> c, owners |-> w] /\ g.at[h.len] \in Entries
        /\ g.len = h.len + Alloc(g.at[h.len]) /\ Alloc(g.at[h.len]) \in Nat \ {0}
    BY <2>3, AppendShape
  <2>5. heap'.at[heap.len].owners = w
    BY <2>2, <2>4
  <2>6. heap.len # NoBlock
    <3>1. MaxHeapBlocks \in Nat /\ heap'.len <= MaxHeapBlocks
      BY <1>0, Limits
    <3> QED BY SMTT(30), <1>T, <2>2, <2>4, <3>1 DEF NoBlock
  <2>7. \E v \in Seq(Owners) : heap' = append_relocated(heap, c, v)
    BY <2>2, <2>3
  <2>8. ~dangling /\ c \notin stale => Lists(heap', heap.len, claims'[c])
    BY SMTT(30), <1>4, <1>7, <1>8, <1>12, <2>1, <2>5 DEF Lists
  <2>9. freed' = freed \o <<[start |-> anchor[c], blocks |-> Alloc(heap.at[anchor[c]])]>>
    BY ZenonT(30), <1>0, <1>1, <1>12
  <2>10. CASE anchor' = [anchor EXCEPT ![c] = heap.len] /\ stale' = stale
    <3>1. anchor'[c] = heap.len /\ anchor'[c] # anchor[c]
      BY <1>1, <1>6, <1>T, <2>10
    <3> QED BY ZenonT(30), <1>0, <1>1, <1>4, <2>6, <2>7, <2>8, <2>9, <2>10, <3>1, CallStep
  <2>11. CASE anchor' = anchor /\ stale' = stale \cup {c}
    BY ZenonT(30), <1>0, <1>1, <1>4, <2>6, <2>7, <2>9, <2>11, CallStep
  <2> QED BY <1>9, <1>12, <2>10, <2>11
<1> QED
  <2>0. IsHeap(heap) /\ b \in DOMAIN heap.at /\ r = AddOwner(heap, b, o)
    BY <1>0, <1>2, <1>T
  <2>1. AddedTo(heap, b, o, r)
    BY <2>0, AddOwnerFacts
  <2>2. heap.at[b].owners = s /\ heap.at[b].content = c
    BY <1>0, <1>5
  <2> QED BY <1>10, <1>11, <1>12, <2>1, <2>2 DEF AddedTo

LEMMA ReleaseStep ==
    ASSUME HeapInv, NEW c \in Contents, NEW o \in Owners, Release(c, o)
    PROVE  HeapInv'
<1>T. /\ IsHeap(heap) /\ heap.len \in Nat /\ anchor \in [Contents -> Nat]
      /\ claims[c] \in SUBSET Owners /\ freed \in Seq(Freed) /\ freed \o <<>> = freed
  BY HeapFacts DEF HeapInv, HeapTypeOK, AnchorTable, ClaimTable
<1>1. PICK b : b = anchor[c]
  BY Zenon
<1>2. PICK r : r = RemoveOwner(heap, b, o)
  BY Zenon
<1>0. /\ b # NoBlock /\ b \in DOMAIN heap.at
      /\ heap' = r.heap /\ freed' = freed \o r.freed
      /\ WriteAnchor(c, IF r.dead THEN NoBlock ELSE b)
      /\ claims' = [claims EXCEPT ![c] = claims[c] \ {o}]
      /\ UNCHANGED <<heapBin, dataBin, claimsBin, ordered, dangling>>
  BY ZenonT(30), <1>1, <1>2 DEF Release, Readable, files
<1>3. /\ claims' \in ClaimTable /\ claims'[c] = claims[c] \ {o}
      /\ \A d \in Contents \ {c} : claims'[d] = claims[d]
  <2>1. PICK t \in SUBSET Owners : t = claims[c] \ {o}
    BY ZenonT(30), <1>T
  <2>2. claims' = [claims EXCEPT ![c] = t]
    BY <1>0, <2>1
  <2> QED BY ZenonT(30), <2>1, <2>2, ClaimsMove
<1>4. PICK s : s = heap.at[b].owners
  BY Zenon
<1>5. s \in Seq(Owners) /\ b \in Nat
  BY <1>0, <1>4, <1>T, HeapFacts
<1>6. ~dangling /\ c \notin stale => Range(s) = claims[c] /\ IsInjective(s)
  BY <1>0, <1>1, <1>4 DEF HeapInv, OwnersTrue, Lists
<1>7. Range(<<>>) = {} /\ IsInjective(<<>>)
  BY DEF Range, IsInjective
\* The anchor stays while owners are left; else it is tombstoned or its write fails.
<1>8. \/ ~r.dead /\ anchor' = anchor /\ stale' = stale
      \/ r.dead /\ anchor' = [anchor EXCEPT ![c] = NoBlock] /\ stale' = stale
      \/ r.dead /\ anchor' = anchor /\ stale' = stale \cup {c}
  BY <1>0, <1>1, <1>T DEF WriteAnchor
<1>9. ASSUME \E k \in {0} : InPlace(heap, heap', b, k),
             ~dangling /\ c \notin stale => Lists(heap', b, claims'[c]),
             r.dead => heap'.at[b].owners = <<>>,
             \/ freed' = freed
             \/ r.dead /\ freed' = freed \o <<[start |-> b, blocks |-> Alloc(heap.at[b])]>>
      PROVE  HeapInv'
  <2>1. heap'.len = heap.len /\ \E k \in {0, 1} : InPlace(heap, heap', anchor[c], k)
    BY <1>1, <1>9, <1>T DEF InPlace
  <2>2. \/ freed' = freed
        \/ r.dead /\ freed' = freed \o <<[start |-> anchor[c], blocks |-> Alloc(heap.at[anchor[c]])]>>
    BY SMTT(30), <1>1, <1>9
  <2>3. CASE ~r.dead /\ anchor' = anchor /\ stale' = stale
    BY ZenonT(30), <1>0, <1>1, <1>3, <1>9, <2>1, <2>2, <2>3, CallStep
  <2>4. CASE r.dead /\ anchor' = [anchor EXCEPT ![c] = NoBlock] /\ stale' = stale
    <3>1. anchor'[c] = NoBlock /\ anchor'[c] # anchor[c]
      BY <1>0, <1>1, <1>T, <2>4
    <3>2. ~dangling /\ c \notin stale => claims'[c] = {}
      BY SMTT(30), <1>7, <1>9, <2>4 DEF Lists
    <3> QED BY ZenonT(30), <1>0, <1>1, <1>3, <2>1, <2>2, <2>4, <3>1, <3>2, CallStep
  <2>5. CASE r.dead /\ anchor' = anchor /\ stale' = stale \cup {c}
    BY ZenonT(30), <1>0, <1>1, <1>3, <2>1, <2>2, <2>5, CallStep
  <2> QED BY <1>8, <2>3, <2>4, <2>5
<1>10. CASE /\ o \notin Range(s) /\ r.heap = heap /\ r.freed = <<>> /\ r.dead = (s = <<>>)
  <2>1. InPlace(heap, heap', b, 0) /\ freed' = freed
    BY <1>0, <1>10, <1>T, InPlaceSame
  <2>2. ~dangling /\ c \notin stale => Lists(heap', b, claims'[c])
    BY ZenonT(30), <1>0, <1>3, <1>4, <1>6, <1>10 DEF Lists
  <2>3. r.dead => heap'.at[b].owners = <<>>
    BY ZenonT(30), <1>0, <1>4, <1>10
  <2> QED BY <1>9, <2>1, <2>2, <2>3
<1>11. CASE /\ o \in Range(s) /\ InPlace(heap, r.heap, b, 0)
            /\ \E i \in DOMAIN s : s[i] = o /\ r.heap.at[b].owners = SwapRemove(s, i)
            /\ r.dead = (r.heap.at[b].owners = <<>>)
            /\ r.freed = IF r.dead THEN <<[start |-> b, blocks |-> Alloc(heap.at[b])]>> ELSE <<>>
  <2>1. PICK i \in DOMAIN s : s[i] = o /\ heap'.at[b].owners = SwapRemove(s, i)
    BY <1>0, <1>11
  <2>2. IsInjective(s) => IsInjective(SwapRemove(s, i)) /\ Range(SwapRemove(s, i)) = Range(s) \ {s[i]}
    BY <1>5, SwapRemoveFacts
  <2>3. ~dangling /\ c \notin stale => Lists(heap', b, claims'[c])
    BY <1>3, <1>6, <2>1, <2>2 DEF Lists
  <2>4. InPlace(heap, heap', b, 0) /\ (r.dead => heap'.at[b].owners = <<>>)
    BY ZenonT(30), <1>0, <1>11
  <2>5. \/ freed' = freed
        \/ r.dead /\ freed' = freed \o <<[start |-> b, blocks |-> Alloc(heap.at[b])]>>
    BY <1>0, <1>11, <1>T
  <2> QED BY SMTT(30), <1>9, <2>3, <2>4, <2>5
<1> QED
  <2>0. IsHeap(heap) /\ b \in DOMAIN heap.at /\ r = RemoveOwner(heap, b, o)
    BY <1>0, <1>2, <1>T
  <2>1. \/ /\ o \notin Range(heap.at[b].owners) /\ r.heap = heap /\ r.freed = <<>>
           /\ r.dead = (heap.at[b].owners = <<>>)
        \/ /\ o \in Range(heap.at[b].owners) /\ InPlace(heap, r.heap, b, 0)
           /\ \E i \in DOMAIN heap.at[b].owners :
                 /\ heap.at[b].owners[i] = o
                 /\ r.heap.at[b].owners = SwapRemove(heap.at[b].owners, i)
           /\ r.dead = (r.heap.at[b].owners = <<>>)
           /\ r.freed = IF r.dead THEN <<[start |-> b, blocks |-> Alloc(heap.at[b])]>> ELSE <<>>
    BY <2>0, RemoveOwnerFacts
  <2>2. heap.at[b].owners = s
    BY SMTT(30), <1>4
  <2> QED BY <1>10, <1>11, <2>1, <2>2

-----------------------------------------------------------------------------
(* The other steps.                                                        *)

LEMMA TakeFreedStep ==
    ASSUME HeapInv, TakeFreed
    PROVE  HeapInv'
<1>0. freed' = <<>> /\ UNCHANGED <<heap, anchor, claims, stale, heapBin, dataBin, claimsBin,
                                   ordered, dangling>>
  BY DEF TakeFreed, files
<1>1. DOMAIN <<>> = {} /\ <<>> \in Seq(Freed)
  OBVIOUS
<1>2. HeapTypeOK'
  BY <1>0, <1>1 DEF HeapInv, HeapTypeOK
<1>3. Reaches' /\ OwnersTrue' /\ OwnersSaved' /\ SavedInOrder'
  BY <1>0 DEF HeapInv, Reaches, OwnersTrue, OwnersSaved, SavedInOrder
<1>4. FreedInFile' /\ FreedIsDead'
  BY <1>0, <1>1 DEF FreedInFile, FreedIsDead
<1> QED BY <1>2, <1>3, <1>4 DEF HeapInv

\* The anchors of data.bin are now the ones in memory; heap.bin is older.
LEMMA FlushSnapshotStep ==
    ASSUME HeapInv, FlushSnapshot
    PROVE  HeapInv'
<1>0. /\ dataBin' = anchor /\ ordered' = FALSE
      /\ UNCHANGED <<heap, freed, anchor, heapBin, claims, claimsBin, stale, dangling>>
  BY DEF FlushSnapshot
<1>1. HeapTypeOK'
  BY <1>0 DEF HeapInv, HeapTypeOK
<1>2. Reaches'
  BY <1>0 DEF HeapInv, Reaches
<1>3. OwnersTrue' /\ OwnersSaved' /\ SavedInOrder'
  BY <1>0 DEF HeapInv, OwnersTrue, OwnersSaved, SavedInOrder
<1>4. FreedInFile' /\ FreedIsDead'
  BY <1>0 DEF HeapInv, FreedInFile, FreedIsDead, Live
<1> QED BY <1>1, <1>2, <1>3, <1>4 DEF HeapInv

\* The anchors that lead somewhere in the heap do so in the part of it that is kept.
LEMMA KeepsOf ==
    ASSUME NEW h, IsHeap(h), NEW a \in AnchorTable, Leads(h, a), NEW n \in Nat
    PROVE  Keeps(h, a) /\ Keeps(Cut(h, n), a)
<1>1. Keeps(h, a)
  BY DEF Leads, Keeps, Readable
<1>2. PICK g : g = Cut(h, n)
  BY Zenon
<1>3. /\ g.len = n /\ DOMAIN g.at = {x \in DOMAIN h.at : x < n}
      /\ \A x \in DOMAIN g.at : g.at[x] = h.at[x]
  BY <1>2 DEF Cut
<1>4. ASSUME NEW c \in Contents, a[c] # NoBlock, a[c] < g.len
      PROVE  a[c] \in DOMAIN g.at /\ g.at[a[c]].content = c /\ Alone(g, a[c])
  <2>1. PICK y : y = a[c]
    BY Zenon
  <2>2. /\ y \in DOMAIN h.at /\ h.at[y].content = c
        /\ \A x \in DOMAIN h.at : y < x => y + Alloc(h.at[y]) <= x
    BY <1>4, <2>1 DEF Leads, Readable, Alone
  <2>3. y \in DOMAIN g.at /\ g.at[y] = h.at[y]
    BY <1>3, <1>4, <2>1, <2>2
  <2>4. Alone(g, y)
    BY <1>3, <2>2, <2>3 DEF Alone
  <2> QED BY <2>1, <2>2, <2>3, <2>4
<1>5. Keeps(g, a)
  BY <1>4 DEF Keeps
<1> QED BY <1>1, <1>2, <1>5

LEMMA FlushHeapStep ==
    ASSUME HeapInv, FlushHeap
    PROVE  HeapInv'
<1>0. /\ heapBin' = heap /\ claimsBin' = [claims |-> claims, anchor |-> anchor] /\ ordered' = TRUE
      /\ UNCHANGED <<heap, freed, anchor, dataBin, claims, stale, dangling>>
  BY DEF FlushHeap
<1>T. /\ IsHeap(heap) /\ heap.len \in Nat /\ anchor \in AnchorTable /\ dataBin \in AnchorTable
      /\ claims \in ClaimTable
  BY HeapFacts DEF HeapInv, HeapTypeOK
<1>1. claimsBin'.claims = claims /\ claimsBin'.anchor = anchor
  BY <1>0
<1>2. HeapTypeOK'
  BY <1>0, <1>T DEF HeapInv, HeapTypeOK
<1>3. Reaches'
  <2>1. ~dangling => Keeps(heap, anchor) /\ Keeps(heap, dataBin)
    BY <1>T, KeepsOf DEF HeapInv, Reaches
  <2> QED BY <1>0, <2>1 DEF HeapInv, Reaches
<1>4. OwnersTrue'
  BY <1>0 DEF HeapInv, OwnersTrue
<1>5. OwnersSaved'
  BY <1>0, <1>1 DEF HeapInv, OwnersTrue, OwnersSaved
<1>6. SavedInOrder'
  BY <1>0 DEF HeapInv, Reaches, Leads, SavedInOrder
<1>7. FreedInFile' /\ FreedIsDead'
  BY <1>0 DEF HeapInv, FreedInFile, FreedIsDead, Live
<1> QED BY <1>2, <1>3, <1>4, <1>5, <1>6, <1>7 DEF HeapInv

LEMMA TornFlushStep ==
    ASSUME HeapInv, NEW n \in Nat, TornFlush(n)
    PROVE  HeapInv'
<1>0. /\ heapBin' = Cut(heap, n) /\ claimsBin' = [claims |-> claims, anchor |-> anchor]
      /\ ordered' = FALSE /\ n < heap.len
      /\ UNCHANGED <<heap, freed, anchor, dataBin, claims, stale, dangling>>
  BY DEF TornFlush
<1>T. /\ IsHeap(heap) /\ heap.len \in Nat /\ anchor \in AnchorTable /\ dataBin \in AnchorTable
      /\ claims \in ClaimTable
      /\ \A x \in DOMAIN heap.at : x \in Nat /\ heap.at[x] \in Entries
  BY HeapFacts DEF HeapInv, HeapTypeOK
<1>1. claimsBin'.claims = claims /\ claimsBin'.anchor = anchor
  BY <1>0
<1>2. PICK g : g = Cut(heap, n)
  BY Zenon
<1>3. /\ g = [len |-> g.len, at |-> g.at] /\ g.len = n
      /\ DOMAIN g.at = {x \in DOMAIN heap.at : x < n}
      /\ g.at = [b \in {x \in DOMAIN heap.at : x < n} |-> heap.at[b]]
      /\ \A x \in DOMAIN g.at : g.at[x] = heap.at[x]
  BY <1>2 DEF Cut
<1>4. IsHeap(g)
  <2>1. DOMAIN g.at \subseteq 0 .. g.len - 1
    BY <1>3, <1>T
  <2>2. g.at \in [DOMAIN g.at -> Entries]
    BY <1>3, <1>T
  <2> QED BY <1>3, <2>1, <2>2 DEF IsHeap
<1>5. HeapTypeOK'
  <2>1. heapBin' = g /\ g.len <= heap.len
    BY <1>0, <1>2, <1>3, <1>T
  <2> QED BY <1>0, <1>4, <1>T, <2>1 DEF HeapInv, HeapTypeOK
<1>6. Reaches'
  <2>1. ~dangling => Keeps(Cut(heap, n), anchor) /\ Keeps(Cut(heap, n), dataBin)
    BY <1>T, KeepsOf DEF HeapInv, Reaches
  <2> QED BY <1>0, <2>1 DEF HeapInv, Reaches
<1>7. OwnersTrue'
  BY <1>0 DEF HeapInv, OwnersTrue
<1>8. OwnersSaved'
  <2> SUFFICES ASSUME NEW c \in Contents, c \notin stale, ~dangling
               PROVE  IF anchor[c] # NoBlock
                      THEN anchor[c] \in DOMAIN g.at => Lists(g, anchor[c], claims[c])
                      ELSE claims[c] = {}
    BY <1>0, <1>1, <1>2 DEF OwnersSaved
  <2>1. IF anchor[c] # NoBlock THEN Lists(heap, anchor[c], claims[c]) ELSE claims[c] = {}
    BY SMTT(30) DEF HeapInv, OwnersTrue
  <2> QED BY <1>3, <2>1 DEF Lists
<1>9. SavedInOrder'
  BY <1>0 DEF SavedInOrder
<1>10. FreedInFile' /\ FreedIsDead'
  BY <1>0 DEF HeapInv, FreedInFile, FreedIsDead, Live
<1> QED BY <1>5, <1>6, <1>7, <1>8, <1>9, <1>10 DEF HeapInv

\* A restart without a dangling anchor reads back what heap.bin keeps of the anchors of
\* data.bin, whole.
LEMMA RestartStep ==
    ASSUME HeapInv, Restart
    PROVE  HeapInv'
<1>0. /\ heap' = heapBin /\ anchor' = dataBin /\ freed' = <<>> /\ claims' = claimsBin.claims
      /\ stale' = stale \cup {c \in Contents : dataBin[c] # claimsBin.anchor[c]}
      /\ dangling' = (dangling \/ \E c \in Contents : dataBin[c] # NoBlock
                                     /\ ~Readable(heapBin, dataBin[c]))
      /\ ordered' = TRUE /\ claimsBin' = [claimsBin EXCEPT !.anchor = dataBin]
      /\ UNCHANGED <<heapBin, dataBin>>
  BY DEF Restart
<1>T. /\ IsHeap(heapBin) /\ heapBin.len \in Nat /\ dataBin \in AnchorTable /\ stale \subseteq Contents
      /\ claimsBin \in [claims : ClaimTable, anchor : AnchorTable]
      /\ \A x \in DOMAIN heapBin.at : x < heapBin.len
  BY HeapFacts DEF HeapInv, HeapTypeOK
<1>1. /\ claimsBin'.claims = claimsBin.claims /\ claimsBin'.anchor = dataBin
      /\ claimsBin' \in [claims : ClaimTable, anchor : AnchorTable]
  BY <1>0, <1>T
<1>2. DOMAIN <<>> = {} /\ <<>> \in Seq(Freed)
  OBVIOUS
<1>3. HeapTypeOK'
  <2>1. claimsBin.claims \in ClaimTable /\ stale' \subseteq Contents /\ heapBin.len <= heapBin.len
    BY <1>0, <1>T
  <2> QED BY <1>0, <1>1, <1>2, <1>T, <2>1 DEF HeapTypeOK
<1>4. ~dangling' => ~dangling /\ \A c \in Contents : dataBin[c] # NoBlock => Readable(heapBin, dataBin[c])
  BY ZenonT(30), <1>0
<1>5. ~dangling' => Leads(heapBin, dataBin) /\ Keeps(heapBin, dataBin)
  <2>1. ~dangling => Keeps(heapBin, dataBin)
    BY DEF HeapInv, Reaches
  <2>2. ~dangling' => \A c \in Contents : dataBin[c] # NoBlock => dataBin[c] < heapBin.len
    BY <1>4, <1>T DEF Readable
  <2> QED BY <1>4, <2>1, <2>2 DEF Leads, Keeps
<1>6. Reaches'
  BY <1>0, <1>5 DEF Reaches
<1>7. ASSUME NEW c \in Contents, c \notin stale', ~dangling'
      PROVE  IF dataBin[c] # NoBlock THEN Lists(heapBin, dataBin[c], claimsBin.claims[c])
             ELSE claimsBin.claims[c] = {}
  <2>1. c \notin stale /\ dataBin[c] = claimsBin.anchor[c] /\ ~dangling
    BY <1>0, <1>4, <1>7
  <2>2. dataBin[c] # NoBlock => dataBin[c] \in DOMAIN heapBin.at
    BY <1>4, <1>7 DEF Readable
  <2> QED BY <2>1, <2>2 DEF HeapInv, OwnersSaved
<1>8. OwnersTrue' /\ OwnersSaved'
  BY <1>0, <1>1, <1>7 DEF OwnersTrue, OwnersSaved
<1>9. SavedInOrder'
  BY <1>0, <1>5 DEF SavedInOrder, Leads
<1>10. FreedInFile' /\ FreedIsDead'
  BY <1>0, <1>2 DEF FreedInFile, FreedIsDead
<1> QED BY <1>3, <1>6, <1>8, <1>9, <1>10 DEF HeapInv

LEMMA HeapInductive == HeapInv /\ [HeapNext]_heapVars => HeapInv'
<1> SUFFICES ASSUME HeapInv, [HeapNext]_heapVars PROVE HeapInv'
  OBVIOUS
<1>1. CASE \E c \in Contents, o \in Owners : StoreNew(c, o)
  BY <1>1, StoreNewStep
<1>2. CASE \E c \in Contents, o \in Owners : StoreShared(c, o)
  BY <1>2, StoreSharedStep
<1>3. CASE \E c \in Contents, o \in Owners : Release(c, o)
  BY <1>3, ReleaseStep
<1>4. CASE TakeFreed
  BY <1>4, TakeFreedStep
<1>5. CASE FlushSnapshot
  BY <1>5, FlushSnapshotStep
<1>6. CASE FlushHeap
  BY <1>6, FlushHeapStep
<1>7. CASE \E n \in 0 .. MaxHeapBlocks : TornFlush(n)
  <2>1. \A n \in 0 .. MaxHeapBlocks : n \in Nat
    BY Limits
  <2> QED BY <1>7, <2>1, TornFlushStep
<1>8. CASE Restart
  BY <1>8, RestartStep
<1>9. CASE UNCHANGED heapVars
  <2>0. UNCHANGED <<heap, freed, anchor, heapBin, dataBin, claims, claimsBin, ordered, stale, dangling>>
    BY <1>9 DEF heapVars
  <2>1. HeapTypeOK' /\ Reaches'
    BY <2>0 DEF HeapInv, HeapTypeOK, Reaches
  <2>2. OwnersTrue' /\ OwnersSaved' /\ SavedInOrder'
    BY <2>0 DEF HeapInv, OwnersTrue, OwnersSaved, SavedInOrder
  <2>3. FreedInFile' /\ FreedIsDead'
    BY <2>0 DEF HeapInv, FreedInFile, FreedIsDead, Live
  <2> QED BY <2>1, <2>2, <2>3 DEF HeapInv
<1> QED BY <1>1, <1>2, <1>3, <1>4, <1>5, <1>6, <1>7, <1>8, <1>9 DEF HeapNext

LEMMA HeapInvAlways == HeapSpec => []HeapInv
BY InitHeapInv, HeapInductive, PTL DEF HeapSpec

\* Two entries that anchors lead to lie apart: neither starts inside the other.
LEMMA EntriesApart ==
    ASSUME HeapInv
    PROVE  EntriesDisjoint
<1> SUFFICES ASSUME ~dangling, NEW c \in Contents, NEW d \in Contents, Live(c), Live(d)
             PROVE  /\ anchor[c] + Alloc(heap.at[anchor[c]]) <= heap.len
                    /\ c # d => Extent(heap, anchor[c]) \cap Extent(heap, anchor[d]) = {}
  BY DEF EntriesDisjoint
<1>1. PICK b, y : b = anchor[c] /\ y = anchor[d]
  BY Zenon
<1>2. /\ b \in DOMAIN heap.at /\ b + Alloc(heap.at[b]) <= heap.len /\ heap.at[b].content = c
      /\ \A w \in DOMAIN heap.at : b < w => b + Alloc(heap.at[b]) <= w
      /\ y \in DOMAIN heap.at /\ heap.at[y].content = d
      /\ \A w \in DOMAIN heap.at : y < w => y + Alloc(heap.at[y]) <= w
  BY <1>1 DEF HeapInv, Reaches, Leads, Readable, Alone, Live
<1>3. {b, y} \subseteq Nat /\ Alloc(heap.at[b]) \in Nat /\ Alloc(heap.at[y]) \in Nat
  <2>1. IsHeap(heap)
    BY DEF HeapInv, HeapTypeOK
  <2> QED BY <1>2, <2>1, HeapFacts
<1>4. ASSUME c # d, NEW z \in Extent(heap, b), z \in Extent(heap, y) PROVE FALSE
  <2>1. z \in Int /\ b <= z /\ z < b + Alloc(heap.at[b]) /\ y <= z /\ z < y + Alloc(heap.at[y]) /\ b # y
    BY <1>2, <1>3, <1>4 DEF Extent
  <2>2. CASE b < y
    BY <1>2, <1>3, <2>1, <2>2
  <2>3. CASE y < b
    BY <1>2, <1>3, <2>1, <2>3
  <2> QED BY <1>3, <2>1, <2>2, <2>3
<1> QED BY <1>1, <1>2, <1>4

\* An anchor that was written leads to the value of its content, listed by exactly the
\* records that stored it and have not released it; entries share no block and what is
\* reported freed is dead (dedup_store, release_owner, HeapFile::add_owner and
\* remove_owner), through relocations, failed anchor writes, torn files and restarts.
THEOREM OwnersAreExact == HeapSpec => []HeapExact
<1>1. HeapInv => HeapExact
  <2> SUFFICES ASSUME HeapInv PROVE HeapExact
    OBVIOUS
  <2>1. OwnersExact
    <3> SUFFICES ASSUME NEW c \in Contents, c \notin stale, ~dangling
                 PROVE  IF Live(c)
                        THEN /\ dedup_read(c) = {c}
                             /\ Range(heap.at[anchor[c]].owners) = claims[c]
                             /\ IsInjective(heap.at[anchor[c]].owners)
                        ELSE claims[c] = {}
      BY DEF OwnersExact
    <3>1. IF Live(c) THEN Lists(heap, anchor[c], claims[c]) ELSE claims[c] = {}
      BY DEF HeapInv, OwnersTrue, Live
    <3>2. Live(c) => Readable(heap, anchor[c]) /\ heap.at[anchor[c]].content = c
      BY DEF HeapInv, Reaches, Leads, Live
    <3>3. Live(c) => dedup_read(c) = {c}
      BY <3>2 DEF dedup_read, read_decompressed
    <3> QED BY <3>1, <3>3 DEF Lists
  <2>2. FreedIsDead
    BY DEF HeapInv
  <2> QED BY <2>1, <2>2, EntriesApart DEF HeapExact
<1> QED BY <1>1, HeapInvAlways, PTL

\* Once heap.bin was written after data.bin, every anchor of data.bin leads to its value
\* in heap.bin, whatever moved, grew or died in between (flush_snapshot, HeapFile::flush).
THEOREM SavedOrderIsSafe == HeapSpec => []SavedInOrder
<1>1. HeapInv => SavedInOrder
  BY DEF HeapInv
<1> QED BY <1>1, HeapInvAlways, PTL

=============================================================================
