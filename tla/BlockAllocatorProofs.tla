----------------------- MODULE BlockAllocatorProofs -----------------------
(***************************************************************************)
(* The allocator never hands out a block twice, never leaks one, keeps its *)
(* extents maximal and is rebuilt exactly by a reopen, for files and       *)
(* requests of every size.                                                 *)
(***************************************************************************)
EXTENDS BlockAllocator, TLAPS

----------------------------------------------------------------------------
(* Blocks and sets of runs.                                                *)

\* Block b lies in some run of the set.
In(rs, b) == \E r \in rs : Covers(r, b)

Apart(rs) == \A e, f \in rs : e # f => End(e) < f.start \/ End(f) < e.start

\* Runs that are not disjoint share a block.
LEMMA OverlapShares ==
  ASSUME NEW r \in BlockRun, NEW q \in BlockRun,
         \A b \in Nat : ~(Covers(r, b) /\ Covers(q, b))
  PROVE  Disjoint(r, q)
<1>1. Covers(r, r.start) /\ Covers(q, q.start) /\ r.start \in Nat /\ q.start \in Nat
  BY DEF BlockRun, Covers, End
<1> QED
  BY <1>1 DEF BlockRun, Covers, End, Disjoint

\* Cutting a run out of an extent removes exactly its blocks.
LEMMA CarvedBlocks ==
  ASSUME NEW fs \in SUBSET BlockRun, Apart(fs), NEW e \in fs, NEW r \in BlockRun,
         e.start <= r.start, End(r) <= End(e)
  PROVE  /\ Carved(fs, e, r) \in SUBSET BlockRun
         /\ Apart(Carved(fs, e, r))
         /\ \A b \in Nat : In(Carved(fs, e, r), b) <=> In(fs, b) /\ ~Covers(r, b)
<1> DEFINE left == Run(e.start, r.start - e.start)
           right == Run(End(r), End(e) - End(r))
           cs == Carved(fs, e, r)
<1>1. /\ e.start \in Nat /\ e.len \in Nat /\ e.len > 0
      /\ r.start \in Nat /\ r.len \in Nat /\ r.len > 0
  BY DEF BlockRun
<1>2. /\ left.start = e.start /\ left.len = r.start - e.start
      /\ right.start = End(r) /\ right.len = End(e) - End(r)
      /\ End(left) = r.start /\ End(right) = End(e)
  BY <1>1 DEF Run, End
<1>3. \A p : p \in cs <=> \/ p \in fs /\ p # e
                          \/ p = left /\ left.len > 0
                          \/ p = right /\ right.len > 0
  BY DEF Carved
<1>4. left.len > 0 => left \in BlockRun
  BY <1>1, <1>2 DEF BlockRun, Run, End
<1>5. right.len > 0 => right \in BlockRun
  BY <1>1, <1>2 DEF BlockRun, Run, End
<1> HIDE DEF left, right, cs
<1>6. cs \in SUBSET BlockRun
  BY <1>3, <1>4, <1>5
<1>7. Apart(cs)
  <2> SUFFICES ASSUME NEW p \in cs, NEW q \in cs, p # q
               PROVE  End(p) < q.start \/ End(q) < p.start
    BY DEF Apart
  <2>1. \A f \in fs : f # e => End(f) < e.start \/ End(e) < f.start
    BY DEF Apart
  <2>2. \A f \in fs : f.start \in Nat /\ f.len \in Nat /\ f.len > 0
    BY DEF BlockRun
  <2>3. CASE p \in fs /\ p # e /\ q \in fs /\ q # e
    BY <2>3 DEF Apart
  <2> QED
    BY <1>1, <1>2, <1>3, <2>1, <2>2, <2>3 DEF End
<1>8. ASSUME NEW b \in Nat
      PROVE  In(cs, b) <=> In(fs, b) /\ ~Covers(r, b)
  <2>1. \A f \in fs : f # e /\ Covers(f, b) => ~Covers(e, b)
    BY <1>1 DEF Apart, Covers, End, BlockRun
  <2>2. Covers(r, b) => Covers(e, b)
    BY <1>1 DEF Covers, End
  <2>3. Covers(left, b) <=> e.start <= b /\ b < r.start
    BY <1>2 DEF Covers
  <2>4. Covers(right, b) <=> End(r) <= b /\ b < End(e)
    BY <1>2 DEF Covers
  <2>5. Covers(left, b) => left.len > 0
    BY <1>1, <1>2, <2>3
  <2>6. Covers(right, b) => right.len > 0
    BY <1>1, <1>2, <2>4 DEF End
  <2>7. Covers(e, b) /\ ~Covers(r, b) <=> Covers(left, b) \/ Covers(right, b)
    BY <1>1, <2>3, <2>4 DEF Covers, End
  <2> QED
    BY <1>3, <2>1, <2>2, <2>5, <2>6, <2>7 DEF In
<1> QED
  BY <1>6, <1>7, <1>8 DEF cs

\* Freeing a run adds exactly its blocks and leaves maximal extents.
LEMMA FreedBlocks ==
  ASSUME NEW fs \in SUBSET BlockRun, Apart(fs), NEW r \in BlockRun,
         \A f \in fs : Disjoint(f, r)
  PROVE  /\ Freed(fs, r) \in SUBSET BlockRun
         /\ Apart(Freed(fs, r))
         /\ \A b \in Nat : In(Freed(fs, r), b) <=> In(fs, b) \/ Covers(r, b)
<1> DEFINE L == LeftOf(fs, r)
           R == RightOf(fs, r)
           s == IF L = {} THEN r.start ELSE (CHOOSE e \in L : TRUE).start
           t == IF R = {} THEN End(r) ELSE End(CHOOSE e \in R : TRUE)
           m == Run(s, t - s)
           cs == Freed(fs, r)
<1>1. /\ r.start \in Nat /\ r.len \in Nat /\ r.len > 0 /\ End(r) \in Nat
      /\ \A f \in fs : f.start \in Nat /\ f.len \in Nat /\ f.len > 0 /\ End(f) \in Nat
  BY DEF BlockRun, End
<1>2. \A e \in L : e \in fs /\ End(e) = r.start
  BY DEF LeftOf
<1>3. \A e \in R : e \in fs /\ e.start = End(r)
  BY DEF RightOf
<1>4. \A e \in fs : End(e) = r.start => e \in L
  BY <1>1 DEF LeftOf, Apart, End
<1>5. \A e \in fs : e.start = End(r) => e \in R
  BY DEF RightOf
<1>6. \A e, f \in L : e = f
  BY <1>1, <1>2 DEF Apart, End
<1>7. \A e, f \in R : e = f
  BY <1>1, <1>3 DEF Apart, End
<1>8. /\ s \in Nat /\ s <= r.start
      /\ L = {} => s = r.start
      /\ \A e \in L : s = e.start
  <2>1. CASE L = {}
    BY <1>1, <2>1
  <2>2. CASE L # {}
    <3>1. PICK e \in L : e = CHOOSE x \in L : TRUE
      BY <2>2
    <3>2. s = e.start
      BY <2>2, <3>1
    <3> HIDE DEF L, s
    <3> QED
      BY <1>1, <1>2, <1>6, <2>2, <3>1, <3>2 DEF End
  <2> QED
    BY <2>1, <2>2
<1>9. /\ t \in Nat /\ t >= End(r)
      /\ R = {} => t = End(r)
      /\ \A e \in R : t = End(e)
  <2>1. CASE R = {}
    BY <1>1, <2>1
  <2>2. CASE R # {}
    <3>1. PICK e \in R : e = CHOOSE x \in R : TRUE
      BY <2>2
    <3>2. t = End(e)
      BY <2>2, <3>1
    <3> HIDE DEF R, t
    <3> QED
      BY <1>1, <1>3, <1>7, <2>2, <3>1, <3>2 DEF End
  <2> QED
    BY <2>1, <2>2
<1>10. cs = (fs \ (L \cup R)) \cup {m}
  BY DEF Freed
<1> HIDE DEF L, R, s, t, cs
<1>11. m.start = s /\ m.len = t - s /\ End(m) = t /\ m \in BlockRun
  BY <1>1, <1>8, <1>9 DEF Run, End, BlockRun
<1> HIDE DEF m
<1>12. cs \in SUBSET BlockRun
  BY <1>10, <1>11
<1>13. \A f \in fs : f \notin L /\ f \notin R => End(f) < s \/ t < f.start
  <2> SUFFICES ASSUME NEW f \in fs, f \notin L, f \notin R
               PROVE  End(f) < s \/ t < f.start
    OBVIOUS
  <2>1. End(f) < r.start \/ End(r) < f.start
    BY <1>1, <1>4, <1>5 DEF Disjoint
  <2>2. \A e \in L : End(f) < e.start \/ End(e) < f.start
    BY <1>2 DEF Apart
  <2>3. \A e \in R : End(f) < e.start \/ End(e) < f.start
    BY <1>3 DEF Apart
  <2>4. End(f) < r.start => End(f) < s
    <3>1. CASE L = {}
      BY <1>8, <3>1
    <3>2. ASSUME NEW e \in L PROVE End(f) < r.start => End(f) < s
      BY <1>1, <1>2, <1>8, <2>2 DEF End
    <3> QED
      BY <3>1, <3>2
  <2>5. End(r) < f.start => t < f.start
    <3>1. CASE R = {}
      BY <1>9, <3>1
    <3>2. ASSUME NEW e \in R PROVE End(r) < f.start => t < f.start
      BY <1>1, <1>3, <1>9, <2>3 DEF End
    <3> QED
      BY <3>1, <3>2
  <2> QED
    BY <2>1, <2>4, <2>5
<1>14. Apart(cs)
  BY <1>10, <1>11, <1>13 DEF Apart
<1>15. ASSUME NEW b \in Nat
       PROVE  In(cs, b) <=> In(fs, b) \/ Covers(r, b)
  <2>1. Covers(m, b) <=> s <= b /\ b < t
    BY <1>11 DEF Covers
  <2>2. \A e \in L : Covers(e, b) <=> s <= b /\ b < r.start
    BY <1>2, <1>8 DEF Covers
  <2>3. \A e \in R : Covers(e, b) <=> End(r) <= b /\ b < t
    BY <1>3, <1>9 DEF Covers
  <2>4. s <= b /\ b < r.start => \E e \in L : TRUE
    BY <1>1, <1>8
  <2>5. End(r) <= b /\ b < t => \E e \in R : TRUE
    BY <1>1, <1>9
  <2>6. Covers(m, b) => In(fs, b) \/ Covers(r, b)
    BY <1>1, <1>2, <1>3, <2>1, <2>2, <2>3, <2>4, <2>5 DEF In, Covers
  <2>7. Covers(r, b) => Covers(m, b)
    BY <1>1, <1>8, <1>9, <2>1 DEF Covers
  <2>8. \A e \in L \cup R : Covers(e, b) => Covers(m, b)
    BY <1>1, <1>8, <1>9, <2>1, <2>2, <2>3 DEF End
  <2> QED
    BY <1>10, <2>6, <2>7, <2>8 DEF In
<1> QED
  BY <1>12, <1>14, <1>15 DEF cs

----------------------------------------------------------------------------
(* The inductive invariant, block by block.                                *)

UsedDisjoint == \A r, q \in used : r # q => Disjoint(r, q)

\* A block is below the capacity exactly when it is free or used, never both.
BlocksSplit ==
  \A b \in Nat : /\ In(extents, b) \/ In(used, b) <=> b < capacity
                 /\ ~(In(extents, b) /\ In(used, b))

IInv == TypeOK /\ Apart(extents) /\ UsedDisjoint /\ BlocksSplit

\* A run of free blocks is disjoint from the used ones.
LEMMA FreeRunFromUsed ==
  ASSUME IInv, NEW r \in BlockRun, \A b \in Nat : Covers(r, b) => ~In(used, b)
  PROVE  \A u \in used : Disjoint(r, u) /\ Disjoint(u, r) /\ u # r
<1> SUFFICES ASSUME NEW u \in used PROVE Disjoint(r, u) /\ Disjoint(u, r) /\ u # r
  OBVIOUS
<1>1. u \in BlockRun
  BY DEF IInv, TypeOK
<1>2. Disjoint(r, u)
  BY <1>1, OverlapShares DEF In
<1> QED
  BY <1>1, <1>2 DEF Disjoint, BlockRun, End

\* A step that takes the blocks of r out of the free ones, the capacity
\* possibly growing to the end of r, hands out a run nobody holds.
LEMMA Taken ==
  ASSUME IInv, NEW r \in BlockRun,
         extents' \in SUBSET BlockRun, Apart(extents'), used' = used \cup {r},
         capacity' \in Nat, capacity' >= capacity, End(r) <= capacity',
         \A b \in Nat : In(extents', b) <=> ~Covers(r, b) /\ (In(extents, b) \/ (capacity <= b /\ b < capacity')),
         \A b \in Nat : Covers(r, b) => ~In(used, b)
  PROVE  IInv'
<1>1. \A u \in used : Disjoint(r, u) /\ Disjoint(u, r)
  BY FreeRunFromUsed
<1>2. TypeOK' /\ Apart(extents)' /\ UsedDisjoint'
  BY <1>1 DEF IInv, TypeOK, UsedDisjoint, Apart
<1>3. \A b \in Nat : In(used', b) <=> In(used, b) \/ Covers(r, b)
  BY DEF In
<1>4. \A b \in Nat : Covers(r, b) => b < capacity'
  BY DEF Covers, BlockRun, End
<1>5. BlocksSplit'
  <2> SUFFICES ASSUME NEW b \in Nat
               PROVE  /\ In(extents', b) \/ In(used', b) <=> b < capacity'
                      /\ ~(In(extents', b) /\ In(used', b))
    BY DEF BlocksSplit, In
  <2>1. /\ In(extents, b) \/ In(used, b) <=> b < capacity
        /\ ~(In(extents, b) /\ In(used, b))
    BY DEF IInv, BlocksSplit
  <2>2. capacity \in Nat
    BY DEF IInv, TypeOK
  <2> QED
    BY <1>3, <1>4, <2>1, <2>2
<1> QED
  BY <1>2, <1>5 DEF IInv

\* A step that only drops a free extent e at the tail, and the capacity with it.
LEMMA TailBlocks ==
  ASSUME IInv, NEW e \in TailFree(extents, capacity)
  PROVE  /\ e \in extents /\ e \in BlockRun /\ End(e) = capacity
         /\ \A b \in Nat : In(extents \ {e}, b) <=> In(extents, b) /\ ~Covers(e, b)
<1>1. e \in extents /\ e \in BlockRun /\ End(e) = capacity
  BY DEF TailFree, IInv, TypeOK
<1>2. \A f \in extents, b \in Nat : f # e /\ Covers(f, b) => ~Covers(e, b)
  BY <1>1 DEF IInv, TypeOK, Apart, Covers, End, BlockRun
<1> QED
  BY <1>1, <1>2 DEF In

\* allocate carves the best-fitting extent.
LEMMA AllocateFitStep ==
  ASSUME IInv, NEW n \in 1..MaxRun, AllocateFit(n)
  PROVE  IInv'
<1>1. PICK e \in extents : /\ BestFit(extents, e, n)
                           /\ extents' = Carved(extents, e, Run(e.start, n))
                           /\ used' = used \cup {Run(e.start, n)}
                           /\ capacity' = capacity
  BY DEF AllocateFit
<1> DEFINE r == Run(e.start, n)
<1>2. n \in Nat /\ n > 0
  BY BoundsAreNatural
<1>3. e \in BlockRun /\ r \in BlockRun /\ r.start = e.start /\ End(r) <= End(e)
  BY <1>1, <1>2 DEF IInv, TypeOK, BlockRun, Run, End, BestFit
<1> HIDE DEF r
<1>4. /\ extents' \in SUBSET BlockRun /\ Apart(extents')
      /\ \A b \in Nat : In(extents', b) <=> In(extents, b) /\ ~Covers(r, b)
  <2>1. extents \in SUBSET BlockRun /\ Apart(extents) /\ e.start <= r.start
    BY <1>3 DEF IInv, TypeOK, BlockRun
  <2> QED
    BY <1>1, <1>3, <2>1, CarvedBlocks DEF r
<1>5. \A b \in Nat : Covers(r, b) => Covers(e, b)
  BY <1>3 DEF Covers, BlockRun, End
<1>6. \A b \in Nat : Covers(r, b) => In(extents, b) /\ ~In(used, b) /\ b < capacity
  BY <1>5 DEF In, IInv, BlocksSplit
<1>7. End(r) <= capacity /\ capacity \in Nat
  <2>1. Covers(r, End(r) - 1) /\ End(r) - 1 \in Nat
    BY <1>3 DEF Covers, BlockRun, End
  <2> QED
    BY <1>3, <1>6, <2>1 DEF IInv, TypeOK, BlockRun, End
<1>8. used' = used \cup {r}
  BY <1>1 DEF r
<1> QED
  BY <1>1, <1>3, <1>4, <1>6, <1>7, <1>8, Taken

\* allocate extends the free tail of the file.
LEMMA AllocateTailStep ==
  ASSUME IInv, NEW n \in 1..MaxRun, AllocateTail(n)
  PROVE  IInv'
<1>1. PICK e \in TailFree(extents, capacity) :
             /\ extents' = extents \ {e}
             /\ capacity' = e.start + n
             /\ used' = used \cup {Run(e.start, n)}
  BY DEF AllocateTail
<1> DEFINE r == Run(e.start, n)
<1>2. n \in Nat /\ n > 0
  BY BoundsAreNatural
<1>3. e \in extents /\ e \in BlockRun /\ End(e) = capacity
  BY TailBlocks
<1>3a. e.len < n
  BY <1>3 DEF AllocateTail
<1>4. r \in BlockRun /\ r.start = e.start /\ End(r) = capacity' /\ capacity' >= capacity /\ capacity' \in Nat
  BY <1>1, <1>2, <1>3, <1>3a DEF BlockRun, Run, End
<1>5. used' = used \cup {r}
  BY <1>1
<1> HIDE DEF r
<1>6. \A b \in Nat : Covers(r, b) <=> Covers(e, b) \/ (capacity <= b /\ b < capacity')
  BY <1>3, <1>4 DEF Covers, BlockRun, End
<1>7. extents' \in SUBSET BlockRun /\ Apart(extents')
  BY <1>1 DEF IInv, TypeOK, Apart
<1>8. \A b \in Nat : In(extents', b) <=> In(extents, b) /\ ~Covers(e, b)
  BY <1>1, TailBlocks
<1>9. \A b \in Nat : Covers(e, b) => In(extents, b)
  BY <1>3 DEF In
<1>10. \A b \in Nat : /\ In(extents, b) => b < capacity /\ ~In(used, b)
                      /\ In(used, b) => b < capacity
  BY DEF IInv, BlocksSplit
<1>11. capacity \in Nat
  BY DEF IInv, TypeOK
<1>12. \A b \in Nat : In(extents', b) <=> ~Covers(r, b) /\ (In(extents, b) \/ (capacity <= b /\ b < capacity'))
  BY <1>6, <1>8, <1>9, <1>10, <1>11
<1>13. \A b \in Nat : Covers(r, b) => ~In(used, b)
  BY <1>6, <1>9, <1>10, <1>11
<1> QED
  BY <1>4, <1>5, <1>7, <1>12, <1>13, Taken DEF BlockRun, End

\* allocate appends to a file without a free tail.
LEMMA AllocateGrowStep ==
  ASSUME IInv, NEW n \in 1..MaxRun, AllocateGrow(n)
  PROVE  IInv'
<1> DEFINE r == Run(capacity, n)
<1>1. /\ n \in Nat /\ n > 0 /\ capacity \in Nat
      /\ capacity' = capacity + n /\ used' = used \cup {r} /\ extents' = extents
  BY BoundsAreNatural DEF AllocateGrow, IInv, TypeOK
<1>2. r \in BlockRun /\ r.start = capacity /\ End(r) = capacity'
  BY <1>1 DEF BlockRun, Run, End
<1> HIDE DEF r
<1>3. \A b \in Nat : Covers(r, b) <=> capacity <= b /\ b < capacity'
  BY <1>2 DEF Covers
<1>4. \A b \in Nat : In(extents, b) \/ In(used, b) => b < capacity
  BY DEF IInv, BlocksSplit
<1>5. extents' \in SUBSET BlockRun /\ Apart(extents')
  BY <1>1 DEF IInv, TypeOK, Apart
<1>6. \A b \in Nat : In(extents', b) <=> ~Covers(r, b) /\ (In(extents, b) \/ (capacity <= b /\ b < capacity'))
  BY <1>1, <1>3, <1>4
<1>7. \A b \in Nat : Covers(r, b) => ~In(used, b)
  BY <1>1, <1>3, <1>4
<1>8. capacity' \in Nat /\ capacity' >= capacity /\ End(r) <= capacity'
  BY <1>1, <1>2
<1> QED
  BY <1>1, <1>2, <1>5, <1>6, <1>7, <1>8, Taken

\* free coalesces the run with its neighbours.
LEMMA FreeStep ==
  ASSUME IInv, NEW r \in used, Free(r)
  PROVE  IInv'
<1>1. r \in BlockRun /\ extents \in SUBSET BlockRun /\ Apart(extents)
  BY DEF IInv, TypeOK
<1>2. \A b \in Nat : Covers(r, b) => ~In(extents, b)
  BY DEF IInv, BlocksSplit, In
<1>3. \A f \in extents : Disjoint(f, r)
  BY <1>1, <1>2, OverlapShares DEF In
<1>4. /\ extents' \in SUBSET BlockRun /\ Apart(extents')
      /\ \A b \in Nat : In(extents', b) <=> In(extents, b) \/ Covers(r, b)
  BY <1>1, <1>3, FreedBlocks DEF Free
<1>5. \A u \in used, b \in Nat : u # r /\ Covers(u, b) => ~Covers(r, b)
  BY DEF IInv, TypeOK, UsedDisjoint, Disjoint, Covers, BlockRun, End
<1>6. \A b \in Nat : In(used', b) <=> In(used, b) /\ ~Covers(r, b)
  BY <1>5 DEF Free, In
<1>7. \A b \in Nat : Covers(r, b) => In(used, b)
  BY DEF In
<1>8. BlocksSplit'
  <2> SUFFICES ASSUME NEW b \in Nat
               PROVE  /\ In(extents', b) \/ In(used', b) <=> b < capacity'
                      /\ ~(In(extents', b) /\ In(used', b))
    BY DEF BlocksSplit, In
  <2>1. capacity' = capacity
    BY DEF Free
  <2> QED
    BY <1>4, <1>6, <1>7, <2>1 DEF IInv, BlocksSplit
<1>9. TypeOK' /\ UsedDisjoint'
  BY <1>4 DEF IInv, TypeOK, UsedDisjoint, Free
<1> QED
  BY <1>4, <1>8, <1>9 DEF IInv, Apart

\* reserve carves the run it is told to, growing the file if needed.
LEMMA ReserveStep ==
  ASSUME IInv, NEW r \in BlockRun, Reserve(r)
  PROVE  IInv'
<1> DEFINE tail == Run(capacity, End(r) - capacity)
           grown == IF End(r) > capacity THEN Freed(extents, tail) ELSE extents
<1>1. /\ \A u \in used : Disjoint(r, u)
      /\ capacity' = IF End(r) > capacity THEN End(r) ELSE capacity
      /\ used' = used \cup {r}
      /\ \E e \in grown : e.start <= r.start /\ End(r) <= End(e) /\ extents' = Carved(grown, e, r)
  BY DEF Reserve
<1>2. capacity \in Nat /\ End(r) \in Nat
  BY DEF IInv, TypeOK, BlockRun, End
<1>3. capacity' \in Nat /\ capacity' >= capacity /\ End(r) <= capacity'
  BY <1>1, <1>2
<1>4. /\ grown \in SUBSET BlockRun /\ Apart(grown)
      /\ \A b \in Nat : In(grown, b) <=> In(extents, b) \/ (capacity <= b /\ b < capacity')
  <2>1. ASSUME End(r) > capacity
        PROVE  /\ tail \in BlockRun
               /\ \A b \in Nat : Covers(tail, b) <=> capacity <= b /\ b < capacity'
    BY <1>1, <1>2, <2>1 DEF BlockRun, Run, End, Covers
  <2> HIDE DEF tail
  <2>2. ASSUME End(r) > capacity
        PROVE  \A f \in extents : Disjoint(f, tail)
    <3> SUFFICES ASSUME NEW f \in extents PROVE Disjoint(f, tail)
      OBVIOUS
    <3>1. f \in BlockRun /\ tail \in BlockRun
      BY <2>1, <2>2 DEF IInv, TypeOK
    <3>2. \A b \in Nat : ~(Covers(f, b) /\ Covers(tail, b))
      BY <1>2, <2>1, <2>2 DEF IInv, BlocksSplit, In
    <3> QED
      BY <3>1, <3>2, OverlapShares
  <2>3. extents \in SUBSET BlockRun /\ Apart(extents)
    BY DEF IInv, TypeOK
  <2>4. CASE End(r) > capacity
    BY <2>1, <2>2, <2>3, <2>4, FreedBlocks
  <2>5. CASE ~(End(r) > capacity)
    BY <1>1, <1>2, <2>3, <2>5
  <2> QED
    BY <2>4, <2>5
<1> HIDE DEF grown
<1>5. PICK e \in grown : e.start <= r.start /\ End(r) <= End(e) /\ extents' = Carved(grown, e, r)
  BY <1>1
<1>6. /\ extents' \in SUBSET BlockRun /\ Apart(extents')
      /\ \A b \in Nat : In(extents', b) <=> In(grown, b) /\ ~Covers(r, b)
  BY <1>4, <1>5, CarvedBlocks
<1>7. \A b \in Nat : Covers(r, b) => ~In(used, b)
  BY <1>1 DEF IInv, TypeOK, In, Disjoint, Covers, BlockRun, End
<1>8. \A b \in Nat : In(extents', b) <=> ~Covers(r, b) /\ (In(extents, b) \/ (capacity <= b /\ b < capacity'))
  BY <1>4, <1>6
<1> QED
  BY <1>1, <1>3, <1>6, <1>7, <1>8, Taken

\* truncate drops the free tail.
LEMMA TruncateStep ==
  ASSUME IInv, Truncate
  PROVE  IInv'
<1>1. PICK e \in TailFree(extents, capacity) :
             extents' = extents \ {e} /\ capacity' = e.start /\ used' = used
  BY DEF Truncate
<1>2. /\ e \in extents /\ e \in BlockRun /\ End(e) = capacity
      /\ \A b \in Nat : In(extents', b) <=> In(extents, b) /\ ~Covers(e, b)
  BY <1>1, TailBlocks
<1>3. TypeOK' /\ Apart(extents)' /\ UsedDisjoint'
  BY <1>1, <1>2 DEF IInv, TypeOK, Apart, UsedDisjoint, BlockRun
<1>4. BlocksSplit'
  <2> SUFFICES ASSUME NEW b \in Nat
               PROVE  /\ In(extents', b) \/ In(used', b) <=> b < capacity'
                      /\ ~(In(extents', b) /\ In(used', b))
    BY DEF BlocksSplit, In
  <2>1. /\ In(extents, b) \/ In(used, b) <=> b < capacity
        /\ ~(In(extents, b) /\ In(used, b))
    BY DEF IInv, BlocksSplit
  <2>2. Covers(e, b) <=> capacity' <= b /\ b < capacity
    BY <1>1, <1>2 DEF Covers
  <2>3. Covers(e, b) => In(extents, b)
    BY <1>2 DEF In
  <2>4. capacity' \in Nat /\ capacity \in Nat /\ capacity' <= capacity
    BY <1>1, <1>2 DEF BlockRun, End, IInv, TypeOK
  <2> QED
    BY <1>1, <1>2, <2>1, <2>2, <2>3, <2>4
<1> QED
  BY <1>3, <1>4 DEF IInv

----------------------------------------------------------------------------
(* A reopen rebuilds the extents from the runs in use.                     *)

\* A block next to a free extent is used.
LEMMA Borders ==
  ASSUME IInv, NEW e \in extents
  PROVE  /\ e.start > 0 => \E u \in used : End(u) = e.start
         /\ End(e) < capacity => \E u \in used : u.start = End(e)
<1>1. /\ e.start \in Nat /\ e.len \in Nat /\ e.len > 0 /\ capacity \in Nat
      /\ \A r \in extents \cup used : r.start \in Nat /\ r.len \in Nat /\ r.len > 0
  BY DEF IInv, TypeOK, BlockRun
<1>2. \A b \in Nat : /\ b < capacity <=> In(extents, b) \/ In(used, b)
                     /\ ~(In(extents, b) /\ In(used, b))
  BY DEF IInv, BlocksSplit
<1>3. \A b \in Nat : Covers(e, b) => In(extents, b)
  BY DEF In
<1>4. \A f \in extents : f # e => End(f) < e.start \/ End(e) < f.start
  BY DEF IInv, Apart
<1>5. ASSUME e.start > 0 PROVE \E u \in used : End(u) = e.start
  <2> DEFINE b == e.start - 1
  <2>1. b \in Nat /\ e.start \in Nat /\ Covers(e, e.start)
    BY <1>1, <1>5 DEF Covers, End
  <2>2. b < capacity
    BY <1>1, <1>2, <1>3, <2>1
  <2>3. ~In(extents, b)
    BY <1>1, <1>4 DEF In, Covers, End
  <2>4. PICK u \in used : Covers(u, b)
    BY <1>2, <2>1, <2>2, <2>3 DEF In
  <2>5. ~Covers(u, e.start)
    BY <1>2, <1>3, <2>1 DEF In
  <2> QED
    BY <1>1, <2>1, <2>4, <2>5 DEF Covers, End
<1>6. ASSUME End(e) < capacity PROVE \E u \in used : u.start = End(e)
  <2>1. End(e) \in Nat /\ End(e) - 1 \in Nat /\ Covers(e, End(e) - 1)
    BY <1>1 DEF Covers, End
  <2>2. ~In(extents, End(e))
    BY <1>1, <1>4 DEF In, Covers, End
  <2>3. PICK u \in used : Covers(u, End(e))
    BY <1>2, <1>6, <2>1, <2>2 DEF In
  <2>4. ~Covers(u, End(e) - 1)
    BY <1>2, <1>3, <2>1 DEF In
  <2> QED
    BY <1>1, <2>1, <2>3, <2>4 DEF Covers, End
<1> QED
  BY <1>5, <1>6

\* from_used_runs over the used runs yields the extents in memory.
LEMMA Rebuilt ==
  ASSUME IInv
  PROVE  FromUsedRuns(capacity, used) = extents
<1>1. /\ capacity \in Nat
      /\ \A r \in extents \cup used : r \in BlockRun /\ r.start \in Nat /\ r.len \in Nat /\ r.len > 0
  BY DEF IInv, TypeOK, BlockRun
<1>2. \A b \in Nat : /\ b < capacity <=> In(extents, b) \/ In(used, b)
                     /\ ~(In(extents, b) /\ In(used, b))
  BY DEF IInv, BlocksSplit
<1>3. /\ \A e \in extents, b \in Nat : Covers(e, b) => b < capacity /\ ~In(used, b)
      /\ \A u \in used, b \in Nat : Covers(u, b) => ~In(extents, b)
  BY <1>2 DEF In
<1>4. ASSUME NEW e \in extents PROVE e \in FromUsedRuns(capacity, used)
  <2>1. End(e) <= capacity
    <3>1. End(e) - 1 \in Nat /\ Covers(e, End(e) - 1)
      BY <1>1 DEF Covers, End
    <3> QED
      BY <1>1, <1>3, <3>1 DEF End
  <2>2. \A u \in used : Disjoint(e, u)
    BY <1>1, <1>3, OverlapShares DEF In
  <2>3. e.start \in {0} \cup {End(u) : u \in used} /\ End(e) \in {capacity} \cup {u.start : u \in used}
    <3>1. e.start \in Nat /\ End(e) \in Nat
      BY <1>1 DEF End
    <3> QED
      BY <1>1, <2>1, <3>1, Borders
  <2>4. e.len \in 1..capacity
    BY <1>1, <2>1 DEF End
  <2>5. e \in [start : {0} \cup {End(u) : u \in used}, len : 1..capacity]
    BY <1>1, <2>3, <2>4 DEF BlockRun
  <2> QED
    BY <2>2, <2>3, <2>5 DEF FromUsedRuns
<1>5. ASSUME NEW g \in FromUsedRuns(capacity, used) PROVE g \in extents
  <2>1. /\ g \in [start : {0} \cup {End(u) : u \in used}, len : 1..capacity]
        /\ End(g) \in {capacity} \cup {u.start : u \in used}
        /\ \A u \in used : Disjoint(g, u)
    BY DEF FromUsedRuns
  <2>2. g.start \in Nat /\ g.len \in Nat /\ g.len > 0 /\ g \in BlockRun
    BY <1>1, <2>1 DEF BlockRun, End
  <2>3. \A b \in Nat : Covers(g, b) => ~In(used, b)
    BY <1>1, <2>1, <2>2 DEF In, Disjoint, Covers, End
  <2>4. End(g) <= capacity
    <3>1. ASSUME NEW u \in used PROVE u.start < capacity
      BY <1>1, <1>2, <3>1 DEF In, Covers, End
    <3> QED
      BY <1>1, <2>1, <2>2, <3>1 DEF End
  <2>5. \A b \in Nat : Covers(g, b) => In(extents, b)
    BY <1>1, <1>2, <2>2, <2>3, <2>4 DEF Covers, End
  <2>6. PICK e \in extents : Covers(e, g.start)
    <3>1. Covers(g, g.start)
      BY <2>2 DEF Covers, End
    <3> QED
      BY <2>2, <2>5, <3>1 DEF In
  <2>7. \A b \in Nat : Covers(e, b) => b < capacity /\ ~In(used, b)
    BY <1>3
  <2>8. e.start = g.start
    <3> SUFFICES ASSUME e.start < g.start PROVE FALSE
      BY <1>1, <2>2, <2>6 DEF Covers
    <3>1. PICK u \in used : End(u) = g.start
      BY <1>1, <2>1, <2>2
    <3>2. g.start - 1 \in Nat /\ Covers(u, g.start - 1) /\ Covers(e, g.start - 1)
      BY <1>1, <2>2, <2>6, <3>1 DEF Covers, End
    <3> QED
      BY <2>7, <3>2 DEF In
  <2>9. ~(End(g) < End(e))
    <3> SUFFICES ASSUME End(g) < End(e) PROVE FALSE
      OBVIOUS
    <3>1. End(g) \in Nat /\ Covers(e, End(g))
      BY <1>1, <2>2, <2>8 DEF Covers, End
    <3>2. PICK u \in used : u.start = End(g)
      BY <1>1, <2>1, <2>7, <3>1
    <3>3. Covers(u, End(g))
      BY <1>1, <3>2 DEF Covers, End
    <3> QED
      BY <2>7, <3>1, <3>3 DEF In
  <2>10. ~(End(e) < End(g))
    <3> SUFFICES ASSUME End(e) < End(g) PROVE FALSE
      OBVIOUS
    <3>1. End(e) \in Nat /\ Covers(g, End(e))
      BY <1>1, <2>2, <2>8 DEF Covers, End
    <3>2. PICK f \in extents : Covers(f, End(e))
      BY <2>5, <3>1 DEF In
    <3>3. f = e \/ End(f) < e.start \/ End(e) < f.start
      BY DEF IInv, Apart
    <3> QED
      BY <1>1, <3>1, <3>2, <3>3 DEF Covers, End
  <2>11. e.len = g.len
    BY <1>1, <2>2, <2>8, <2>9, <2>10 DEF End
  <2>12. e \in BlockRun
    BY <1>1
  <2>13. e = g
    BY <2>2, <2>8, <2>11, <2>12 DEF BlockRun
  <2> QED
    BY <2>13
<1> QED
  BY <1>4, <1>5

----------------------------------------------------------------------------
(* The invariant is inductive, and implies the properties.                 *)

\* The initial states satisfy the inductive invariant.
LEMMA InitIInv ==
  ASSUME Init PROVE IInv
<1>1. TypeOK /\ Apart(extents) /\ UsedDisjoint
  BY DEF Init, TypeOK, Apart, UsedDisjoint
<1>2. BlocksSplit
  BY DEF Init, BlocksSplit, In
<1> QED
  BY <1>1, <1>2 DEF IInv

\* Every operation of the allocator keeps the inductive invariant.
LEMMA Inductive ==
  ASSUME IInv, [Next]_vars PROVE IInv'
<1>1. CASE UNCHANGED vars
  BY <1>1 DEF vars, IInv, TypeOK, Apart, UsedDisjoint, BlocksSplit, In
<1>2. ASSUME NEW n \in 1..MaxRun, AllocateFit(n) PROVE IInv'
  BY <1>2, AllocateFitStep
<1>3. ASSUME NEW n \in 1..MaxRun, AllocateTail(n) PROVE IInv'
  BY <1>3, AllocateTailStep
<1>4. ASSUME NEW n \in 1..MaxRun, AllocateGrow(n) PROVE IInv'
  BY <1>4, AllocateGrowStep
<1>5. ASSUME NEW r \in used, Free(r) PROVE IInv'
  BY <1>5, FreeStep
<1>6. ASSUME NEW s \in 0..MaxBlocks, NEW n \in 1..MaxRun, Reserve(Run(s, n)) PROVE IInv'
  <2>1. Run(s, n) \in BlockRun
    BY BoundsAreNatural DEF Run, BlockRun
  <2> QED
    BY <1>6, <2>1, ReserveStep
<1>7. CASE Truncate
  BY <1>7, TruncateStep
<1>8. CASE Reopen
  <2>1. extents' = extents /\ used' = used /\ capacity' = capacity
    BY <1>8, Rebuilt DEF Reopen
  <2> QED
    BY <2>1 DEF IInv, TypeOK, Apart, UsedDisjoint, BlocksSplit, In
<1> QED
  BY <1>1, <1>2, <1>3, <1>4, <1>5, <1>6, <1>7, <1>8 DEF Next

\* The inductive invariant implies the three properties of the runs.
LEMMA Implied ==
  ASSUME IInv PROVE Partition /\ Maximal /\ RebuildAgrees
<1>1. /\ capacity \in Nat
      /\ \A r \in extents \cup used : r \in BlockRun /\ r.start \in Nat /\ r.len \in Nat /\ r.len > 0
  BY DEF IInv, TypeOK, BlockRun
<1>2. \A b \in Nat : /\ b < capacity <=> In(extents, b) \/ In(used, b)
                     /\ ~(In(extents, b) /\ In(used, b))
  BY DEF IInv, BlocksSplit
<1>3. ASSUME NEW r \in extents \cup used PROVE End(r) <= capacity
  <2>1. End(r) - 1 \in Nat /\ Covers(r, End(r) - 1)
    BY <1>1 DEF Covers, End
  <2>2. End(r) - 1 < capacity
    BY <1>2, <2>1 DEF In
  <2> QED
    BY <1>1, <2>2 DEF End
<1>4. ASSUME NEW r \in extents, NEW q \in used PROVE Disjoint(r, q) /\ Disjoint(q, r) /\ r # q
  <2>1. \A b \in Nat : Covers(q, b) => ~Covers(r, b)
    BY <1>2 DEF In
  <2>2. Disjoint(r, q)
    BY <1>1, <2>1, OverlapShares
  <2> QED
    BY <1>1, <2>2 DEF Disjoint, End
<1>5. ASSUME NEW r \in extents, NEW q \in extents, r # q PROVE Disjoint(r, q)
  BY <1>1, <1>5 DEF IInv, Apart, Disjoint, End
<1>6. \A r, q \in extents \cup used : r # q => Disjoint(r, q)
  BY <1>4, <1>5 DEF IInv, UsedDisjoint
<1>7. \A b \in 0..(capacity - 1) : \E r \in extents \cup used : Covers(r, b)
  BY <1>1, <1>2 DEF In
<1>8. extents \cap used = {}
  BY <1>4
<1>9. Partition
  BY <1>3, <1>6, <1>7, <1>8 DEF Partition
<1>10. Maximal
  BY DEF IInv, Apart, Maximal
<1> QED
  BY <1>9, <1>10, Rebuilt DEF RebuildAgrees

\* The inductive invariant holds in every reachable state.
LEMMA AlwaysIInv == Spec => []IInv
<1>1. Init => IInv
  BY InitIInv
<1>2. IInv /\ [Next]_vars => IInv'
  BY Inductive
<1> QED
  BY <1>1, <1>2, PTL DEF Spec

\* BlockAllocator: every block of the file is free or held by one caller, never
\* both, whatever the sequence of allocate, reserve, free, truncate and reopen.
THEOREM BlocksPartitioned == Spec => []Partition
<1>1. IInv => Partition
  BY Implied
<1> QED
  BY <1>1, AlwaysIInv, PTL

\* BlockAllocator::free and reserve keep the free extents maximal.
THEOREM ExtentsMaximal == Spec => []Maximal
<1>1. IInv => Maximal
  BY Implied
<1> QED
  BY <1>1, AlwaysIInv, PTL

\* from_used_runs gives a reopened file the extents it had before.
THEOREM ReopenLosesNothing == Spec => []RebuildAgrees
<1>1. IInv => RebuildAgrees
  BY Implied
<1> QED
  BY <1>1, AlwaysIInv, PTL
=============================================================================
