----------------------------- MODULE KVCacheProofs -----------------------------
(***************************************************************************)
(* Theorems about KVCache, for caches, ubatches, windows and batches of    *)
(* any size.  What one operation leaves in the cells is said cell by cell  *)
(* (Holds); what prepare returns is said without its recursion, as a cache *)
(* that each ubatch is placed in after the one before (Placed, Prepared).  *)
(* Every call of llama_decode then keeps IInv: its ubatches continue each  *)
(* other, each has slots of its own, and cells whose keys and values are   *)
(* not computed yet are those of the ubatch at hand.                       *)
(*                                                                         *)
(* The second half reads the caches by position: which ones a sequence has *)
(* in both, what an operation adds to them and what it takes away.  With   *)
(* the callers of MCSpec every sequence finds what it looks at, and the    *)
(* slots that were found fit (Coherent).                                   *)
(*                                                                         *)
(* Last, the windowed cache has room: a cell of it that cannot be used is  *)
(* told by its sequence and position, and there are few of those.  And to  *)
(* a caller the pair of caches is the memory of SequenceMemory.            *)
(***************************************************************************)
EXTENDS MCKVCache, FiniteSetTheorems, FunctionTheorems, TLAPS

-----------------------------------------------------------------------------
(* Least and greatest numbers *)

LEMMA Least ==
  ASSUME NEW T \in SUBSET Nat, T # {}
  PROVE  \E m \in T : \A k \in T : m <= k
<1>1. T \subseteq Nat
  OBVIOUS
<1>2. \E x \in T : \A y \in T : ~(<<y, x>> \in OpToRel(<, Nat))
  BY <1>1, NatLessThanWellFounded, WFMin
<1>3. \A x, y \in Nat : x < y => <<x, y>> \in OpToRel(<, Nat)
  BY DEF OpToRel
<1>4. PICK x \in T : \A y \in T : ~(<<y, x>> \in OpToRel(<, Nat))
  BY <1>2
<1>5. \A y \in T : ~(y < x)
  BY <1>1, <1>3, <1>4
<1>6. \A y \in T : x <= y
  BY <1>1, <1>5
<1> QED
  BY <1>6

LEMMA MinOf ==
  ASSUME NEW a \in Int, NEW S \in SUBSET Int, \A x \in S : a <= x, S # {}
  PROVE  Min(S) \in S /\ \A x \in S : Min(S) <= x
<1> DEFINE T == {x - a : x \in S}
<1>0. \A x \in S : x \in Int /\ x - a \in Nat
  OBVIOUS
<1>1. T \in SUBSET Nat /\ T # {}
  BY <1>0
<1> HIDE DEF T
<1>2. PICK m \in T : \A k \in T : m <= k
  BY <1>1, Least
<1>3. PICK x \in S : m = x - a
  BY DEF T
<1>4. \A y \in S : x <= y
  <2> TAKE y \in S
  <2>1. y - a \in T
    BY DEF T
  <2> QED
    BY <1>2, <1>3, <2>1
<1> QED
  BY <1>4 DEF Min

LEMMA MaxOf ==
  ASSUME NEW b \in Int, NEW S \in SUBSET Int, \A x \in S : x <= b, S # {}
  PROVE  Max(S) \in S /\ \A x \in S : x <= Max(S)
<1> DEFINE T == {b - x : x \in S}
<1>0. \A x \in S : x \in Int /\ b - x \in Nat
  OBVIOUS
<1>1. T \in SUBSET Nat /\ T # {}
  BY <1>0
<1> HIDE DEF T
<1>2. PICK m \in T : \A k \in T : m <= k
  BY <1>1, Least
<1>3. PICK x \in S : m = b - x
  BY DEF T
<1>4. \A y \in S : x >= y
  <2> TAKE y \in S
  <2>1. b - y \in T
    BY DEF T
  <2> QED
    BY <1>2, <1>3, <2>1
<1>5. Max(S) \in S /\ \A y \in S : Max(S) >= y
  BY <1>4 DEF Max
<1> QED
  BY <1>5

-----------------------------------------------------------------------------
(* Cells and positions *)

LEMMA Sizes ==
  /\ Window \in Nat \ {0} /\ BaseSize \in Nat \ {0} /\ UBatch \in Nat \ {0} /\ MaxPos \in Nat \ {0}
  /\ Submitted \subseteq Nat \ {0}
BY CacheAssumption

LEMMA CacheIs ==
  ASSUME NEW z, NEW b, NEW c, CacheOK(c, z, b)
  PROVE  /\ c = [cells |-> c.cells, head |-> c.head, swa |-> b]
         /\ Cells(c) = 0 .. z - 1 /\ c.swa = b
         /\ c.head \in 0 .. z
         /\ c.cells \in [0 .. z - 1 -> [pos : -1 .. MaxPos, seqs : SUBSET Seqs]]
         /\ \A i \in Cells(c) : /\ c.cells[i] = [pos |-> c.cells[i].pos, seqs |-> c.cells[i].seqs]
                                /\ c.cells[i].pos \in -1 .. MaxPos
                                /\ c.cells[i].seqs \subseteq Seqs
                                /\ c.cells[i].pos = -1 <=> c.cells[i].seqs = {}
BY DEF CacheOK, Cells, Empty

LEMMA CellIs ==
  ASSUME NEW z, NEW b, NEW c, CacheOK(c, z, b), NEW i \in 0 .. z - 1
  PROVE  /\ c.cells[i] = [pos |-> c.cells[i].pos, seqs |-> c.cells[i].seqs]
         /\ c.cells[i] \in [pos : -1 .. MaxPos, seqs : SUBSET Seqs]
         /\ c.cells[i].pos \in -1 .. MaxPos /\ c.cells[i].seqs \subseteq Seqs
         /\ c.cells[i].pos = -1 <=> c.cells[i].seqs = {}
BY DEF CacheOK, Cells, Empty

LEMMA Positive ==
  ASSUME NEW z, NEW b, NEW c, CacheOK(c, z, b), NEW s
  PROVE  \A i \in CellsOf(c, s) :
           i \in Cells(c) /\ c.cells[i].pos \in 0 .. MaxPos /\ c.cells[i].seqs # {}
<1> TAKE i \in CellsOf(c, s)
<1>1. i \in Cells(c) /\ s \in c.cells[i].seqs
  BY DEF CellsOf
<1>2. c.cells[i].pos \in -1 .. MaxPos /\ (c.cells[i].pos = -1 <=> c.cells[i].seqs = {})
  BY <1>1, CacheIs
<1>3. c.cells[i].pos # -1
  BY <1>1, <1>2
<1> QED
  BY <1>1, <1>2, <1>3, Sizes

(* The last position of a sequence.                                        *)
LEMMA LastPos ==
  ASSUME NEW z, NEW b, NEW c, CacheOK(c, z, b), NEW s
  PROVE  /\ SeqPosMax(c, s) \in -1 .. MaxPos
         /\ \A i \in CellsOf(c, s) : c.cells[i].pos >= 0 /\ c.cells[i].pos <= SeqPosMax(c, s)
         /\ SeqPosMax(c, s) # -1 => \E i \in CellsOf(c, s) : c.cells[i].pos = SeqPosMax(c, s)
<1> DEFINE S == Positions(c, s) \cup {-1}
<1>1. \A i \in CellsOf(c, s) : c.cells[i].pos \in 0 .. MaxPos
  BY Positive
<1>2. S \in SUBSET Int /\ (\A x \in S : x <= MaxPos) /\ S # {}
  BY <1>1, Sizes DEF Positions
<1>3. MaxPos \in Int
  BY Sizes
<1>4. Max(S) \in S /\ \A x \in S : x <= Max(S)
  BY <1>2, <1>3, MaxOf
<1>5. \A i \in CellsOf(c, s) : c.cells[i].pos \in S
  BY DEF Positions
<1>6. SeqPosMax(c, s) = Max(S)
  BY DEF SeqPosMax
<1>7. Max(S) \in -1 .. MaxPos /\ (Max(S) # -1 => Max(S) \in Positions(c, s))
  <2>1. \A x \in S : x \in -1 .. MaxPos /\ (x # -1 => x \in Positions(c, s))
    BY <1>1, Sizes DEF Positions
  <2> QED
    BY <1>4, <2>1
<1>8. \A i \in CellsOf(c, s) : c.cells[i].pos >= 0 /\ c.cells[i].pos <= Max(S)
  BY <1>1, <1>4, <1>5
<1>9. Max(S) # -1 => \E i \in CellsOf(c, s) : c.cells[i].pos = Max(S)
  BY <1>7 DEF Positions
<1> HIDE DEF S
<1> QED
  BY <1>6, <1>7, <1>8, <1>9

LEMMA LastPosIs ==
  ASSUME NEW z, NEW b, NEW c, CacheOK(c, z, b), NEW s,
         NEW p \in Nat, \E i \in CellsOf(c, s) : c.cells[i].pos = p,
         \A i \in CellsOf(c, s) : c.cells[i].pos <= p
  PROVE  SeqPosMax(c, s) = p
BY LastPos, Sizes

LEMMA NoLastPos ==
  ASSUME NEW z, NEW b, NEW c, CacheOK(c, z, b), NEW s
  PROVE  SeqPosMax(c, s) = -1 <=> CellsOf(c, s) = {}
<1>1. /\ SeqPosMax(c, s) \in -1 .. MaxPos
      /\ \A i \in CellsOf(c, s) : c.cells[i].pos >= 0 /\ c.cells[i].pos <= SeqPosMax(c, s)
      /\ SeqPosMax(c, s) # -1 => \E i \in CellsOf(c, s) : c.cells[i].pos = SeqPosMax(c, s)
  BY LastPos
<1>2. \A i \in CellsOf(c, s) : c.cells[i].pos \in 0 .. MaxPos
  BY Positive
<1> QED
  BY <1>1, <1>2, Sizes

(* The last position that a sequence loses to a slot.                      *)
LEMMA LostIs ==
  ASSUME NEW z, NEW b, NEW c, CacheOK(c, z, b), NEW s, NEW slot
  PROVE  /\ Lost(c, slot, s) \in -1 .. MaxPos
         /\ \A i \in Range(slot) \cap CellsOf(c, s) : c.cells[i].pos <= Lost(c, slot, s)
         /\ Lost(c, slot, s) # -1 =>
              \E i \in Range(slot) \cap CellsOf(c, s) : c.cells[i].pos = Lost(c, slot, s)
<1> DEFINE R == Range(slot) \cap CellsOf(c, s)
           S == {c.cells[i].pos : i \in R} \cup {-1}
<1>1. \A i \in R : c.cells[i].pos \in 0 .. MaxPos
  BY Positive
<1> HIDE DEF R
<1>2. S \in SUBSET Int /\ (\A x \in S : x <= MaxPos) /\ S # {}
  BY <1>1, Sizes
<1>3. MaxPos \in Int
  BY Sizes
<1>4. Max(S) \in S /\ \A x \in S : x <= Max(S)
  BY <1>2, <1>3, MaxOf
<1>5. \A i \in R : c.cells[i].pos \in S
  OBVIOUS
<1>6. Lost(c, slot, s) = Max(S)
  BY DEF Lost, R
<1>7. Max(S) \in -1 .. MaxPos
  BY <1>1, <1>4, Sizes
<1>8. \A i \in R : c.cells[i].pos <= Max(S)
  BY <1>4, <1>5
<1>9. Max(S) # -1 => \E i \in R : c.cells[i].pos = Max(S)
  BY <1>4
<1> HIDE DEF S
<1> QED
  BY <1>6, <1>7, <1>8, <1>9 DEF R

LEMMA WithoutIs ==
  ASSUME NEW cell \in [pos : -1 .. MaxPos, seqs : SUBSET Seqs],
         cell.pos = -1 <=> cell.seqs = {}, NEW S
  PROVE  /\ Without(cell, S) \in [pos : -1 .. MaxPos, seqs : SUBSET Seqs]
         /\ Without(cell, S).seqs = cell.seqs \ S
         /\ Without(cell, S).pos = -1 <=> Without(cell, S).seqs = {}
         /\ Without(cell, S).seqs # {} => Without(cell, S).pos = cell.pos
         /\ cell.seqs \cap S = {} => Without(cell, S) = cell
<1>1. CASE cell.seqs \subseteq S
  BY <1>1, Sizes DEF Without, NoCell
<1>2. CASE ~(cell.seqs \subseteq S)
  BY <1>2, Sizes DEF Without, NoCell
<1> QED
  BY <1>1, <1>2

-----------------------------------------------------------------------------
(* Slots *)

(* The cells of a slot: n different ones.                                  *)
IsSlot(slot, S, n) ==
  /\ slot \in [1 .. n -> S]
  /\ \A j, k \in 1 .. n : slot[j] = slot[k] => j = k

LEMMA IndexIs ==
  ASSUME NEW slot
  PROVE  \A i \in Range(slot) : Index(slot, i) \in DOMAIN slot /\ slot[Index(slot, i)] = i
<1> TAKE i \in Range(slot)
<1>1. \E k \in DOMAIN slot : slot[k] = i
  BY DEF Range
<1> QED
  BY <1>1 DEF Index

LEMMA SlotIs ==
  ASSUME NEW S, NEW n \in Nat \ {0}, NEW slot, IsSlot(slot, S, n)
  PROVE  /\ DOMAIN slot = 1 .. n /\ Len(slot) = n /\ slot # <<>> /\ slot \in Seq(S)
         /\ Range(slot) \subseteq S
         /\ \A k \in 1 .. n : slot[k] \in S /\ slot[k] \in Range(slot) /\ Index(slot, slot[k]) = k
         /\ \A i \in Range(slot) : Index(slot, i) \in 1 .. n /\ slot[Index(slot, i)] = i
<1>1. slot \in [1 .. n -> S] /\ \A j, k \in 1 .. n : slot[j] = slot[k] => j = k
  BY DEF IsSlot
<1>2. DOMAIN slot = 1 .. n /\ Len(slot) = n /\ slot # <<>> /\ slot \in Seq(S)
  BY <1>1
<1>3. Range(slot) \subseteq S /\ \A k \in 1 .. n : slot[k] \in S /\ slot[k] \in Range(slot)
  BY <1>1 DEF Range
<1>4. \A k \in 1 .. n : Index(slot, slot[k]) = k
  <2> TAKE k \in 1 .. n
  <2>1. \E j \in DOMAIN slot : slot[j] = slot[k]
    BY <1>2
  <2>2. Index(slot, slot[k]) \in DOMAIN slot /\ slot[Index(slot, slot[k])] = slot[k]
    BY <2>1 DEF Index
  <2> QED
    BY <1>1, <1>2, <2>2
<1>5. \A i \in Range(slot) : Index(slot, i) \in 1 .. n /\ slot[Index(slot, i)] = i
  BY <1>2, IndexIs
<1> QED
  BY <1>2, <1>3, <1>4, <1>5

(* A finite set ranked by different numbers has an element before which    *)
(* there are exactly k others.                                             *)
Below(F, R, i) == {j \in F : R[j] < R[i]}

LEMMA Ranked ==
  ASSUME NEW F, IsFiniteSet(F), NEW R, \A i \in F : R[i] \in Int,
         \A i, j \in F : R[i] = R[j] => i = j,
         NEW k \in 0 .. Cardinality(F) - 1
  PROVE  \E i \in F : Cardinality(Below(F, R, i)) = k
<1> DEFINE B(i) == {j \in F : R[j] < R[i]}
           m == Cardinality(F)
           f == [i \in F |-> Cardinality(B(i))]
<1>1. m \in Nat
  BY FS_CardinalityType
<1>2. \A i \in F : IsFiniteSet(B(i)) /\ Cardinality(B(i)) \in 0 .. m - 1
  <2> TAKE i \in F
  <2>1. IsFiniteSet(F \ {i}) /\ Cardinality(F \ {i}) = m - 1
    BY FS_RemoveElement
  <2>2. B(i) \in SUBSET (F \ {i})
    OBVIOUS
  <2>3. IsFiniteSet(B(i)) /\ Cardinality(B(i)) <= Cardinality(F \ {i})
    BY <2>1, <2>2, FS_Subset
  <2>4. Cardinality(B(i)) \in Nat
    BY <2>3, FS_CardinalityType
  <2> QED
    BY <1>1, <2>1, <2>3, <2>4
<1>3. \A i, j \in F : R[i] < R[j] => Cardinality(B(i)) < Cardinality(B(j))
  <2> TAKE i, j \in F
  <2> HAVE R[i] < R[j]
  <2>1. i \in B(j) /\ i \notin B(i)
    OBVIOUS
  <2>2. B(i) \cup {i} \in SUBSET B(j)
    BY <2>1
  <2> HIDE DEF B
  <2>3. Cardinality(B(i) \cup {i}) = Cardinality(B(i)) + 1
    BY <1>2, <2>1, FS_AddElement
  <2>4. Cardinality(B(i) \cup {i}) <= Cardinality(B(j))
    BY <1>2, <2>2, FS_Subset
  <2> QED
    BY <1>2, <2>3, <2>4
<1> HIDE DEF B
<1>4. f \in [F -> 0 .. m - 1]
  BY <1>2
<1>5. \A i, j \in F : f[i] = f[j] => i = j
  <2> TAKE i, j \in F
  <2> HAVE f[i] = f[j]
  <2>1. ~(R[i] < R[j]) /\ ~(R[j] < R[i])
    BY <1>2, <1>3
  <2> QED
    BY <2>1
<1>6. IsFiniteSet(0 .. m - 1) /\ Cardinality(0 .. m - 1) = m
  BY <1>1, FS_Interval
<1> HIDE DEF f
<1>7. f \in Injection(F, 0 .. m - 1)
  BY <1>4, <1>5, Fun_IsInj
<1>8. f \in Surjection(F, 0 .. m - 1)
  BY <1>6, <1>7, FS_Injection
<1>9. k \in 0 .. m - 1
  OBVIOUS
<1> HIDE DEF m
<1>10. \A t \in 0 .. m - 1 : \E i \in F : f[i] = t
  BY <1>8, Fun_SurjectionProperties
<1>11. PICK i \in F : f[i] = k
  BY <1>9, <1>10
<1> QED
  BY <1>11 DEF f, B, Below

LEMMA CellsFinite ==
  ASSUME NEW z \in Nat, NEW b, NEW c, CacheOK(c, z, b)
  PROVE  IsFiniteSet(Cells(c)) /\ Cardinality(Cells(c)) = z
<1>1. Cells(c) = 0 .. z - 1
  BY CacheIs
<1> QED
  BY <1>1, FS_Interval

(* find_slot finds cells that can be used, or none.                        *)
LEMMA FoundSlot ==
  ASSUME NEW z \in Nat, NEW b, NEW c, CacheOK(c, z, b), NEW n \in Nat \ {0},
         FindSlot(c, n) # <<>>
  PROVE  IsSlot(FindSlot(c, n), {i \in Cells(c) : CanUse(c, i)}, n)
<1> DEFINE size == Cardinality(Cells(c))
           from == IF c.head > Cardinality(Used(c)) + 2 * n THEN 0 ELSE c.head
           free == {i \in Cells(c) : CanUse(c, i)}
           Rank(i) == IF i >= from THEN i - from ELSE i + size - from
           Before(i) == {j \in free : Rank(j) < Rank(i)}
           At(k) == CHOOSE i \in free : Cardinality(Before(i)) = k - 1
           slot == [k \in 1 .. n |-> At(k)]
           R == [i \in free |-> Rank(i)]
<1>1. FindSlot(c, n) = IF Cardinality(free) < n THEN <<>> ELSE slot
  BY DEF FindSlot
<1>2. Cells(c) = 0 .. z - 1 /\ c.head \in 0 .. z /\ IsFiniteSet(Cells(c)) /\ size = z
  BY CacheIs, CellsFinite
<1>3. from \in 0 .. z
  BY <1>2
<1>4. IsFiniteSet(free) /\ Cardinality(free) \in Nat
  BY <1>2, FS_Subset, FS_CardinalityType
<1>5. ~(Cardinality(free) < n) /\ FindSlot(c, n) = slot
  BY <1>1
<1> HIDE DEF from
<1>6. \A i, j \in Cells(c) : Rank(i) \in Int /\ (Rank(i) = Rank(j) => i = j)
  <2> HIDE DEF size
  <2> QED
    BY <1>2, <1>3
<1> HIDE DEF Rank
<1>7. \A i, j \in free : R[i] = Rank(i) /\ R[i] \in Int /\ (R[i] = R[j] => i = j)
  BY <1>6
<1>8. \A i \in free : Before(i) = Below(free, R, i)
  BY <1>7 DEF Below
<1> HIDE DEF R, Before, free
<1>20. (\A i \in free : R[i] \in Int) /\ (\A i, j \in free : R[i] = R[j] => i = j)
  BY <1>7
<1>21. \A q \in 0 .. Cardinality(free) - 1 :
         \E i \in free : Cardinality(Below(free, R, i)) = q
  BY <1>4, <1>20, Ranked
<1>9. \A k \in 1 .. n : At(k) \in free /\ Cardinality(Before(At(k))) = k - 1
  <2> TAKE k \in 1 .. n
  <2>1. k - 1 \in 0 .. Cardinality(free) - 1
    BY <1>4, <1>5
  <2>2. \E i \in free : Cardinality(Below(free, R, i)) = k - 1
    BY <1>21, <2>1
  <2>3. \E i \in free : Cardinality(Before(i)) = k - 1
    BY <1>8, <2>2
  <2> QED
    BY <2>3
<1> HIDE DEF At
<1>10. \A j, k \in 1 .. n : At(j) = At(k) => j = k
  <2> TAKE j, k \in 1 .. n
  <2> HAVE At(j) = At(k)
  <2>1. j - 1 = k - 1
    BY <1>9
  <2> QED
    BY <2>1
<1>11. slot \in [1 .. n -> free] /\ \A j, k \in 1 .. n : slot[j] = slot[k] => j = k
  BY <1>9, <1>10
<1> QED
  BY <1>5, <1>11 DEF IsSlot, free

-----------------------------------------------------------------------------
(* What the operations leave in the cells *)

(* Cell i holds position p of the sequences S, and is empty without any.   *)
Holds(c, i, p, S) == c.cells[i].seqs = S /\ (S # {} => c.cells[i].pos = p)

CellsOK(cells, z) ==
  /\ cells \in [0 .. z - 1 -> [pos : -1 .. MaxPos, seqs : SUBSET Seqs]]
  /\ \A i \in 0 .. z - 1 : cells[i].pos = -1 <=> cells[i].seqs = {}

Made(d, c, cells, head) == d = [c EXCEPT !.cells = cells, !.head = head]

LEMMA CacheMade ==
  ASSUME NEW z, NEW b, NEW c, CacheOK(c, z, b), NEW cells, CellsOK(cells, z), NEW head \in 0 .. z,
         NEW d, Made(d, c, cells, head)
  PROVE  CacheOK(d, z, b) /\ d.cells = cells /\ d.head = head /\ d.swa = c.swa /\ Cells(d) = Cells(c)
BY DEF CacheOK, Cells, Empty, CellsOK, Made

LEMMA CachesEqual ==
  ASSUME NEW z, NEW b, NEW c, NEW d, CacheOK(c, z, b), CacheOK(d, z, b), c.head = d.head,
         \A i \in 0 .. z - 1 : Holds(d, i, c.cells[i].pos, c.cells[i].seqs)
  PROVE  c = d
<1>1. \A i \in 0 .. z - 1 : c.cells[i] = d.cells[i]
  <2> TAKE i \in 0 .. z - 1
  <2>1. /\ c.cells[i] = [pos |-> c.cells[i].pos, seqs |-> c.cells[i].seqs]
        /\ c.cells[i].pos = -1 <=> c.cells[i].seqs = {}
    BY CellIs
  <2>2. /\ d.cells[i] = [pos |-> d.cells[i].pos, seqs |-> d.cells[i].seqs]
        /\ d.cells[i].pos = -1 <=> d.cells[i].seqs = {}
    BY CellIs
  <2>3. Holds(d, i, c.cells[i].pos, c.cells[i].seqs)
    OBVIOUS
  <2>4. c.cells[i].seqs = d.cells[i].seqs /\ c.cells[i].pos = d.cells[i].pos
    BY <2>1, <2>2, <2>3 DEF Holds
  <2> QED
    BY <2>1, <2>2, <2>4
<1>2. /\ c.cells \in [0 .. z - 1 -> [pos : -1 .. MaxPos, seqs : SUBSET Seqs]]
      /\ d.cells \in [0 .. z - 1 -> [pos : -1 .. MaxPos, seqs : SUBSET Seqs]]
  BY CacheIs
<1>5. c.cells = [i \in 0 .. z - 1 |-> c.cells[i]] /\ d.cells = [i \in 0 .. z - 1 |-> d.cells[i]]
  BY <1>2
<1>3. c.cells = d.cells
  BY <1>1, <1>5
<1>4. /\ c = [cells |-> c.cells, head |-> c.head, swa |-> b]
      /\ d = [cells |-> d.cells, head |-> d.head, swa |-> b]
  BY CacheIs
<1> QED
  BY <1>3, <1>4

Applying(c, slot, n, s, p) ==
  /\ IsSlot(slot, Cells(c), n) /\ n \in Nat \ {0}
  /\ s \in Seqs /\ p \in Nat /\ p + n - 1 <= MaxPos

LEMMA Applied ==
  ASSUME NEW z \in Nat, NEW b, NEW c, CacheOK(c, z, b), NEW n, NEW slot, NEW s, NEW p,
         Applying(c, slot, n, s, p)
  PROVE  /\ CacheOK(ApplyUbatch(c, slot, s, p), z, b)
         /\ ApplyUbatch(c, slot, s, p).head = slot[n] + 1
         /\ \A i \in Cells(c) \ Range(slot) :
              Holds(ApplyUbatch(c, slot, s, p), i, c.cells[i].pos,
                    {t \in c.cells[i].seqs : c.cells[i].pos > Lost(c, slot, t)})
         /\ \A k \in 1 .. n :
              Holds(ApplyUbatch(c, slot, s, p), slot[k], p + k - 1,
                    {t \in {s} : p + k - 1 > Lost(c, slot, t)})
<1> DEFINE Put(i) == IF i \in Range(slot) THEN [pos |-> p + Index(slot, i) - 1, seqs |-> {s}]
                     ELSE c.cells[i]
           P(cell) == {t \in Seqs : cell.pos <= Lost(c, slot, t)}
           cells == [i \in Cells(c) |-> Without(Put(i), P(Put(i)))]
           d == [c EXCEPT !.cells = cells, !.head = slot[n] + 1]
           Cell == [pos : -1 .. MaxPos, seqs : SUBSET Seqs]
<1>1. /\ n \in Nat \ {0} /\ s \in Seqs /\ p \in Nat /\ p + n - 1 <= MaxPos
      /\ IsSlot(slot, Cells(c), n)
  BY DEF Applying
<1>2. /\ DOMAIN slot = 1 .. n /\ Len(slot) = n
      /\ Range(slot) \subseteq Cells(c)
      /\ \A k \in 1 .. n : slot[k] \in Cells(c) /\ slot[k] \in Range(slot) /\ Index(slot, slot[k]) = k
      /\ \A i \in Range(slot) : Index(slot, i) \in 1 .. n
  <2> DEFINE S == Cells(c)
  <2> HIDE DEF S
  <2>1. n \in Nat \ {0} /\ IsSlot(slot, S, n)
    BY <1>1 DEF S
  <2>2. /\ DOMAIN slot = 1 .. n /\ Len(slot) = n
        /\ Range(slot) \subseteq S
        /\ \A k \in 1 .. n : slot[k] \in S /\ slot[k] \in Range(slot) /\ Index(slot, slot[k]) = k
        /\ \A i \in Range(slot) : Index(slot, i) \in 1 .. n
    BY <2>1, SlotIs
  <2> QED
    BY <2>2 DEF S
<1>3. ApplyUbatch(c, slot, s, p) = d
  BY <1>2 DEF ApplyUbatch
<1>4. /\ Cells(c) = 0 .. z - 1
      /\ \A i \in Cells(c) : c.cells[i] \in Cell /\ (c.cells[i].pos = -1 <=> c.cells[i].seqs = {})
  BY CacheIs
<1>5. \A i \in Cells(c) : Put(i) \in Cell /\ (Put(i).pos = -1 <=> Put(i).seqs = {})
  <2> TAKE i \in Cells(c)
  <2>1. CASE i \in Range(slot)
    <3>1. Index(slot, i) \in 1 .. n
      BY <1>2, <2>1
    <3>2. p + Index(slot, i) - 1 \in 0 .. MaxPos
      BY <1>1, <3>1, Sizes
    <3> QED
      BY <1>1, <2>1, <3>2, Sizes
  <2>2. CASE i \notin Range(slot)
    BY <1>4, <2>2
  <2> QED
    BY <2>1, <2>2
<1>6. \A i \in Cells(c) \ Range(slot) : Put(i) = c.cells[i]
  OBVIOUS
<1>7. \A k \in 1 .. n : Put(slot[k]) = [pos |-> p + k - 1, seqs |-> {s}]
  BY <1>2
<1> HIDE DEF Put, Cell
<1>8. \A i \in Cells(c) :
        /\ cells[i] \in Cell /\ (cells[i].pos = -1 <=> cells[i].seqs = {})
        /\ cells[i].seqs = Put(i).seqs \ P(Put(i))
        /\ cells[i].seqs # {} => cells[i].pos = Put(i).pos
  <2> TAKE i \in Cells(c)
  <2> DEFINE cell == Put(i)
             T == P(cell)
  <2>1. cell \in Cell /\ (cell.pos = -1 <=> cell.seqs = {})
    BY <1>5
  <2>2. cells[i] = Without(cell, T)
    OBVIOUS
  <2> HIDE DEF cell, T, cells
  <2>3. /\ Without(cell, T) \in Cell
        /\ Without(cell, T).seqs = cell.seqs \ T
        /\ Without(cell, T).pos = -1 <=> Without(cell, T).seqs = {}
        /\ Without(cell, T).seqs # {} => Without(cell, T).pos = cell.pos
    BY <2>1, WithoutIs DEF Cell
  <2>4. /\ cells[i] \in Cell /\ (cells[i].pos = -1 <=> cells[i].seqs = {})
        /\ cells[i].seqs = cell.seqs \ T
        /\ cells[i].seqs # {} => cells[i].pos = cell.pos
    BY <2>2, <2>3
  <2> QED
    BY <2>4 DEF cell, T
<1>9. \A t \in Seqs : Lost(c, slot, t) \in -1 .. MaxPos
  BY LostIs
<1>10. cells \in [0 .. z - 1 -> Cell]
  BY <1>4, <1>8
<1> HIDE DEF cells
<1>11. slot[n] + 1 \in 0 .. z
  BY <1>1, <1>2, <1>4
<1>12. CacheOK(d, z, b) /\ d.cells = cells /\ d.head = slot[n] + 1
  <2>1. CellsOK(cells, z)
    BY <1>4, <1>8, <1>10 DEF CellsOK, Cell
  <2> DEFINE head == slot[n] + 1
  <2>2. head \in 0 .. z
    BY <1>11
  <2>3. Made(d, c, cells, head)
    BY DEF Made
  <2> HIDE DEF head, d
  <2>4. CacheOK(d, z, b) /\ d.cells = cells /\ d.head = head
    BY <2>1, <2>2, <2>3, CacheMade
  <2> QED
    BY <2>4 DEF head
<1> HIDE DEF d
<1>13. \A i \in Cells(c) \ Range(slot) :
         Holds(d, i, c.cells[i].pos, {t \in c.cells[i].seqs : c.cells[i].pos > Lost(c, slot, t)})
  <2> TAKE i \in Cells(c) \ Range(slot)
  <2>1. c.cells[i].seqs \subseteq Seqs /\ c.cells[i].pos \in -1 .. MaxPos
    BY CacheIs
  <2>2. c.cells[i].seqs \ P(c.cells[i]) = {t \in c.cells[i].seqs : c.cells[i].pos > Lost(c, slot, t)}
    BY <1>9, <2>1, Sizes
  <2>3. /\ cells[i].seqs = c.cells[i].seqs \ P(c.cells[i])
        /\ cells[i].seqs # {} => cells[i].pos = c.cells[i].pos
    BY <1>6, <1>8
  <2> QED
    BY <1>12, <2>2, <2>3 DEF Holds
<1>14. \A k \in 1 .. n :
         Holds(d, slot[k], p + k - 1, {t \in {s} : p + k - 1 > Lost(c, slot, t)})
  <2> TAKE k \in 1 .. n
  <2> DEFINE x == [pos |-> p + k - 1, seqs |-> {s}]
  <2>1. {s} \ P(x) = {t \in {s} : p + k - 1 > Lost(c, slot, t)}
    BY <1>1, <1>9, Sizes
  <2>2. Put(slot[k]) = x
    BY <1>7
  <2>3. slot[k] \in Cells(c)
    BY <1>2
  <2>4. x.pos = p + k - 1 /\ x.seqs = {s}
    OBVIOUS
  <2> HIDE DEF x, P
  <2>5. /\ cells[slot[k]].seqs = {s} \ P(x)
        /\ cells[slot[k]].seqs # {} => cells[slot[k]].pos = p + k - 1
    BY <1>8, <2>2, <2>3, <2>4
  <2> QED
    BY <1>12, <2>1, <2>5 DEF Holds
<1> QED
  BY <1>3, <1>12, <1>13, <1>14

LEMMA OutsideApplied ==
  ASSUME NEW z \in Nat, NEW b, NEW c, CacheOK(c, z, b), NEW n, NEW slot, NEW s, NEW p,
         Applying(c, slot, n, s, p)
  PROVE  \A i \in Cells(c) \ Range(slot) :
           Holds(ApplyUbatch(c, slot, s, p), i, c.cells[i].pos,
                 {t \in c.cells[i].seqs : c.cells[i].pos > Lost(c, slot, t)})
BY Applied

LEMMA FreedIs ==
  ASSUME NEW z \in Nat, NEW b, NEW c, CacheOK(c, z, b), NEW cells, CellsOK(cells, z)
  PROVE  CacheOK(Freed(c, cells), z, b) /\ Freed(c, cells).cells = cells
<1> DEFINE freed == {i \in Cells(c) : ~Empty(c, i) /\ cells[i] = NoCell}
           head == IF freed # {} THEN Min(freed \cup {c.head}) ELSE c.head
           d == Freed(c, cells)
<1>1. freed \subseteq 0 .. z - 1 /\ c.head \in 0 .. z
  BY CacheIs
<1>2. Made(d, c, cells, head)
  BY DEF Freed, Made
<1> HIDE DEF freed
<1>3. head \in 0 .. z
  <2>1. CASE freed = {}
    BY <1>1, <2>1
  <2>2. CASE freed # {}
    <3> DEFINE S == freed \cup {c.head}
    <3>0. \A x \in freed : x \in 0 .. z
      BY <1>1
    <3>1. \A x \in S : x \in 0 .. z
      BY <1>1, <3>0
    <3> DEFINE a == 0
    <3>2. a \in Int /\ S \in SUBSET Int /\ (\A x \in S : a <= x) /\ S # {}
      BY <3>1
    <3> HIDE DEF S, a
    <3>3. Min(S) \in S
      BY <3>2, MinOf
    <3> QED
      BY <2>2, <3>1, <3>3 DEF S
  <2> QED
    BY <2>1, <2>2
<1> HIDE DEF head, d
<1>4. CacheOK(d, z, b) /\ d.cells = cells
  BY <1>2, <1>3, CacheMade
<1> QED
  BY <1>4 DEF d

LEMMA SeqRmIs ==
  ASSUME NEW z \in Nat, NEW b, NEW c, CacheOK(c, z, b), NEW s, NEW p \in Nat
  PROVE  /\ CacheOK(SeqRm(c, s, p), z, b)
         /\ \A i \in Cells(c) :
              Holds(SeqRm(c, s, p), i, c.cells[i].pos,
                    {t \in c.cells[i].seqs : t = s => c.cells[i].pos < p})
<1> DEFINE cells == [i \in Cells(c) |-> IF c.cells[i].pos >= p THEN Without(c.cells[i], {s})
                                         ELSE c.cells[i]]
           Cell == [pos : -1 .. MaxPos, seqs : SUBSET Seqs]
           S(i) == {t \in c.cells[i].seqs : t = s => c.cells[i].pos < p}
<1>1. Cells(c) = 0 .. z - 1
  BY CacheIs
<1>2. \A i \in Cells(c) :
        /\ cells[i] \in Cell /\ (cells[i].pos = -1 <=> cells[i].seqs = {})
        /\ cells[i].seqs = S(i)
        /\ cells[i].seqs # {} => cells[i].pos = c.cells[i].pos
  <2> TAKE i \in Cells(c)
  <2> DEFINE cell == c.cells[i]
  <2>1. /\ cell \in Cell /\ (cell.pos = -1 <=> cell.seqs = {})
        /\ cell.pos \in -1 .. MaxPos
    BY <1>1, CellIs
  <2>2. CASE cell.pos >= p
    <3>1. cells[i] = Without(cell, {s})
      BY <2>2
    <3>2. S(i) = cell.seqs \ {s}
      BY <2>1, <2>2, Sizes
    <3> HIDE DEF cells, S, cell
    <3>3. /\ Without(cell, {s}) \in Cell
          /\ Without(cell, {s}).seqs = cell.seqs \ {s}
          /\ Without(cell, {s}).pos = -1 <=> Without(cell, {s}).seqs = {}
          /\ Without(cell, {s}).seqs # {} => Without(cell, {s}).pos = cell.pos
      BY <2>1, WithoutIs DEF Cell
    <3>4. /\ cells[i] \in Cell /\ (cells[i].pos = -1 <=> cells[i].seqs = {})
          /\ cells[i].seqs = S(i)
          /\ cells[i].seqs # {} => cells[i].pos = cell.pos
      BY <3>1, <3>2, <3>3
    <3> QED
      BY <3>4 DEF cell
  <2>3. CASE ~(cell.pos >= p)
    <3>1. cells[i] = cell
      BY <2>3
    <3>2. S(i) = cell.seqs
      BY <2>1, <2>3, Sizes
    <3> QED
      BY <2>1, <3>1, <3>2
  <2> QED
    BY <2>2, <2>3
<1>3. SeqRm(c, s, p) = Freed(c, cells)
  BY DEF SeqRm
<1> HIDE DEF S
<1>4. CellsOK(cells, z)
  <2>1. \A i \in 0 .. z - 1 : cells[i] \in Cell
    BY <1>1, <1>2
  <2>2. cells \in [0 .. z - 1 -> Cell]
    BY <1>1, <2>1
  <2> HIDE DEF cells
  <2> QED
    BY <1>1, <1>2, <2>2 DEF CellsOK
<1> HIDE DEF cells
<1>5. CacheOK(Freed(c, cells), z, b) /\ Freed(c, cells).cells = cells
  BY <1>4, FreedIs
<1>6. \A i \in Cells(c) : Holds(Freed(c, cells), i, c.cells[i].pos, S(i))
  BY <1>2, <1>5 DEF Holds
<1> QED
  BY <1>3, <1>5, <1>6 DEF S

LEMMA SeqKeepIs ==
  ASSUME NEW z \in Nat, NEW b, NEW c, CacheOK(c, z, b), NEW s \in Seqs
  PROVE  /\ CacheOK(SeqKeep(c, s), z, b)
         /\ \A i \in Cells(c) :
              Holds(SeqKeep(c, s), i, c.cells[i].pos, {t \in c.cells[i].seqs : t = s})
<1> DEFINE O == Seqs \ {s}
           cells == [i \in Cells(c) |-> Without(c.cells[i], O)]
           Cell == [pos : -1 .. MaxPos, seqs : SUBSET Seqs]
           S(i) == {t \in c.cells[i].seqs : t = s}
<1>1. Cells(c) = 0 .. z - 1
  BY CacheIs
<1>2. \A i \in Cells(c) :
        /\ cells[i] \in Cell /\ (cells[i].pos = -1 <=> cells[i].seqs = {})
        /\ cells[i].seqs = S(i)
        /\ cells[i].seqs # {} => cells[i].pos = c.cells[i].pos
  <2> TAKE i \in Cells(c)
  <2> DEFINE cell == c.cells[i]
  <2>1. cell \in Cell /\ (cell.pos = -1 <=> cell.seqs = {}) /\ cell.seqs \subseteq Seqs
    BY <1>1, CellIs
  <2>2. cells[i] = Without(cell, O)
    OBVIOUS
  <2>3. S(i) = cell.seqs \ O
    BY <2>1
  <2> HIDE DEF cells, S, cell, O
  <2>4. /\ Without(cell, O) \in Cell
        /\ Without(cell, O).seqs = cell.seqs \ O
        /\ Without(cell, O).pos = -1 <=> Without(cell, O).seqs = {}
        /\ Without(cell, O).seqs # {} => Without(cell, O).pos = cell.pos
    BY <2>1, WithoutIs DEF Cell
  <2>5. /\ cells[i] \in Cell /\ (cells[i].pos = -1 <=> cells[i].seqs = {})
        /\ cells[i].seqs = S(i)
        /\ cells[i].seqs # {} => cells[i].pos = cell.pos
    BY <2>2, <2>3, <2>4
  <2> QED
    BY <2>5 DEF cell
<1>3. SeqKeep(c, s) = Freed(c, cells)
  BY DEF SeqKeep
<1> HIDE DEF S
<1>4. CellsOK(cells, z)
  <2>1. \A i \in 0 .. z - 1 : cells[i] \in Cell
    BY <1>1, <1>2
  <2>2. cells \in [0 .. z - 1 -> Cell]
    BY <1>1, <2>1
  <2> HIDE DEF cells
  <2> QED
    BY <1>1, <1>2, <2>2 DEF CellsOK
<1> HIDE DEF cells
<1>5. CacheOK(Freed(c, cells), z, b) /\ Freed(c, cells).cells = cells
  BY <1>4, FreedIs
<1>6. \A i \in Cells(c) : Holds(Freed(c, cells), i, c.cells[i].pos, S(i))
  BY <1>2, <1>5 DEF Holds
<1> QED
  BY <1>3, <1>5, <1>6 DEF S

LEMMA SeqCpIs ==
  ASSUME NEW z \in Nat, NEW b, NEW c, CacheOK(c, z, b), NEW s, NEW t \in Seqs
  PROVE  /\ CacheOK(SeqCp(c, s, t), z, b)
         /\ \A i \in Cells(c) :
              Holds(SeqCp(c, s, t), i, c.cells[i].pos,
                    c.cells[i].seqs \cup {u \in {t} : s \in c.cells[i].seqs})
<1> DEFINE cells == [i \in Cells(c) |->
                       IF s \in c.cells[i].seqs THEN [c.cells[i] EXCEPT !.seqs = @ \cup {t}]
                       ELSE c.cells[i]]
           Cell == [pos : -1 .. MaxPos, seqs : SUBSET Seqs]
           S(i) == c.cells[i].seqs \cup {u \in {t} : s \in c.cells[i].seqs}
           d == SeqCp(c, s, t)
<1>1. Cells(c) = 0 .. z - 1
  BY CacheIs
<1>2. \A i \in Cells(c) :
        /\ cells[i] \in Cell /\ (cells[i].pos = -1 <=> cells[i].seqs = {})
        /\ cells[i].seqs = S(i)
        /\ cells[i].pos = c.cells[i].pos
  <2> TAKE i \in Cells(c)
  <2>1. /\ c.cells[i] = [pos |-> c.cells[i].pos, seqs |-> c.cells[i].seqs]
        /\ c.cells[i].pos \in -1 .. MaxPos /\ c.cells[i].seqs \subseteq Seqs
        /\ c.cells[i].pos = -1 <=> c.cells[i].seqs = {}
    BY <1>1, CellIs
  <2>2. CASE s \in c.cells[i].seqs
    <3>1. cells[i] = [pos |-> c.cells[i].pos, seqs |-> c.cells[i].seqs \cup {t}]
      BY <2>1, <2>2
    <3>2. S(i) = c.cells[i].seqs \cup {t}
      BY <2>2
    <3> HIDE DEF cells, S
    <3> QED
      BY <2>1, <2>2, <3>1, <3>2
  <2>3. CASE s \notin c.cells[i].seqs
    BY <2>1, <2>3
  <2> QED
    BY <2>2, <2>3
<1>3. Made(d, c, cells, c.head)
  BY CacheIs DEF SeqCp, Made
<1> HIDE DEF S
<1>4. CellsOK(cells, z)
  <2>1. \A i \in 0 .. z - 1 : cells[i] \in Cell
    BY <1>1, <1>2
  <2>2. cells \in [0 .. z - 1 -> Cell]
    BY <1>1, <2>1
  <2> HIDE DEF cells
  <2> QED
    BY <1>1, <1>2, <2>2 DEF CellsOK
<1> HIDE DEF cells, d
<1>5. CacheOK(d, z, b) /\ d.cells = cells
  <2>1. c.head \in 0 .. z
    BY CacheIs
  <2> QED
    BY <1>3, <1>4, <2>1, CacheMade
<1>6. \A i \in Cells(c) : Holds(d, i, c.cells[i].pos, S(i))
  BY <1>2, <1>5 DEF Holds
<1> QED
  BY <1>5, <1>6 DEF S, d

LEMMA PutBackIs ==
  ASSUME NEW z \in Nat, NEW b, NEW c, CacheOK(c, z, b), NEW o, CacheOK(o, z, b),
         NEW n \in Nat \ {0}, NEW slot, IsSlot(slot, Cells(o), n)
  PROVE  /\ CacheOK(PutBack(c, Save(o, slot)), z, b)
         /\ PutBack(c, Save(o, slot)).head = o.head
         /\ \A i \in Cells(o) :
              PutBack(c, Save(o, slot)).cells[i] = IF i \in Range(slot) THEN o.cells[i] ELSE c.cells[i]
<1> DEFINE sv == Save(o, slot)
           cells == [i \in Cells(c) |-> IF i \in Range(slot) THEN sv.cells[Index(slot, i)]
                                         ELSE c.cells[i]]
           d == PutBack(c, sv)
<1>1. Cells(c) = 0 .. z - 1 /\ Cells(o) = 0 .. z - 1 /\ o.head \in 0 .. z
  BY CacheIs
<1>2. \A i \in Range(slot) : Index(slot, i) \in DOMAIN slot /\ slot[Index(slot, i)] = i
  BY IndexIs
<1>3. \A i \in Range(slot) : sv.cells[Index(slot, i)] = o.cells[i]
  BY <1>2 DEF Save
<1>4. \A i \in 0 .. z - 1 : cells[i] = IF i \in Range(slot) THEN o.cells[i] ELSE c.cells[i]
  BY <1>1, <1>3
<1>5. Made(d, c, cells, o.head)
  <2>1. c = [cells |-> c.cells, head |-> c.head, swa |-> b]
    BY CacheIs
  <2>2. sv.slot = slot /\ sv.head = o.head
    BY DEF Save
  <2>3. d = [c EXCEPT !.head = o.head, !.cells = cells]
    BY <2>2 DEF PutBack
  <2> HIDE DEF cells, d
  <2> QED
    BY <2>1, <2>3 DEF Made
<1>6. CellsOK(cells, z)
  <2>1. \A i \in 0 .. z - 1 :
          /\ cells[i] \in [pos : -1 .. MaxPos, seqs : SUBSET Seqs]
          /\ cells[i].pos = -1 <=> cells[i].seqs = {}
    <3> TAKE i \in 0 .. z - 1
    <3>1. cells[i] = o.cells[i] \/ cells[i] = c.cells[i]
      BY <1>4
    <3>2. /\ o.cells[i] \in [pos : -1 .. MaxPos, seqs : SUBSET Seqs]
          /\ o.cells[i].pos = -1 <=> o.cells[i].seqs = {}
      BY CellIs
    <3>3. /\ c.cells[i] \in [pos : -1 .. MaxPos, seqs : SUBSET Seqs]
          /\ c.cells[i].pos = -1 <=> c.cells[i].seqs = {}
      BY CellIs
    <3> HIDE DEF cells
    <3> QED
      BY <3>1, <3>2, <3>3
  <2>2. cells \in [0 .. z - 1 -> [pos : -1 .. MaxPos, seqs : SUBSET Seqs]]
    BY <1>1, <2>1
  <2> HIDE DEF cells
  <2> QED
    BY <2>1, <2>2 DEF CellsOK
<1> HIDE DEF cells, d
<1>7. CacheOK(d, z, b) /\ d.cells = cells /\ d.head = o.head
  BY <1>1, <1>5, <1>6, CacheMade
<1> QED
  BY <1>1, <1>4, <1>7 DEF d

-----------------------------------------------------------------------------
(* Preparing *)

(* Induction up to m.                                                      *)
LEMMA UpTo ==
  ASSUME NEW m \in Nat, NEW S, 0 \in S, \A k \in 0 .. m - 1 : k \in S => k + 1 \in S
  PROVE  0 .. m \subseteq S
<1> DEFINE T == {k \in 0 .. m : k \notin S}
<1> SUFFICES ASSUME T # {} PROVE FALSE
  OBVIOUS
<1>1. T \in SUBSET Nat
  OBVIOUS
<1>2. PICK k \in T : \A j \in T : k <= j
  BY <1>1, Least
<1>3. k # 0 /\ k - 1 \in 0 .. m - 1 /\ k - 1 \in 0 .. m /\ k - 1 + 1 = k
  OBVIOUS
<1>4. k - 1 \in S
  BY <1>2, <1>3
<1> QED
  BY <1>3, <1>4

(* The recursive functions of prepare exist.                               *)
Step(back, r, u, k) == IF back THEN PutBack(r, u[Len(u) - k + 1]) ELSE Place(r, u[k])
Steps(back, r, u, f, m) ==
  f = [k \in 0 .. m |-> IF k = 0 THEN r ELSE Step(back, f[k - 1], u, k)]

LEMMA StepsExist ==
  ASSUME NEW back, NEW r, NEW u, NEW m \in Nat
  PROVE  \E f : Steps(back, r, u, f, m)
<1> DEFINE S == {k \in 0 .. m : \E f : Steps(back, r, u, f, k)}
<1>1. 0 \in S
  <2> DEFINE f == [k \in 0 .. 0 |-> r]
  <2>1. \A k \in 0 .. 0 : f[k] = IF k = 0 THEN r ELSE Step(back, f[k - 1], u, k)
    OBVIOUS
  <2>2. f = [k \in 0 .. 0 |-> f[k]]
    OBVIOUS
  <2> HIDE DEF f
  <2>3. f = [k \in 0 .. 0 |-> IF k = 0 THEN r ELSE Step(back, f[k - 1], u, k)]
    BY <2>1, <2>2
  <2> QED
    BY <2>3 DEF Steps
<1>2. \A j \in 0 .. m - 1 : j \in S => j + 1 \in S
  <2> TAKE j \in 0 .. m - 1
  <2> HAVE j \in S
  <2>1. PICK g : Steps(back, r, u, g, j)
    OBVIOUS
  <2> DEFINE f == [k \in 0 .. j + 1 |-> IF k = j + 1 THEN Step(back, g[j], u, k) ELSE g[k]]
  <2>2. \A k \in 0 .. j : g[k] = IF k = 0 THEN r ELSE Step(back, g[k - 1], u, k)
    BY <2>1 DEF Steps
  <2>3. \A k \in 0 .. j + 1 : f[k] = IF k = 0 THEN r ELSE Step(back, f[k - 1], u, k)
    <3> TAKE k \in 0 .. j + 1
    <3>1. CASE k = j + 1
      <4>1. k # 0 /\ k - 1 = j /\ j \in 0 .. j + 1 /\ j # j + 1
        BY <3>1
      <4> QED
        BY <3>1, <4>1
    <3>2. CASE k # j + 1
      <4>1. k \in 0 .. j /\ (k # 0 => k - 1 \in 0 .. j + 1 /\ k - 1 # j + 1)
        BY <3>2
      <4> QED
        BY <2>2, <3>2, <4>1
    <3> QED
      BY <3>1, <3>2
  <2>4. f = [k \in 0 .. j + 1 |-> f[k]]
    OBVIOUS
  <2> HIDE DEF f
  <2>5. f = [k \in 0 .. j + 1 |-> IF k = 0 THEN r ELSE Step(back, f[k - 1], u, k)]
    BY <2>3, <2>4
  <2>6. Steps(back, r, u, f, j + 1)
    BY <2>5 DEF Steps
  <2> QED
    BY <2>6
<1> HIDE DEF S
<1>3. m \in S
  <2>1. 0 .. m \subseteq S
    BY <1>1, <1>2, UpTo
  <2> QED
    BY <2>1
<1> QED
  BY <1>3 DEF S

Start(c) == [cache |-> c, found |-> TRUE, slots |-> <<>>, saved |-> <<>>]

LEMMA PrepareIs ==
  ASSUME NEW c, NEW u, Len(u) \in Nat
  PROVE  \E h : Steps(FALSE, Start(c), u, h, Len(u)) /\ Prepare(c, u) = TakeBack(h[Len(u)])
<1> DEFINE Is(h) == h = [k \in 0 .. Len(u) |-> IF k = 0 THEN Start(c) ELSE Place(h[k - 1], u[k])]
<1>1. \A h : Is(h) <=> Steps(FALSE, Start(c), u, h, Len(u))
  BY DEF Steps, Step
<1>2. \E h : Is(h)
  <2>1. \E h : Steps(FALSE, Start(c), u, h, Len(u))
    BY StepsExist
  <2> QED
    BY <1>1, <2>1
<1> DEFINE h == CHOOSE f : Is(f)
<1>3. Is(h)
  BY <1>2
<1>4. Prepare(c, u) = TakeBack(h[Len(u)])
  BY DEF Prepare, Start
<1> HIDE DEF h, Is
<1> QED
  BY <1>1, <1>3, <1>4

LEMMA TakeBackIs ==
  ASSUME NEW r, Len(r.saved) \in Nat
  PROVE  \E g : /\ Steps(TRUE, r.cache, r.saved, g, Len(r.saved))
                /\ TakeBack(r) = [r EXCEPT !.cache = g[Len(r.saved)]]
<1> DEFINE Is(g) == g = [k \in 0 .. Len(r.saved) |->
                           IF k = 0 THEN r.cache
                           ELSE PutBack(g[k - 1], r.saved[Len(r.saved) - k + 1])]
<1>1. \A g : Is(g) <=> Steps(TRUE, r.cache, r.saved, g, Len(r.saved))
  BY DEF Steps, Step
<1>2. \E g : Is(g)
  <2>1. \E g : Steps(TRUE, r.cache, r.saved, g, Len(r.saved))
    BY StepsExist
  <2> QED
    BY <1>1, <2>1
<1> DEFINE g == CHOOSE f : Is(f)
<1>3. Is(g)
  BY <1>2
<1>4. TakeBack(r) = [r EXCEPT !.cache = g[Len(r.saved)]]
  BY DEF TakeBack
<1> HIDE DEF g, Is
<1> QED
  BY <1>1, <1>3, <1>4

(* What placing the first k ubatches comes to: the first q were placed,    *)
(* one after the other, and either these are all or there is no slot for   *)
(* the next.                                                               *)
Continues(u) ==
  /\ Len(u) \in Nat
  /\ \A k \in 1 .. Len(u) : /\ u[k].seq \in Seqs /\ u[k].n \in Nat \ {0} /\ u[k].pos \in Nat
                            /\ u[k].pos + u[k].n - 1 <= MaxPos

Caches(z, b) ==
  {c \in [cells : [0 .. z - 1 -> [pos : -1 .. MaxPos, seqs : SUBSET Seqs]],
          head : 0 .. z, swa : {b}] : CacheOK(c, z, b)}
AnySlot(z)  == Seq(0 .. z - 1)
Saves(z, b) == {Save(c, slot) : c \in Caches(z, b), slot \in AnySlot(z)}

PlacedOne(before, after, ubatch, slot, saved) ==
  /\ slot = FindSlot(before, ubatch.n) /\ slot # <<>>
  /\ after = ApplyUbatch(before, slot, ubatch.seq, ubatch.pos)
  /\ saved = Save(before, slot)

Placed(z, b, u, h, k) ==
  /\ h[k].found \in BOOLEAN
  /\ CacheOK(h[k].cache, z, b)
  /\ h[k].slots \in Seq(AnySlot(z)) /\ h[k].saved \in Seq(Saves(z, b))
  /\ h[k] = [cache |-> h[k].cache, found |-> h[k].found, slots |-> h[k].slots, saved |-> h[k].saved]
  /\ Len(h[k].slots) \in 0 .. k /\ Len(h[k].saved) = Len(h[k].slots)
  /\ h[k].found <=> Len(h[k].slots) = k
  /\ h[k].cache = h[Len(h[k].slots)].cache
  /\ \A j \in 1 .. Len(h[k].slots) :
       PlacedOne(h[j - 1].cache, h[j].cache, u[j], h[k].slots[j], h[k].saved[j])

LEMMA CacheIn ==
  ASSUME NEW z, NEW b, NEW c, CacheOK(c, z, b)
  PROVE  c \in Caches(z, b)
BY DEF CacheOK, Caches

LEMMA SlotFound ==
  ASSUME NEW z \in Nat, NEW b, NEW c, CacheOK(c, z, b), NEW n \in Nat \ {0},
         FindSlot(c, n) # <<>>
  PROVE  /\ IsSlot(FindSlot(c, n), Cells(c), n)
         /\ \A i \in Range(FindSlot(c, n)) : i \in Cells(c) /\ CanUse(c, i)
         /\ FindSlot(c, n) \in AnySlot(z)
<1> DEFINE slot == FindSlot(c, n)
           F == {i \in Cells(c) : CanUse(c, i)}
<1>1. IsSlot(slot, F, n)
  BY FoundSlot
<1>2. F \subseteq Cells(c) /\ Cells(c) = 0 .. z - 1
  BY CacheIs
<1> HIDE DEF slot, F
<1>3. IsSlot(slot, Cells(c), n)
  BY <1>1, <1>2 DEF IsSlot
<1>4. Range(slot) \subseteq F /\ slot \in Seq(F)
  BY <1>1, SlotIs
<1>5. slot \in Seq(0 .. z - 1)
  BY <1>2, <1>4
<1> QED
  BY <1>3, <1>4, <1>5 DEF slot, F, AnySlot

LEMMA PlacedFirst ==
  ASSUME NEW z \in Nat, NEW b, NEW c, CacheOK(c, z, b), NEW u, NEW h, h[0] = Start(c)
  PROVE  Placed(z, b, u, h, 0)
BY DEF Placed, Start

LEMMA PlacedNext ==
  ASSUME NEW z \in Nat, NEW b, NEW u, Continues(u), NEW h, NEW k \in 0 .. Len(u) - 1,
         Placed(z, b, u, h, k), h[k + 1] = Place(h[k], u[k + 1])
  PROVE  Placed(z, b, u, h, k + 1)
<1> DEFINE r == h[k]
           v == u[k + 1]
           slot == FindSlot(r.cache, v.n)
           q == Len(r.slots)
<1>1. /\ v.seq \in Seqs /\ v.n \in Nat \ {0} /\ v.pos \in Nat /\ v.pos + v.n - 1 <= MaxPos
      /\ k + 1 \in 1 .. Len(u) /\ k \in Nat
  BY DEF Continues
<1>2. /\ r.found \in BOOLEAN /\ CacheOK(r.cache, z, b)
      /\ r.slots \in Seq(AnySlot(z)) /\ r.saved \in Seq(Saves(z, b))
      /\ r = [cache |-> r.cache, found |-> r.found, slots |-> r.slots, saved |-> r.saved]
      /\ q \in 0 .. k /\ Len(r.saved) = q
      /\ r.found <=> q = k
      /\ r.cache = h[q].cache
      /\ \A j \in 1 .. q : PlacedOne(h[j - 1].cache, h[j].cache, u[j], r.slots[j], r.saved[j])
  BY DEF Placed
<1>3. h[k + 1] = IF ~r.found \/ slot = <<>> THEN [r EXCEPT !.found = FALSE]
                 ELSE [r EXCEPT !.cache = ApplyUbatch(@, slot, v.seq, v.pos),
                                !.slots = Append(@, slot),
                                !.saved = Append(@, Save(r.cache, slot))]
  BY DEF Place
<1> DEFINE t == h[k + 1]
<1> HIDE DEF r, v, slot, q, t
<1>4. CASE ~r.found \/ slot = <<>>
  <2>1. t = [cache |-> r.cache, found |-> FALSE, slots |-> r.slots, saved |-> r.saved]
    BY <1>2, <1>3, <1>4 DEF t
  <2>2. q # k + 1 /\ q \in 0 .. k + 1
    BY <1>1, <1>2
  <2>3. Len(t.slots) = q
    BY <2>1 DEF q
  <2> QED
    BY <1>2, <2>1, <2>2, <2>3 DEF Placed, t
<1>5. CASE r.found /\ slot # <<>>
  <2> DEFINE d == ApplyUbatch(r.cache, slot, v.seq, v.pos)
             sv == Save(r.cache, slot)
  <2>1. t = [cache |-> d, found |-> TRUE, slots |-> Append(r.slots, slot), saved |-> Append(r.saved, sv)]
    BY <1>2, <1>3, <1>5 DEF t
  <2>2. IsSlot(slot, Cells(r.cache), v.n) /\ slot \in AnySlot(z)
    BY <1>1, <1>2, <1>5, SlotFound DEF slot
  <2>3. CacheOK(d, z, b)
    <3>1. Applying(r.cache, slot, v.n, v.seq, v.pos)
      BY <1>1, <2>2 DEF Applying
    <3> QED
      BY <1>2, <3>1, Applied
  <2>4. sv \in Saves(z, b)
    BY <1>2, <2>2, CacheIn DEF Saves
  <2>5. q = k /\ r.cache = h[k].cache /\ t.cache = h[k + 1].cache
    BY <1>2, <1>5 DEF t, r
  <2>6. PlacedOne(r.cache, d, v, slot, sv)
    BY <1>5 DEF PlacedOne, slot
  <2> HIDE DEF d, sv
  <2>7. /\ Append(r.slots, slot) \in Seq(AnySlot(z)) /\ Len(Append(r.slots, slot)) = k + 1
        /\ Append(r.slots, slot)[k + 1] = slot
        /\ \A j \in 1 .. k : Append(r.slots, slot)[j] = r.slots[j]
    BY <1>2, <2>2, <2>5 DEF q
  <2>8. /\ Append(r.saved, sv) \in Seq(Saves(z, b)) /\ Len(Append(r.saved, sv)) = k + 1
        /\ Append(r.saved, sv)[k + 1] = sv
        /\ \A j \in 1 .. k : Append(r.saved, sv)[j] = r.saved[j]
    BY <1>2, <2>4, <2>5
  <2>9. \A j \in 1 .. k + 1 : PlacedOne(h[j - 1].cache, h[j].cache, u[j], t.slots[j], t.saved[j])
    <3> TAKE j \in 1 .. k + 1
    <3>1. CASE j = k + 1
      <4>1. j - 1 = k
        BY <1>1, <3>1
      <4>2. h[j - 1].cache = r.cache /\ h[j].cache = d /\ u[j] = v /\ t.slots[j] = slot /\ t.saved[j] = sv
        BY <2>1, <2>5, <2>7, <2>8, <3>1, <4>1 DEF t, v
      <4> QED
        BY <2>6, <4>2
    <3>2. CASE j # k + 1
      <4>1. j \in 1 .. k /\ j \in 1 .. q
        BY <1>1, <2>5, <3>2
      <4>2. t.slots[j] = r.slots[j] /\ t.saved[j] = r.saved[j]
        BY <2>1, <2>7, <2>8, <4>1
      <4> QED
        BY <1>2, <4>1, <4>2
    <3> QED
      BY <3>1, <3>2
  <2>10. Len(t.slots) = k + 1 /\ Len(t.saved) = k + 1 /\ k + 1 \in 0 .. k + 1
    BY <1>1, <2>1, <2>7, <2>8
  <2> QED
    BY <2>1, <2>3, <2>7, <2>8, <2>9, <2>10, SMTT(30) DEF Placed, t
<1> QED
  BY <1>2, <1>4, <1>5

LEMMA PlacedAll ==
  ASSUME NEW z \in Nat, NEW b, NEW c, CacheOK(c, z, b), NEW u, Continues(u),
         NEW h, Steps(FALSE, Start(c), u, h, Len(u))
  PROVE  h[0] = Start(c) /\ \A k \in 0 .. Len(u) : Placed(z, b, u, h, k)
<1> DEFINE m == Len(u)
           S == {k \in 0 .. m : Placed(z, b, u, h, k)}
<1>1. m \in Nat
  BY DEF Continues
<1>2. /\ h[0] = Start(c)
      /\ \A k \in 0 .. m - 1 : h[k + 1] = Place(h[k], u[k + 1])
  <2>1. \A k \in 0 .. m : h[k] = IF k = 0 THEN Start(c) ELSE Place(h[k - 1], u[k])
    BY DEF Steps, Step
  <2>2. \A k \in 0 .. m - 1 : k + 1 \in 0 .. m /\ k + 1 # 0 /\ k + 1 - 1 = k
    BY <1>1
  <2>3. 0 \in 0 .. m
    BY <1>1
  <2> HIDE DEF m
  <2> QED
    BY <2>1, <2>2, <2>3
<1>3. 0 \in S
  BY <1>1, <1>2, PlacedFirst
<1>4. \A k \in 0 .. m - 1 : k \in S => k + 1 \in S
  <2> TAKE k \in 0 .. m - 1
  <2> HAVE k \in S
  <2>1. Placed(z, b, u, h, k) /\ k \in 0 .. Len(u) - 1
    OBVIOUS
  <2>2. h[k + 1] = Place(h[k], u[k + 1])
    BY <1>2
  <2>3. Placed(z, b, u, h, k + 1)
    BY <2>1, <2>2, PlacedNext
  <2>4. k + 1 \in 0 .. m
    BY <1>1
  <2> QED
    BY <2>3, <2>4
<1> HIDE DEF S
<1>5. 0 .. m \subseteq S
  BY <1>1, <1>3, <1>4, UpTo
<1> QED
  BY <1>2, <1>5 DEF S

(* What is left of a cache: some cells have lost sequences.                *)
Part(d, o) ==
  \A i \in Cells(o) : /\ d.cells[i].seqs \subseteq o.cells[i].seqs
                      /\ d.cells[i].seqs # {} => d.cells[i].pos = o.cells[i].pos

(* A cache whose layers have no window only takes empty cells: nothing is  *)
(* lost, and what is taken back is what was there.                         *)
LEMMA NothingLost ==
  ASSUME NEW z \in Nat, NEW c, CacheOK(c, z, FALSE), NEW slot,
         \A i \in Range(slot) : i \in Cells(c) /\ CanUse(c, i), NEW t
  PROVE  Lost(c, slot, t) = -1 /\ \A i \in Range(slot) : c.cells[i].seqs = {}
<1>1. \A i \in Range(slot) : i \in Cells(c) /\ c.cells[i].pos = -1
  BY CacheIs DEF CanUse, Empty
<1>2. \A i \in Range(slot) : c.cells[i].seqs = {}
  BY <1>1, CacheIs
<1>3. Range(slot) \cap CellsOf(c, t) = {}
  BY <1>2 DEF CellsOf
<1> QED
  BY <1>2, <1>3, LostIs

Usable(c, u, slot) ==
  /\ IsSlot(slot, Cells(c), u.n) /\ u.n \in Nat \ {0}
  /\ \A i \in Range(slot) : i \in Cells(c) /\ CanUse(c, i)

LEMMA PartSame == ASSUME NEW c PROVE Part(c, c)
BY DEF Part

LEMMA PartTransitive ==
  ASSUME NEW c, NEW d, NEW e, Part(d, c), Part(e, d), Cells(d) = Cells(c)
  PROVE  Part(e, c)
BY DEF Part

(* One ubatch placed by prepare.                                           *)
PlacedIn(z, b, c, d, u, slot) ==
  /\ CacheOK(c, z, b) /\ CacheOK(d, z, b)
  /\ Usable(c, u, slot) /\ slot \in AnySlot(z)
  /\ d = ApplyUbatch(c, slot, u.seq, u.pos)

LEMMA UsableFound ==
  ASSUME NEW z \in Nat, NEW b, NEW c, CacheOK(c, z, b), NEW d, CacheOK(d, z, b), NEW u, u.n \in Nat \ {0},
         NEW slot, NEW saved, PlacedOne(c, d, u, slot, saved)
  PROVE  PlacedIn(z, b, c, d, u, slot) /\ saved = Save(c, slot)
<1>1. slot = FindSlot(c, u.n) /\ slot # <<>>
  BY DEF PlacedOne
<1>2. /\ IsSlot(slot, Cells(c), u.n)
      /\ \A i \in Range(slot) : i \in Cells(c) /\ CanUse(c, i)
      /\ slot \in AnySlot(z)
  BY <1>1, SlotFound
<1> QED
  BY <1>2 DEF PlacedOne, PlacedIn, Usable

(* Undoing, one ubatch after the other, the last one first.                *)
Undone(z, b, d, o) ==
  /\ CacheOK(d, z, b) /\ d.head = o.head /\ Part(d, o)
  /\ b = FALSE => d = o

LEMMA OneUndone ==
  ASSUME NEW z \in Nat, NEW b, NEW o, NEW a, NEW u, NEW slot,
         u.seq \in Seqs, u.pos \in Nat, u.pos + u.n - 1 <= MaxPos,
         PlacedIn(z, b, o, a, u, slot), NEW d, Undone(z, b, d, a)
  PROVE  Undone(z, b, PutBack(d, Save(o, slot)), o)
<1> DEFINE e == PutBack(d, Save(o, slot))
           L(i) == {t \in o.cells[i].seqs : o.cells[i].pos > Lost(o, slot, t)}
<1>0. /\ CacheOK(o, z, b) /\ CacheOK(d, z, b) /\ Usable(o, u, slot)
      /\ a = ApplyUbatch(o, slot, u.seq, u.pos) /\ Part(d, a) /\ (b = FALSE => d = a)
  BY DEF PlacedIn, Undone
<1>1. u.n \in Nat \ {0} /\ IsSlot(slot, Cells(o), u.n)
  BY <1>0 DEF Usable
<1>2. Applying(o, slot, u.n, u.seq, u.pos)
  BY <1>1 DEF Applying
<1>3. /\ CacheOK(a, z, b)
      /\ \A i \in Cells(o) \ Range(slot) : Holds(a, i, o.cells[i].pos, L(i))
  BY <1>0, <1>2, Applied
<1>4. /\ CacheOK(e, z, b) /\ e.head = o.head
      /\ \A i \in Cells(o) : e.cells[i] = IF i \in Range(slot) THEN o.cells[i] ELSE d.cells[i]
  BY <1>0, <1>1, PutBackIs
<1>5. Cells(o) = 0 .. z - 1 /\ Cells(a) = 0 .. z - 1
  BY <1>0, <1>3, CacheIs
<1>6. Part(d, a)
  BY <1>0
<1> HIDE DEF e
<1>7. Part(e, o)
  <2>1. SUFFICES ASSUME NEW i \in Cells(o)
                 PROVE  /\ e.cells[i].seqs \subseteq o.cells[i].seqs
                        /\ e.cells[i].seqs # {} => e.cells[i].pos = o.cells[i].pos
    BY DEF Part
  <2>2. CASE i \in Range(slot)
    BY <1>4, <2>2
  <2>3. CASE i \notin Range(slot)
    <3>1. e.cells[i] = d.cells[i]
      BY <1>4, <2>3
    <3>2. Holds(a, i, o.cells[i].pos, L(i))
      BY <1>3, <2>3
    <3>3. /\ d.cells[i].seqs \subseteq a.cells[i].seqs
          /\ d.cells[i].seqs # {} => d.cells[i].pos = a.cells[i].pos
      BY <1>5, <1>6 DEF Part
    <3> QED
      BY <3>1, <3>2, <3>3 DEF Holds
  <2> QED
    BY <2>2, <2>3
<1>8. ASSUME b = FALSE PROVE e = o
  <2>1. CacheOK(o, z, FALSE) /\ \A i \in Range(slot) : i \in Cells(o) /\ CanUse(o, i)
    BY <1>0, <1>8 DEF Usable
  <2>2. \A t : Lost(o, slot, t) = -1
    BY <2>1, NothingLost
  <2>3. \A i \in 0 .. z - 1 : Holds(e, i, o.cells[i].pos, o.cells[i].seqs)
    <3> TAKE i \in 0 .. z - 1
    <3>1. CASE i \in Range(slot)
      BY <1>4, <1>5, <3>1 DEF Holds
    <3>2. CASE i \notin Range(slot)
      <4>1. e.cells[i] = a.cells[i] /\ Holds(a, i, o.cells[i].pos, L(i))
        BY <1>0, <1>3, <1>4, <1>5, <1>8, <3>2
      <4>2. /\ o.cells[i].pos \in -1 .. MaxPos
            /\ o.cells[i].pos = -1 <=> o.cells[i].seqs = {}
        BY <1>0, CellIs
      <4>3. L(i) = o.cells[i].seqs
        BY <2>2, <4>2, Sizes
      <4> QED
        BY <4>1, <4>3 DEF Holds
    <3> QED
      BY <3>1, <3>2
  <2>4. o.head = e.head
    BY <1>4
  <2> QED
    BY <1>0, <1>4, <2>3, <2>4, CachesEqual
<1> QED
  BY <1>4, <1>7, <1>8 DEF e, Undone

(* What prepare returns: a cache from which the ubatches can be placed,    *)
(* and what is left of it after they were taken back.                      *)
Prepared(z, b, c, u, p) ==
  /\ Undone(z, b, p.cache, c)
  /\ p.found \in BOOLEAN
  /\ p.found =>
       /\ Len(p.slots) = Len(u) /\ p.slots \in Seq(AnySlot(z))
       /\ \E cs : /\ cs[0] = c
                  /\ \A j \in 1 .. Len(u) : PlacedIn(z, b, cs[j - 1], cs[j], u[j], p.slots[j])
  /\ Len(u) = 1 =>
       IF p.found THEN p.cache = PutBack(ApplyUbatch(c, p.slots[1], u[1].seq, u[1].pos), Save(c, p.slots[1]))
       ELSE p.cache = c

LEMMA PrepareDoes ==
  ASSUME NEW z \in Nat, NEW b, NEW c, CacheOK(c, z, b), NEW u, Continues(u)
  PROVE  Prepared(z, b, c, u, Prepare(c, u))
<1> DEFINE m == Len(u)
<1>1. m \in Nat
  BY DEF Continues
<1>2. PICK h : Steps(FALSE, Start(c), u, h, m) /\ Prepare(c, u) = TakeBack(h[m])
  BY <1>1, PrepareIs
<1>3. h[0] = Start(c) /\ \A k \in 0 .. m : Placed(z, b, u, h, k)
  BY <1>2, PlacedAll
<1> DEFINE r == h[m]
           q == Len(r.slots)
<1>4. /\ r.found \in BOOLEAN
      /\ r.slots \in Seq(AnySlot(z))
      /\ r = [cache |-> r.cache, found |-> r.found, slots |-> r.slots, saved |-> r.saved]
      /\ q \in 0 .. m /\ Len(r.saved) = q
      /\ r.found <=> q = m
      /\ r.cache = h[q].cache
      /\ \A j \in 1 .. q : PlacedOne(h[j - 1].cache, h[j].cache, u[j], r.slots[j], r.saved[j])
  <2>1. m \in 0 .. m
    BY <1>1
  <2>2. Placed(z, b, u, h, m)
    BY <1>3, <2>1
  <2> QED
    BY <2>2 DEF Placed
<1>5. \A k \in 0 .. q : CacheOK(h[k].cache, z, b)
  <2> TAKE k \in 0 .. q
  <2>1. k \in 0 .. m
    BY <1>1, <1>4
  <2>2. Placed(z, b, u, h, k)
    BY <1>3, <2>1
  <2> QED
    BY <2>2 DEF Placed
<1> HIDE DEF r, q, m
<1>6. \A j \in 1 .. q :
        /\ u[j].seq \in Seqs /\ u[j].n \in Nat \ {0} /\ u[j].pos \in Nat /\ u[j].pos + u[j].n - 1 <= MaxPos
        /\ j \in 0 .. q /\ j - 1 \in 0 .. q /\ j \in 1 .. m
  BY <1>1, <1>4 DEF Continues, m
<1>7. \A j \in 1 .. q :
        /\ PlacedIn(z, b, h[j - 1].cache, h[j].cache, u[j], r.slots[j])
        /\ r.saved[j] = Save(h[j - 1].cache, r.slots[j])
  BY <1>4, <1>5, <1>6, UsableFound
<1>8. PICK g : Steps(TRUE, r.cache, r.saved, g, q) /\ TakeBack(r) = [r EXCEPT !.cache = g[q]]
  <2>1. Len(r.saved) \in Nat
    BY <1>1, <1>4
  <2>2. \E g : /\ Steps(TRUE, r.cache, r.saved, g, Len(r.saved))
               /\ TakeBack(r) = [r EXCEPT !.cache = g[Len(r.saved)]]
    BY <2>1, TakeBackIs
  <2>3. Len(r.saved) = q
    BY <1>4
  <2> HIDE DEF q
  <2> QED
    BY <2>2, <2>3
<1>9. /\ g[0] = r.cache
      /\ \A k \in 0 .. q - 1 : g[k + 1] = PutBack(g[k], r.saved[q - k])
  <2>1. \A k \in 0 .. q : g[k] = IF k = 0 THEN r.cache ELSE PutBack(g[k - 1], r.saved[q - k + 1])
    BY <1>4, <1>8 DEF Steps, Step
  <2>2. \A k \in 0 .. q - 1 : k + 1 \in 0 .. q /\ k + 1 # 0 /\ k + 1 - 1 = k /\ q - (k + 1) + 1 = q - k
    BY <1>1, <1>4
  <2>3. 0 \in 0 .. q
    BY <1>1, <1>4
  <2> QED
    BY <2>1, <2>2, <2>3
<1> DEFINE S == {k \in 0 .. q : Undone(z, b, g[k], h[q - k].cache)}
<1>10. 0 \in S
  <2>1. 0 \in 0 .. q /\ q - 0 = q /\ q \in 0 .. q
    BY <1>1, <1>4
  <2>2. Undone(z, b, r.cache, r.cache)
    BY <1>4, <1>5, <2>1, PartSame DEF Undone
  <2> QED
    BY <1>4, <1>9, <2>1, <2>2
<1>11. \A k \in 0 .. q - 1 : k \in S => k + 1 \in S
  <2> TAKE k \in 0 .. q - 1
  <2> HAVE k \in S
  <2> DEFINE j == q - k
             e == h[j - 1].cache
             a == h[j].cache
             slot == r.slots[j]
             v == u[j]
             d == g[k]
  <2>1. j \in 1 .. q /\ q - (k + 1) = j - 1 /\ k + 1 \in 0 .. q
    BY <1>1, <1>4
  <2>2. Undone(z, b, d, a)
    OBVIOUS
  <2>3. PlacedIn(z, b, e, a, v, slot) /\ r.saved[j] = Save(e, slot)
    BY <1>7, <2>1
  <2>4. v.seq \in Seqs /\ v.pos \in Nat /\ v.pos + v.n - 1 <= MaxPos
    BY <1>6, <2>1
  <2>5. g[k + 1] = PutBack(d, Save(e, slot))
    BY <1>9, <2>3
  <2> HIDE DEF e, a, slot, v, d
  <2>6. Undone(z, b, g[k + 1], e)
    BY <2>2, <2>3, <2>4, <2>5, OneUndone
  <2> QED
    BY <2>1, <2>6 DEF e
<1> HIDE DEF S
<1>12. 0 .. q \subseteq S
  BY <1>1, <1>4, <1>10, <1>11, UpTo
<1>13. Undone(z, b, g[q], c)
  <2>1. q \in 0 .. q /\ q - q = 0
    BY <1>1, <1>4
  <2> QED
    BY <1>3, <1>12, <2>1 DEF S, Start
<1> DEFINE p == Prepare(c, u)
<1>14. p = [cache |-> g[q], found |-> r.found, slots |-> r.slots, saved |-> r.saved]
  BY <1>2, <1>4, <1>8 DEF r
<1> HIDE DEF p
<1>15. p.found =>
         /\ Len(p.slots) = m /\ p.slots \in Seq(AnySlot(z))
         /\ \E cs : /\ cs[0] = c
                    /\ \A j \in 1 .. m : PlacedIn(z, b, cs[j - 1], cs[j], u[j], p.slots[j])
  <2> HAVE p.found
  <2>1. q = m
    BY <1>4, <1>14
  <2> DEFINE cs == [k \in 0 .. m |-> h[k].cache]
  <2>2. cs[0] = c
    BY <1>1, <1>3 DEF Start
  <2>3. \A j \in 1 .. m : cs[j - 1] = h[j - 1].cache /\ cs[j] = h[j].cache
    BY <1>1
  <2> HIDE DEF cs
  <2>4. \A j \in 1 .. m : PlacedIn(z, b, cs[j - 1], cs[j], u[j], p.slots[j])
    BY <1>7, <1>14, <2>1, <2>3
  <2> QED
    BY <1>4, <1>14, <2>1, <2>2, <2>4 DEF q
<1>16. m = 1 => IF p.found THEN p.cache = PutBack(ApplyUbatch(c, p.slots[1], u[1].seq, u[1].pos), Save(c, p.slots[1]))
                ELSE p.cache = c
  <2> HAVE m = 1
  <2>1. CASE p.found
    <3>1. q = 1
      BY <1>4, <1>14, <2>1
    <3>2. g[1] = PutBack(h[1].cache, r.saved[1])
      <4>1. 0 \in 0 .. q - 1 /\ q - 0 = 1 /\ 0 + 1 = 1
        BY <3>1
      <4> QED
        BY <1>4, <1>9, <3>1, <4>1
    <3>3. /\ PlacedIn(z, b, h[0].cache, h[1].cache, u[1], r.slots[1])
          /\ r.saved[1] = Save(h[0].cache, r.slots[1])
      <4>1. 1 \in 1 .. q /\ 1 - 1 = 0
        BY <3>1
      <4> QED
        BY <1>7, <4>1
    <3>4. h[0].cache = c
      BY <1>3 DEF Start
    <3> QED
      BY <1>14, <2>1, <3>1, <3>2, <3>3, <3>4 DEF PlacedIn
  <2>2. CASE ~p.found
    <3>1. q = 0
      BY <1>4, <1>14, <2>2
    <3> QED
      BY <1>3, <1>4, <1>9, <1>14, <2>2, <3>1 DEF Start
  <2> QED
    BY <2>1, <2>2
<1> QED
  BY <1>4, <1>13, <1>14, <1>15, <1>16 DEF Prepared, p, m

-----------------------------------------------------------------------------
(* A batch and its ubatches *)

LEMMA MinTwo ==
  ASSUME NEW x \in Int, NEW y \in Int
  PROVE  Min({x, y}) = IF x <= y THEN x ELSE y
<1> DEFINE S == {x, y}
<1>1. S \in SUBSET Int /\ S # {}
  OBVIOUS
<1>2. CASE x <= y
  <2>1. x \in Int /\ \A v \in S : x <= v
    BY <1>2
  <2> HIDE DEF S
  <2>2. Min(S) \in S /\ \A v \in S : Min(S) <= v
    BY <1>1, <2>1, MinOf
  <2> QED
    BY <1>2, <2>2 DEF S
<1>3. CASE y <= x
  <2>1. y \in Int /\ \A v \in S : y <= v
    BY <1>3
  <2> HIDE DEF S
  <2>2. Min(S) \in S /\ \A v \in S : Min(S) <= v
    BY <1>1, <2>1, MinOf
  <2> QED
    BY <1>3, <2>2 DEF S
<1> QED
  BY <1>2, <1>3

LEMMA Multiples ==
  ASSUME NEW n \in Nat \ {0}, NEW w \in Nat \ {0}
  PROVE  /\ (n + w - 1) \div w \in Nat \ {0}
         /\ ((n + w - 1) \div w) * w >= n
         /\ (((n + w - 1) \div w) - 1) * w < n
<1> DEFINE x == n + w - 1
           m == x \div w
<1>1. x \in Nat /\ x >= w
  OBVIOUS
<1>2. m \in Int /\ x = m * w + (x % w) /\ x % w \in 0 .. w - 1
  BY <1>1
<1> HIDE DEF m
<1>3. m * w \in Int /\ (m - 1) * w = m * w - w
  BY <1>2
<1>4. m * w >= n /\ m * w - w < n
  BY <1>1, <1>2, <1>3
<1>5. m > 0
  <2> SUFFICES ASSUME m <= 0 PROVE FALSE
    BY <1>2
  <2>1. m * w <= 0
    BY <1>2
  <2> QED
    BY <1>3, <1>4, <2>1
<1> QED
  BY <1>2, <1>3, <1>4, <1>5 DEF m

LEMMA Products ==
  ASSUME NEW j \in Nat, NEW k \in Nat, NEW w \in Nat \ {0}
  PROVE  /\ j * w \in Nat /\ (j + 1) * w = j * w + w
         /\ j <= k => j * w <= k * w
<1>1. j * w \in Nat /\ (j + 1) * w = j * w + w
  OBVIOUS
<1>2. ASSUME j <= k PROVE j * w <= k * w
  <2>1. k - j \in Nat
    BY <1>2
  <2>2. (k - j) * w \in Nat
    BY <2>1
  <2>3. (k - j) * w = k * w - j * w
    OBVIOUS
  <2> QED
    BY <1>1, <2>2, <2>3
<1> QED
  BY <1>1, <1>2

(* The ubatches are of one sequence, one after the other.                  *)
Consecutive(u, s, first, end) ==
  /\ Len(u) \in Nat \ {0}
  /\ u[1].pos = first /\ u[Len(u)].pos + u[Len(u)].n = end
  /\ \A k \in 1 .. Len(u) :
       /\ u[k].seq = s /\ u[k].n \in 1 .. UBatch /\ u[k].pos \in Nat
       /\ u[k].pos >= first /\ u[k].pos + u[k].n <= end
       /\ k < Len(u) => u[k + 1].pos = u[k].pos + u[k].n

LEMMA SplitIs ==
  ASSUME NEW s \in Seqs, NEW p \in Nat, NEW n \in Nat \ {0}
  PROVE  /\ Consecutive(Split(s, p, n), s, p, p + n)
         /\ DOMAIN Split(s, p, n) = 1 .. Len(Split(s, p, n))
         /\ n <= UBatch => Len(Split(s, p, n)) = 1
<1> DEFINE m == (n + UBatch - 1) \div UBatch
           D(k) == (k - 1) * UBatch
           N(k) == Min({UBatch, n - D(k)})
           u == Split(s, p, n)
<1>1. UBatch \in Nat \ {0}
  BY Sizes
<1>2. m \in Nat \ {0} /\ m * UBatch >= n /\ (m - 1) * UBatch < n
  BY <1>1, Multiples
<1>3. u = [k \in 1 .. m |-> [seq |-> s, pos |-> p + D(k), n |-> N(k)]]
  BY DEF Split
<1> HIDE DEF m, u
<1>4. Len(u) = m /\ DOMAIN u = 1 .. m
  BY <1>2, <1>3
<1>5. \A k \in 1 .. m : u[k].seq = s /\ u[k].pos = p + D(k) /\ u[k].n = N(k)
  BY <1>3
<1>6. \A k \in 1 .. m : D(k) \in Nat /\ D(k) < n /\ D(k + 1) = D(k) + UBatch /\ (k < m => D(k + 1) < n)
  <2> TAKE k \in 1 .. m
  <2>1. k - 1 \in Nat /\ k \in Nat /\ m - 1 \in Nat /\ k - 1 <= m - 1 /\ (k < m => k <= m - 1) /\ (k - 1) + 1 = k
    BY <1>2
  <2>2. (k - 1) * UBatch \in Nat /\ ((k - 1) + 1) * UBatch = (k - 1) * UBatch + UBatch
    BY <1>1, <2>1, Products
  <2>3. (k - 1) * UBatch <= (m - 1) * UBatch
    BY <1>1, <2>1, Products
  <2>4. k < m => k * UBatch <= (m - 1) * UBatch
    BY <1>1, <2>1, Products
  <2>5. (m - 1) * UBatch \in Nat /\ k * UBatch \in Nat
    BY <1>1, <2>1, Products
  <2>6. D(k) = (k - 1) * UBatch /\ D(k + 1) = k * UBatch
    BY <2>1
  <2> QED
    BY <1>1, <1>2, <2>1, <2>2, <2>3, <2>4, <2>5, <2>6
<1>7. D(1) = 0 /\ D(m) = (m - 1) * UBatch /\ D(m + 1) = m * UBatch
  BY <1>1, <1>2
<1> HIDE DEF D
<1>8. \A k \in 1 .. m : N(k) = IF UBatch <= n - D(k) THEN UBatch ELSE n - D(k)
  <2> TAKE k \in 1 .. m
  <2> DEFINE y == n - D(k)
  <2>1. y \in Int
    BY <1>6
  <2> HIDE DEF y
  <2>2. Min({UBatch, y}) = IF UBatch <= y THEN UBatch ELSE y
    BY <1>1, <2>1, MinTwo
  <2> QED
    BY <2>2 DEF y
<1> HIDE DEF N
<1>9. \A k \in 1 .. m :
        /\ N(k) \in 1 .. UBatch /\ p + D(k) \in Nat /\ p + D(k) >= p /\ p + D(k) + N(k) <= p + n
        /\ k < m => N(k) = UBatch
  BY <1>1, <1>6, <1>8
<1>10. 1 \in 1 .. m /\ m \in 1 .. m /\ \A k \in 1 .. m : k < m => k + 1 \in 1 .. m
  BY <1>2
<1>11. N(m) = n - D(m)
  <2>1. n - D(m) <= UBatch
    BY <1>1, <1>2, <1>6, <1>7, <1>10
  <2> QED
    BY <1>1, <1>6, <1>8, <1>10, <2>1
<1>12. u[1].pos = p /\ u[m].pos + u[m].n = p + n
  <2>1. u[1].pos = p + D(1) /\ u[m].pos = p + D(m) /\ u[m].n = N(m)
    BY <1>5, <1>10
  <2>2. D(1) = 0
    BY <1>7
  <2>3. D(m) \in Nat
    BY <1>6, <1>10
  <2> QED
    BY <1>11, <2>1, <2>2, <2>3
<1>13. \A k \in 1 .. m :
         /\ u[k].seq = s /\ u[k].n \in 1 .. UBatch /\ u[k].pos \in Nat
         /\ u[k].pos >= p /\ u[k].pos + u[k].n <= p + n
         /\ k < m => u[k + 1].pos = u[k].pos + u[k].n
  BY <1>1, <1>5, <1>6, <1>9, <1>10
<1>14. n <= UBatch => m = 1
  <2> SUFFICES ASSUME n <= UBatch, m # 1 PROVE FALSE
    OBVIOUS
  <2>1. 1 \in Nat /\ m - 1 \in Nat /\ 1 <= m - 1
    BY <1>2
  <2>2. 1 * UBatch <= (m - 1) * UBatch
    BY <1>1, <2>1, Products
  <2>3. 1 * UBatch = UBatch /\ (m - 1) * UBatch \in Nat
    BY <1>1, <2>1, Products
  <2> QED
    BY <1>1, <1>2, <2>2, <2>3
<1> QED
  BY <1>2, <1>4, <1>12, <1>13, <1>14 DEF Consecutive, u

LEMMA SwaSizeIs == SwaSize \in Nat \ {0} /\ BaseSize \in Nat \ {0}
<1>1. Cardinality(Seqs) \in Nat
  BY CacheAssumption, FS_CardinalityType
<1>2. Window \in Nat \ {0} /\ UBatch \in Nat \ {0} /\ BaseSize \in Nat \ {0}
  BY Sizes
<1> DEFINE x == Cardinality(Seqs) * Window + UBatch
<1>3. x \in Nat \ {0}
  <2>1. Cardinality(Seqs) * Window \in Nat
    BY <1>1, <1>2, Products
  <2> QED
    BY <1>2, <2>1
<1> HIDE DEF x
<1>4. Min({BaseSize, x}) = IF BaseSize <= x THEN BaseSize ELSE x
  BY <1>2, <1>3, MinTwo
<1> QED
  BY <1>2, <1>3, <1>4 DEF SwaSize, x

IsBase(c) == CacheOK(c, BaseSize, FALSE)
IsSwa(c)  == CacheOK(c, SwaSize, TRUE)

LEMMA UndoneTransitive ==
  ASSUME NEW z, NEW b, NEW c, NEW d, NEW e, CacheOK(c, z, b), Undone(z, b, d, c), Undone(z, b, e, d)
  PROVE  Undone(z, b, e, c)
<1>1. Cells(c) = Cells(d)
  BY CacheIs DEF Undone
<1>2. Part(e, c)
  BY <1>1, PartTransitive DEF Undone
<1> QED
  BY <1>2 DEF Undone

LEMMA UndoneSame == ASSUME NEW z, NEW b, NEW c, CacheOK(c, z, b) PROVE Undone(z, b, c, c)
BY PartSame DEF Undone

(* Slots were found in both caches.                                        *)
Accepted(b, w, u, r) ==
  \E p, q :
    /\ Prepared(BaseSize, FALSE, b, u, p) /\ Prepared(SwaSize, TRUE, w, u, q)
    /\ p.found /\ q.found
    /\ r.base = p.cache /\ r.swa = q.cache /\ r.slots = <<p.slots, q.slots>>

Tried(b, w, u, r) ==
  /\ r.refused \in {"no", "base", "swa"}
  /\ r.base = b /\ Undone(SwaSize, TRUE, r.swa, w)
  /\ r.refused = "no" =>
       \E o : Undone(SwaSize, TRUE, o, w) /\ Accepted(b, o, u, r) /\ (Len(u) = 1 => o = w)
  /\ r.refused # "no" /\ Len(u) = 1 => r.swa = w

LEMMA TryIs ==
  ASSUME NEW b, NEW w, NEW u, IsBase(b), IsSwa(w), Continues(u)
  PROVE  Tried(b, w, u, Try(b, w, u)) /\ (Try(b, w, u).refused = "no" => Accepted(b, w, u, Try(b, w, u)))
<1> DEFINE p == Prepare(b, u)
           q == Prepare(w, u)
           t == Try(b, w, u)
<1>1. Prepared(BaseSize, FALSE, b, u, p) /\ Prepared(SwaSize, TRUE, w, u, q)
  <2>1. BaseSize \in Nat /\ SwaSize \in Nat
    BY SwaSizeIs
  <2> QED
    BY <2>1, PrepareDoes DEF IsBase, IsSwa
<1>2. t = IF p.found
          THEN [refused |-> IF q.found THEN "no" ELSE "swa", base |-> p.cache,
                swa |-> q.cache, slots |-> <<p.slots, q.slots>>]
          ELSE [refused |-> "base", base |-> p.cache, swa |-> w]
  BY DEF Try
<1> HIDE DEF p, q, t
<1>3. /\ p.cache = b /\ p.found \in BOOLEAN
      /\ Undone(SwaSize, TRUE, q.cache, w) /\ q.found \in BOOLEAN
      /\ Len(u) = 1 /\ ~q.found => q.cache = w
  BY <1>1 DEF Prepared, Undone
<1>4. Undone(SwaSize, TRUE, w, w)
  BY UndoneSame DEF IsSwa
<1>5. CASE p.found /\ q.found
  <2>1. /\ t.refused = "no" /\ t.base = p.cache /\ t.swa = q.cache
        /\ t.slots = <<p.slots, q.slots>>
    BY <1>2, <1>5
  <2>2. Accepted(b, w, u, t)
    BY <1>1, <1>5, <2>1 DEF Accepted
  <2> QED
    BY <1>3, <1>4, <2>1, <2>2 DEF Tried, t
<1>6. CASE p.found /\ ~q.found
  <2>1. t.refused = "swa" /\ t.base = p.cache /\ t.swa = q.cache
    BY <1>2, <1>6
  <2> QED
    BY <1>3, <1>6, <2>1 DEF Tried, t
<1>7. CASE ~p.found
  <2>1. t.refused = "base" /\ t.base = p.cache /\ t.swa = w
    BY <1>2, <1>7
  <2> QED
    BY <1>3, <1>4, <2>1 DEF Tried, t
<1> QED
  BY <1>3, <1>5, <1>6, <1>7

LEMMA InitBatchIs ==
  ASSUME NEW b, NEW w, NEW u, IsBase(b), IsSwa(w), Continues(u)
  PROVE  Tried(b, w, u, InitBatch(b, w, u))
<1> DEFINE first == Try(b, w, u)
           second == Try(first.base, first.swa, u)
           r == InitBatch(b, w, u)
<1>1. r = IF first.refused = "no" THEN first ELSE second
  BY DEF InitBatch
<1>2. Tried(b, w, u, first)
  BY TryIs
<1>3. CASE first.refused = "no"
  BY <1>1, <1>2, <1>3
<1>4. CASE first.refused # "no"
  <2>1. first.base = b /\ Undone(SwaSize, TRUE, first.swa, w) /\ (Len(u) = 1 => first.swa = w)
    BY <1>2, <1>4 DEF Tried
  <2> HIDE DEF first
  <2>2. IsSwa(first.swa)
    BY <2>1 DEF Undone, IsSwa
  <2>3. Tried(b, first.swa, u, second) /\ (second.refused = "no" => Accepted(b, first.swa, u, second))
    BY <2>1, <2>2, TryIs
  <2> HIDE DEF second, r
  <2>4. r = second
    BY <1>1, <1>4
  <2>5. Undone(SwaSize, TRUE, second.swa, w)
    BY <2>1, <2>3, UndoneTransitive DEF Tried, IsSwa
  <2>6. Tried(b, w, u, second)
    BY <2>1, <2>3, <2>5 DEF Tried
  <2> QED
    BY <2>4, <2>6 DEF r
<1> QED
  BY <1>3, <1>4

-----------------------------------------------------------------------------
(* Types, and what is torn *)

Ubatches ==
  [seq : Seqs, pos : Nat, n : Nat \ {0}, slots : AnySlot(BaseSize) \X AnySlot(SwaSize)]

TodoOK(todo) ==
  /\ todo \in Seq(Ubatches) /\ todo # <<>>
  /\ \A k \in 1 .. Len(todo) :
       /\ todo[k].seq = todo[1].seq /\ todo[k].pos + todo[k].n - 1 <= MaxPos
       /\ IsSlot(todo[k].slots[1], 0 .. BaseSize - 1, todo[k].n)
       /\ IsSlot(todo[k].slots[2], 0 .. SwaSize - 1, todo[k].n)
       /\ k < Len(todo) => todo[k + 1].pos = todo[k].pos + todo[k].n

CallOK ==
  /\ call = [pc |-> call.pc, todo |-> call.todo, refused |-> call.refused]
  /\ call.pc \in {"idle", "prepared", "place", "compute"}
  /\ call.pc # "idle" => TodoOK(call.todo)

(* Cells of which the keys and values are not computed yet are those of    *)
(* the ubatch that is being computed, and hold nothing else.               *)
Pending(T, c) ==
  \A i \in T : /\ c.cells[i].seqs \subseteq {Ubatch.seq}
               /\ c.cells[i].seqs # {} => c.cells[i].pos >= Ubatch.pos

NoneTorn == [base |-> {}, swa |-> {}]

TornOK ==
  IF call.pc = "compute"
  THEN /\ torn = [base |-> torn.base, swa |-> torn.swa]
       /\ torn.base \subseteq Range(Ubatch.slots[1]) /\ torn.swa \subseteq Range(Ubatch.slots[2])
       /\ Pending(torn.base, base) /\ Pending(torn.swa, swa)
  ELSE torn = NoneTorn

IInv == IsBase(base) /\ IsSwa(swa) /\ CallOK /\ TornOK

LEMMA NewCacheIs ==
  ASSUME NEW z \in Nat, NEW b
  PROVE  CacheOK(NewCache(z, b), z, b) /\ \A i \in 0 .. z - 1 : NewCache(z, b).cells[i].seqs = {}
BY Sizes DEF NewCache, NoCell, CacheOK, Cells, Empty

LEMMA NewCaches == IsBase(NewCache(BaseSize, FALSE)) /\ IsSwa(NewCache(SwaSize, TRUE))
<1>1. BaseSize \in Nat /\ SwaSize \in Nat
  BY SwaSizeIs
<1> QED
  BY <1>1, NewCacheIs DEF IsBase, IsSwa

LEMMA IdleIs == Idle.pc = "idle" /\ Idle = [pc |-> Idle.pc, todo |-> Idle.todo, refused |-> Idle.refused]
BY DEF Idle

LEMMA InitOK == Init => IInv
<1> SUFFICES ASSUME Init PROVE IInv
  OBVIOUS
<1>1. CallOK /\ call.pc = "idle"
  BY IdleIs DEF Init, CallOK
<1> QED
  BY <1>1, NewCaches DEF Init, IInv, TornOK, NoneTorn

LEMMA ClearOK == ASSUME Clear PROVE IInv'
<1>1. CallOK' /\ call'.pc = "idle"
  BY IdleIs DEF Clear, CallOK
<1>2. base' = NewCache(BaseSize, FALSE) /\ swa' = NewCache(SwaSize, TRUE)
  BY DEF Clear
<1>3. IsBase(base)' /\ IsSwa(swa)'
  BY <1>2, NewCaches
<1> QED
  BY <1>1, <1>3 DEF Clear, IInv, TornOK, NoneTorn

LEMMA EditsOK ==
  ASSUME IInv, NEW b, NEW w, IsBase(b), IsSwa(w), Edits(b, w)
  PROVE  IInv'
<1>1. torn = NoneTorn
  BY DEF Edits, IInv, TornOK
<1>2. torn' = NoneTorn
  BY <1>1 DEF Edits, StillTorn, NoneTorn
<1>3. CallOK' /\ call'.pc = "idle"
  BY IdleIs DEF Edits, CallOK
<1>4. base' = b /\ swa' = w
  BY DEF Edits
<1>5. IsBase(base)' /\ IsSwa(swa)'
  BY <1>4
<1> QED
  BY <1>2, <1>3, <1>5 DEF IInv, TornOK

LEMMA EditOK ==
  ASSUME IInv, NEW s \in Seqs,
         \/ \E p \in 0 .. MaxPos : CutSequence(s, p)
         \/ \E t \in Seqs \ {s} : ShareSequence(s, t)
         \/ KeepSequence(s)
  PROVE  IInv'
<1>1. BaseSize \in Nat /\ SwaSize \in Nat
  BY SwaSizeIs
<1>2. CacheOK(base, BaseSize, FALSE) /\ CacheOK(swa, SwaSize, TRUE)
  BY DEF IInv, IsBase, IsSwa
<1>3. ASSUME NEW p \in 0 .. MaxPos, CutSequence(s, p) PROVE IInv'
  <2>1. p \in Nat
    BY Sizes
  <2>2. IsBase(SeqRm(base, s, p)) /\ IsSwa(SeqRm(swa, s, p))
    BY <1>1, <1>2, <2>1, SeqRmIs DEF IsBase, IsSwa
  <2> QED
    BY <1>3, <2>2, EditsOK DEF CutSequence
<1>4. ASSUME NEW t \in Seqs \ {s}, ShareSequence(s, t) PROVE IInv'
  <2>1. IsBase(SeqCp(base, s, t)) /\ IsSwa(SeqCp(swa, s, t))
    BY <1>1, <1>2, SeqCpIs DEF IsBase, IsSwa
  <2> QED
    BY <1>4, <2>1, EditsOK DEF ShareSequence
<1>5. ASSUME KeepSequence(s) PROVE IInv'
  <2>1. IsBase(SeqKeep(base, s)) /\ IsSwa(SeqKeep(swa, s))
    BY <1>1, <1>2, SeqKeepIs DEF IsBase, IsSwa
  <2> QED
    BY <1>5, <2>1, EditsOK DEF KeepSequence
<1> QED
  BY <1>3, <1>4, <1>5

Filled(s, u, slots) ==
  [k \in 1 .. Len(u) |-> [seq |-> s, pos |-> u[k].pos, n |-> u[k].n,
                          slots |-> <<slots[1][k], slots[2][k]>>]]

(* What a call of decode does: it is refused, or prepared.                 *)
Decoded(s, n, u, r) ==
  /\ u = Split(s, SeqPosMax(swa, s) + 1, n)
  /\ Continues(u) /\ Consecutive(u, s, SeqPosMax(swa, s) + 1, SeqPosMax(swa, s) + 1 + n)
  /\ n <= UBatch => Len(u) = 1
  /\ Tried(base, swa, u, r)
  /\ base' = r.base /\ swa' = r.swa /\ torn' = torn
  /\ call' = IF r.refused = "no" THEN [pc |-> "prepared", todo |-> Filled(s, u, r.slots), refused |-> "no"]
             ELSE [pc |-> "idle", todo |-> <<>>, refused |-> r.refused]

LEMMA IdleWith ==
  ASSUME NEW x, NEW j
  PROVE  /\ j = [Idle EXCEPT !.refused = x] => j = [pc |-> "idle", todo |-> <<>>, refused |-> x]
         /\ j = [Idle EXCEPT !.pc = "prepared", !.todo = x] =>
              j = [pc |-> "prepared", todo |-> x, refused |-> "no"]
<1>1. /\ Idle = [pc |-> Idle.pc, todo |-> Idle.todo, refused |-> Idle.refused]
      /\ Idle.pc = "idle" /\ Idle.todo = <<>> /\ Idle.refused = "no"
  BY DEF Idle
<1>2. ASSUME j = [Idle EXCEPT !.refused = x]
      PROVE  j = [pc |-> "idle", todo |-> <<>>, refused |-> x]
  BY <1>1, <1>2
<1>3. ASSUME j = [Idle EXCEPT !.pc = "prepared", !.todo = x]
      PROVE  j = [pc |-> "prepared", todo |-> x, refused |-> "no"]
  BY <1>1, <1>3
<1> QED
  BY <1>2, <1>3

LEMMA DecodeDoes ==
  ASSUME IsBase(base), IsSwa(swa), NEW s \in Seqs, NEW n \in Submitted, Decode(s, n)
  PROVE  \E u, r : Decoded(s, n, u, r)
<1> DEFINE p == SeqPosMax(swa, s) + 1
           u == Split(s, p, n)
           r == InitBatch(base, swa, u)
<1>1. p \in Nat /\ n \in Nat \ {0} /\ p + n - 1 <= MaxPos
  <2>1. SeqPosMax(swa, s) \in -1 .. MaxPos
    BY LastPos DEF IsSwa
  <2>2. SeqPosMax(swa, s) + n <= MaxPos
    BY DEF Decode
  <2> QED
    BY <2>1, <2>2, Sizes
<1>2. Consecutive(u, s, p, p + n) /\ DOMAIN u = 1 .. Len(u) /\ (n <= UBatch => Len(u) = 1)
  BY <1>1, SplitIs
<1>3. /\ base' = r.base /\ swa' = r.swa /\ torn' = torn
      /\ call' = IF r.refused # "no" THEN [Idle EXCEPT !.refused = r.refused]
                 ELSE [Idle EXCEPT !.pc = "prepared", !.todo = [k \in DOMAIN u |->
                        [seq |-> s, pos |-> u[k].pos, n |-> u[k].n,
                         slots |-> <<r.slots[1][k], r.slots[2][k]>>]]]
  BY DEF Decode
<1> HIDE DEF p, u, r
<1>4. Continues(u)
  <2>1. Len(u) \in Nat
    BY <1>2 DEF Consecutive
  <2>2. \A k \in 1 .. Len(u) : /\ u[k].seq = s /\ u[k].n \in 1 .. UBatch /\ u[k].pos \in Nat
                                /\ u[k].pos + u[k].n <= p + n
    BY <1>2 DEF Consecutive
  <2> QED
    BY <1>1, <2>1, <2>2, Sizes, SMTT(30) DEF Continues
<1>5. Tried(base, swa, u, r)
  BY <1>4, InitBatchIs DEF r
<1>6. call' = IF r.refused = "no" THEN [pc |-> "prepared", todo |-> Filled(s, u, r.slots), refused |-> "no"]
              ELSE [pc |-> "idle", todo |-> <<>>, refused |-> r.refused]
  <2> DEFINE T == [k \in DOMAIN u |-> [seq |-> s, pos |-> u[k].pos, n |-> u[k].n,
                                       slots |-> <<r.slots[1][k], r.slots[2][k]>>]]
  <2>1. T = Filled(s, u, r.slots)
    BY <1>2 DEF Filled
  <2> HIDE DEF T
  <2>2. call' = IF r.refused # "no" THEN [Idle EXCEPT !.refused = r.refused]
                ELSE [Idle EXCEPT !.pc = "prepared", !.todo = T]
    BY <1>3 DEF T
  <2>3. CASE r.refused = "no"
    BY <2>1, <2>2, <2>3, IdleWith
  <2>4. CASE r.refused # "no"
    BY <2>2, <2>4, IdleWith
  <2> QED
    BY <2>3, <2>4
<1>7. Decoded(s, n, u, r)
  BY <1>2, <1>3, <1>4, <1>5, <1>6 DEF Decoded, u, p
<1> QED
  BY <1>7

LEMMA FilledOK ==
  ASSUME NEW s \in Seqs, NEW u, Continues(u), NEW first, NEW end, Consecutive(u, s, first, end),
         NEW b, NEW w, IsBase(b), IsSwa(w), NEW r, Accepted(b, w, u, r)
  PROVE  TodoOK(Filled(s, u, r.slots))
<1> DEFINE T == Filled(s, u, r.slots)
           m == Len(u)
<1>1. PICK p, q :
        /\ Prepared(BaseSize, FALSE, b, u, p) /\ Prepared(SwaSize, TRUE, w, u, q)
        /\ p.found /\ q.found /\ r.slots = <<p.slots, q.slots>>
  BY DEF Accepted
<1>2. /\ p.slots \in Seq(AnySlot(BaseSize)) /\ Len(p.slots) = m
      /\ \E cs : \A j \in 1 .. m : PlacedIn(BaseSize, FALSE, cs[j - 1], cs[j], u[j], p.slots[j])
  BY <1>1 DEF Prepared
<1>3. /\ q.slots \in Seq(AnySlot(SwaSize)) /\ Len(q.slots) = m
      /\ \E cs : \A j \in 1 .. m : PlacedIn(SwaSize, TRUE, cs[j - 1], cs[j], u[j], q.slots[j])
  BY <1>1 DEF Prepared
<1>4. \A k \in 1 .. m : IsSlot(p.slots[k], 0 .. BaseSize - 1, u[k].n)
  <2> TAKE k \in 1 .. m
  <2>1. PICK c, d : PlacedIn(BaseSize, FALSE, c, d, u[k], p.slots[k])
    BY <1>2
  <2>2. CacheOK(c, BaseSize, FALSE) /\ IsSlot(p.slots[k], Cells(c), u[k].n)
    BY <2>1 DEF PlacedIn, Usable
  <2>3. Cells(c) = 0 .. BaseSize - 1
    BY <2>2, CacheIs
  <2> QED
    BY <2>2, <2>3
<1>5. \A k \in 1 .. m : IsSlot(q.slots[k], 0 .. SwaSize - 1, u[k].n)
  <2> TAKE k \in 1 .. m
  <2>1. PICK c, d : PlacedIn(SwaSize, TRUE, c, d, u[k], q.slots[k])
    BY <1>3
  <2>2. CacheOK(c, SwaSize, TRUE) /\ IsSlot(q.slots[k], Cells(c), u[k].n)
    BY <2>1 DEF PlacedIn, Usable
  <2>3. Cells(c) = 0 .. SwaSize - 1
    BY <2>2, CacheIs
  <2> QED
    BY <2>2, <2>3
<1>6. m \in Nat \ {0} /\ \A k \in 1 .. m : /\ u[k].n \in Nat \ {0} /\ u[k].pos \in Nat
                                           /\ u[k].pos + u[k].n - 1 <= MaxPos
                                           /\ k < m => u[k + 1].pos = u[k].pos + u[k].n
  BY DEF Continues, Consecutive
<1>7. \A k \in 1 .. m : p.slots[k] \in AnySlot(BaseSize) /\ q.slots[k] \in AnySlot(SwaSize)
  BY <1>2, <1>3
<1>8. T = [k \in 1 .. m |-> [seq |-> s, pos |-> u[k].pos, n |-> u[k].n,
                             slots |-> <<p.slots[k], q.slots[k]>>]]
  BY <1>1 DEF Filled
<1> HIDE DEF T, m
<1>9. T \in Seq(Ubatches) /\ Len(T) = m /\ T # <<>>
  <2> DEFINE E(k) == [seq |-> s, pos |-> u[k].pos, n |-> u[k].n, slots |-> <<p.slots[k], q.slots[k]>>]
  <2>1. \A k \in 1 .. m : E(k) \in Ubatches
    BY <1>6, <1>7 DEF Ubatches
  <2>2. T = [k \in 1 .. m |-> E(k)]
    BY <1>8
  <2> HIDE DEF E
  <2>3. T \in [1 .. m -> Ubatches]
    BY <2>1, <2>2
  <2> QED
    BY <1>6, <2>3
<1>10. \A k \in 1 .. m : /\ T[k].seq = s /\ T[k].pos = u[k].pos /\ T[k].n = u[k].n
                         /\ T[k].slots[1] = p.slots[k] /\ T[k].slots[2] = q.slots[k]
  BY <1>8
<1>11. 1 \in 1 .. m /\ \A k \in 1 .. m : k < m => k + 1 \in 1 .. m
  BY <1>6
<1>12. \A k \in 1 .. Len(T) :
         /\ T[k].seq = T[1].seq /\ T[k].pos + T[k].n - 1 <= MaxPos
         /\ IsSlot(T[k].slots[1], 0 .. BaseSize - 1, T[k].n)
         /\ IsSlot(T[k].slots[2], 0 .. SwaSize - 1, T[k].n)
         /\ k < Len(T) => T[k + 1].pos = T[k].pos + T[k].n
  BY <1>4, <1>5, <1>6, <1>9, <1>10, <1>11
<1> QED
  BY <1>9, <1>12 DEF TodoOK, T

LEMMA DecodeOK ==
  ASSUME IInv, NEW s \in Seqs, NEW n \in Submitted, Decode(s, n)
  PROVE  IInv'
<1>1. IsBase(base) /\ IsSwa(swa)
  BY DEF IInv
<1>2. call.pc = "idle"
  BY DEF Decode
<1>3. PICK u, r : Decoded(s, n, u, r)
  BY <1>1, DecodeDoes
<1>4. Tried(base, swa, u, r) /\ base' = r.base /\ swa' = r.swa /\ torn' = torn /\ torn = NoneTorn
  BY <1>2, <1>3 DEF Decoded, IInv, TornOK
<1>5. base' = base /\ IsSwa(r.swa)
  BY <1>4 DEF Tried, Undone, IsSwa
<1>6. IsBase(base') /\ IsSwa(swa')
  BY <1>1, <1>4, <1>5
<1>7. CASE r.refused = "no"
  <2>1. call' = [pc |-> "prepared", todo |-> Filled(s, u, r.slots), refused |-> "no"]
    BY <1>3, <1>7 DEF Decoded
  <2>2. PICK o : Undone(SwaSize, TRUE, o, swa) /\ Accepted(base, o, u, r)
    BY <1>4, <1>7 DEF Tried
  <2>3. IsSwa(o)
    BY <2>2 DEF Undone, IsSwa
  <2>4. PICK first, end : Consecutive(u, s, first, end)
    BY <1>3 DEF Decoded
  <2>5. Continues(u)
    BY <1>3 DEF Decoded
  <2>6. TodoOK(Filled(s, u, r.slots))
    BY <1>1, <2>2, <2>3, <2>4, <2>5, FilledOK
  <2>7. CallOK' /\ call'.pc = "prepared"
    BY <2>1, <2>6 DEF CallOK
  <2> QED
    BY <1>4, <1>6, <2>7 DEF IInv, TornOK, NoneTorn, IsBase, IsSwa
<1>8. CASE r.refused # "no"
  <2>1. call' = [pc |-> "idle", todo |-> <<>>, refused |-> r.refused]
    BY <1>3, <1>8 DEF Decoded
  <2>2. CallOK' /\ call'.pc = "idle"
    BY <2>1 DEF CallOK
  <2> QED
    BY <1>4, <1>6, <2>2 DEF IInv, TornOK, NoneTorn, IsBase, IsSwa
<1> QED
  BY <1>7, <1>8

LEMMA HeadIs ==
  ASSUME NEW todo, TodoOK(todo)
  PROVE  /\ Len(todo) \in Nat \ {0} /\ Head(todo) = todo[1]
         /\ todo[1].seq \in Seqs /\ todo[1].pos \in Nat /\ todo[1].n \in Nat \ {0}
         /\ todo[1].pos + todo[1].n - 1 <= MaxPos
         /\ IsSlot(todo[1].slots[1], 0 .. BaseSize - 1, todo[1].n)
         /\ IsSlot(todo[1].slots[2], 0 .. SwaSize - 1, todo[1].n)
<1>1. todo \in Seq(Ubatches) /\ todo # <<>>
  BY DEF TodoOK
<1>2. Len(todo) \in Nat \ {0} /\ Head(todo) = todo[1] /\ 1 \in 1 .. Len(todo) /\ todo[1] \in Ubatches
  BY <1>1
<1> QED
  BY <1>2 DEF TodoOK, Ubatches

LEMMA TailIs ==
  ASSUME NEW todo, TodoOK(todo), Len(todo) # 1
  PROVE  /\ TodoOK(Tail(todo)) /\ Len(Tail(todo)) = Len(todo) - 1
         /\ \A k \in 1 .. Len(Tail(todo)) : Tail(todo)[k] = todo[k + 1]
         /\ Tail(todo)[1].seq = todo[1].seq /\ Tail(todo)[1].pos = todo[1].pos + todo[1].n
<1> DEFINE m == Len(todo)
           T == Tail(todo)
<1>1. todo \in Seq(Ubatches) /\ todo # <<>>
  BY DEF TodoOK
<1>2. m \in Nat /\ m > 1
  <2>1. Len(todo) \in Nat /\ Len(todo) # 0
    BY <1>1
  <2>2. \A k \in Nat : k # 0 /\ k # 1 => k > 1
    OBVIOUS
  <2> QED
    BY <2>1, <2>2
<1>3. T \in Seq(Ubatches) /\ Len(T) = m - 1 /\ \A k \in 1 .. m - 1 : T[k] = todo[k + 1]
  BY <1>1, <1>2
<1> HIDE DEF T
<1>4. T # <<>>
  BY <1>2, <1>3
<1>5. \A k \in 1 .. m :
       /\ todo[k].seq = todo[1].seq /\ todo[k].pos + todo[k].n - 1 <= MaxPos
       /\ IsSlot(todo[k].slots[1], 0 .. BaseSize - 1, todo[k].n)
       /\ IsSlot(todo[k].slots[2], 0 .. SwaSize - 1, todo[k].n)
       /\ k < m => todo[k + 1].pos = todo[k].pos + todo[k].n
  BY DEF TodoOK
<1> HIDE DEF m
<1>6. T[1] = todo[2] /\ todo[2].seq = todo[1].seq /\ todo[2].pos = todo[1].pos + todo[1].n
  BY <1>2, <1>3, <1>5
<1>7. \A k \in 1 .. Len(T) :
       /\ T[k].seq = T[1].seq /\ T[k].pos + T[k].n - 1 <= MaxPos
       /\ IsSlot(T[k].slots[1], 0 .. BaseSize - 1, T[k].n)
       /\ IsSlot(T[k].slots[2], 0 .. SwaSize - 1, T[k].n)
       /\ k < Len(T) => T[k + 1].pos = T[k].pos + T[k].n
  <2> TAKE k \in 1 .. Len(T)
  <2>1. k + 1 \in 1 .. m /\ k \in 1 .. m - 1 /\ (k < Len(T) => k + 1 < m /\ k + 1 \in 1 .. m - 1)
    BY <1>2, <1>3
  <2>2. T[k] = todo[k + 1] /\ (k < Len(T) => T[k + 1] = todo[k + 1 + 1])
    BY <1>3, <2>1
  <2> QED
    BY <1>5, <1>6, <2>1, <2>2
<1> QED
  BY <1>2, <1>3, <1>4, <1>6, <1>7 DEF TodoOK, T, m

(* The slots of the ubatch at hand.                                        *)
LEMMA AtHand ==
  ASSUME IInv, call.pc # "idle"
  PROVE  /\ TodoOK(call.todo) /\ Ubatch = call.todo[1]
         /\ Applying(base, Ubatch.slots[1], Ubatch.n, Ubatch.seq, Ubatch.pos)
         /\ Applying(swa, Ubatch.slots[2], Ubatch.n, Ubatch.seq, Ubatch.pos)
<1>1. TodoOK(call.todo)
  BY DEF IInv, CallOK
<1>2. Cells(base) = 0 .. BaseSize - 1 /\ Cells(swa) = 0 .. SwaSize - 1
  BY CacheIs DEF IInv, IsBase, IsSwa
<1>3. /\ Head(call.todo) = call.todo[1]
      /\ call.todo[1].seq \in Seqs /\ call.todo[1].pos \in Nat /\ call.todo[1].n \in Nat \ {0}
      /\ call.todo[1].pos + call.todo[1].n - 1 <= MaxPos
      /\ IsSlot(call.todo[1].slots[1], 0 .. BaseSize - 1, call.todo[1].n)
      /\ IsSlot(call.todo[1].slots[2], 0 .. SwaSize - 1, call.todo[1].n)
  BY <1>1, HeadIs
<1> QED
  BY <1>1, <1>2, <1>3 DEF Applying, Ubatch

LEMMA PendingPut ==
  ASSUME NEW z \in Nat, NEW b, NEW c, CacheOK(c, z, b), NEW slot, NEW n, NEW s, NEW p,
         Applying(c, slot, n, s, p)
  PROVE  /\ CacheOK(ApplyUbatch(c, slot, s, p), z, b)
         /\ \A i \in Range(slot) :
              /\ ApplyUbatch(c, slot, s, p).cells[i].seqs \subseteq {s}
              /\ ApplyUbatch(c, slot, s, p).cells[i].seqs # {} => ApplyUbatch(c, slot, s, p).cells[i].pos >= p
<1> DEFINE d == ApplyUbatch(c, slot, s, p)
<1>1. /\ CacheOK(d, z, b)
      /\ \A k \in 1 .. n : Holds(d, slot[k], p + k - 1, {t \in {s} : p + k - 1 > Lost(c, slot, t)})
  BY Applied
<1> HIDE DEF d
<1>2. n \in Nat \ {0} /\ p \in Nat /\ IsSlot(slot, Cells(c), n)
  BY DEF Applying
<1>3. \A i \in Range(slot) : \E k \in 1 .. n : slot[k] = i
  BY <1>2 DEF IsSlot, Range
<1>4. \A i \in Range(slot) : d.cells[i].seqs \subseteq {s} /\ (d.cells[i].seqs # {} => d.cells[i].pos >= p)
  <2> TAKE i \in Range(slot)
  <2>1. PICK k \in 1 .. n : slot[k] = i
    BY <1>3
  <2>2. Holds(d, i, p + k - 1, {t \in {s} : p + k - 1 > Lost(c, slot, t)})
    BY <1>1, <2>1
  <2>3. p + k - 1 >= p
    BY <1>2
  <2> QED
    BY <2>2, <2>3 DEF Holds
<1> QED
  BY <1>1, <1>4 DEF d

LEMMA PutInBase ==
  ASSUME NEW c, IsBase(c), NEW slot, NEW n, NEW s, NEW p, Applying(c, slot, n, s, p),
         NEW d, d = ApplyUbatch(c, slot, s, p)
  PROVE  /\ IsBase(d)
         /\ \A i \in Range(slot) : d.cells[i].seqs \subseteq {s} /\ (d.cells[i].seqs # {} => d.cells[i].pos >= p)
BY PendingPut, SwaSizeIs, ZenonT(40) DEF IsBase

LEMMA PutInSwa ==
  ASSUME NEW c, IsSwa(c), NEW slot, NEW n, NEW s, NEW p, Applying(c, slot, n, s, p),
         NEW d, d = ApplyUbatch(c, slot, s, p)
  PROVE  /\ IsSwa(d)
         /\ \A i \in Range(slot) : d.cells[i].seqs \subseteq {s} /\ (d.cells[i].seqs # {} => d.cells[i].pos >= p)
BY PendingPut, SwaSizeIs, ZenonT(40) DEF IsSwa

LEMMA ApplyOK == ASSUME IInv, Apply PROVE IInv'
<1>1. call.pc \in {"prepared", "place"} /\ call.pc # "idle" /\ call.pc # "compute"
  BY DEF Apply
<1>2. /\ Applying(base, Ubatch.slots[1], Ubatch.n, Ubatch.seq, Ubatch.pos)
      /\ Applying(swa, Ubatch.slots[2], Ubatch.n, Ubatch.seq, Ubatch.pos)
  BY <1>1, AtHand
<1>3. /\ base' = ApplyUbatch(base, Ubatch.slots[1], Ubatch.seq, Ubatch.pos)
      /\ swa' = ApplyUbatch(swa, Ubatch.slots[2], Ubatch.seq, Ubatch.pos)
      /\ torn' = StillTorn([base |-> torn.base \cup Range(Ubatch.slots[1]),
                            swa |-> torn.swa \cup Range(Ubatch.slots[2])], base', swa')
      /\ call' = [call EXCEPT !.pc = "compute"]
  BY DEF Apply
<1>4. IsBase(base) /\ IsSwa(swa)
  BY DEF IInv
<1>5. /\ IsBase(base')
      /\ \A i \in Range(Ubatch.slots[1]) : /\ base'.cells[i].seqs \subseteq {Ubatch.seq}
                                           /\ base'.cells[i].seqs # {} => base'.cells[i].pos >= Ubatch.pos
  BY <1>2, <1>3, <1>4, PutInBase
<1>6. /\ IsSwa(swa')
      /\ \A i \in Range(Ubatch.slots[2]) : /\ swa'.cells[i].seqs \subseteq {Ubatch.seq}
                                           /\ swa'.cells[i].seqs # {} => swa'.cells[i].pos >= Ubatch.pos
  BY <1>2, <1>3, <1>4, PutInSwa
<1>7. torn = NoneTorn
  BY <1>1 DEF IInv, TornOK
<1>8. /\ torn' = [base |-> torn'.base, swa |-> torn'.swa]
      /\ torn'.base \subseteq Range(Ubatch.slots[1]) /\ torn'.swa \subseteq Range(Ubatch.slots[2])
  BY <1>3, <1>7 DEF StillTorn, NoneTorn
<1>9. /\ call'.pc = "compute" /\ call'.todo = call.todo
      /\ call' = [pc |-> call'.pc, todo |-> call'.todo, refused |-> call'.refused]
  BY <1>3 DEF IInv, CallOK
<1>10. Ubatch' = Ubatch
  BY <1>9 DEF Ubatch
<1>11. CallOK'
  BY <1>1, <1>9 DEF IInv, CallOK
<1>12. IsBase(base)' /\ IsSwa(swa)'
  BY <1>5, <1>6 DEF IsBase, IsSwa
<1>13. Pending(torn.base, base)' /\ Pending(torn.swa, swa)'
  BY <1>5, <1>6, <1>8, <1>10 DEF Pending
<1>14. TornOK'
  BY <1>8, <1>9, <1>10, <1>13 DEF TornOK
<1> QED
  BY <1>11, <1>12, <1>14 DEF IInv

LEMMA ComputedOK == ASSUME IInv, Computed PROVE IInv'
<1>1. call.pc = "compute"
  BY DEF Computed
<1>2. /\ torn' = [base |-> torn.base \ Range(Ubatch.slots[1]), swa |-> torn.swa \ Range(Ubatch.slots[2])]
      /\ call' = IF Len(call.todo) = 1 THEN Idle ELSE [call EXCEPT !.pc = "place", !.todo = Tail(call.todo)]
      /\ base' = base /\ swa' = swa
  BY DEF Computed
<1>3. torn' = NoneTorn
  BY <1>1, <1>2 DEF IInv, TornOK, NoneTorn
<1>4. TodoOK(call.todo)
  BY <1>1 DEF IInv, CallOK
<1>5. CallOK' /\ call'.pc # "compute"
  <2>1. CASE Len(call.todo) = 1
    <3>1. call' = Idle
      BY <1>2, <2>1
    <3> QED
      BY <3>1, IdleIs DEF CallOK
  <2>2. CASE Len(call.todo) # 1
    <3>1. TodoOK(Tail(call.todo))
      BY <1>4, <2>2, TailIs
    <3>2. call' = [pc |-> "place", todo |-> Tail(call.todo), refused |-> call.refused]
      BY <1>2, <2>2 DEF IInv, CallOK
    <3> QED
      BY <3>1, <3>2 DEF CallOK
  <2> QED
    BY <2>1, <2>2
<1>6. IsBase(base)' /\ IsSwa(swa)'
  BY <1>2 DEF IInv
<1> QED
  BY <1>3, <1>5, <1>6 DEF IInv, TornOK

LEMMA OutputsFailOK == ASSUME IInv, OutputsFail PROVE IInv'
<1>1. call.pc = "prepared" /\ call' = Idle /\ base' = base /\ swa' = swa /\ torn' = torn
  BY DEF OutputsFail
<1>2. CallOK' /\ call'.pc = "idle"
  BY <1>1, IdleIs DEF CallOK
<1>3. torn' = NoneTorn
  BY <1>1 DEF IInv, TornOK
<1>4. IsBase(base)' /\ IsSwa(swa)'
  BY <1>1 DEF IInv
<1> QED
  BY <1>2, <1>3, <1>4 DEF IInv, TornOK

(* Removing a ubatch empties the cells it was placed in.                   *)
LEMMA PendingRemoved ==
  ASSUME NEW z \in Nat, NEW b, NEW c, CacheOK(c, z, b), NEW s, NEW p \in Nat, NEW T,
         \A i \in T : c.cells[i].seqs \subseteq {s} /\ (c.cells[i].seqs # {} => c.cells[i].pos >= p)
  PROVE  CacheOK(SeqRm(c, s, p), z, b) /\ T \cap Used(SeqRm(c, s, p)) = {}
<1> DEFINE d == SeqRm(c, s, p)
<1>1. /\ CacheOK(d, z, b)
      /\ \A i \in Cells(c) : Holds(d, i, c.cells[i].pos, {t \in c.cells[i].seqs : t = s => c.cells[i].pos < p})
  BY SeqRmIs
<1>2. Cells(c) = 0 .. z - 1 /\ Cells(d) = 0 .. z - 1
  BY <1>1, CacheIs
<1> HIDE DEF d
<1>3. \A i \in T \cap Cells(d) : d.cells[i].pos = -1
  <2> TAKE i \in T \cap Cells(d)
  <2>1. Holds(d, i, c.cells[i].pos, {t \in c.cells[i].seqs : t = s => c.cells[i].pos < p})
    BY <1>1, <1>2
  <2>2. c.cells[i].pos \in -1 .. MaxPos
    BY <1>2, CellIs
  <2>3. {t \in c.cells[i].seqs : t = s => c.cells[i].pos < p} = {}
    BY <2>2, Sizes
  <2>4. d.cells[i].seqs = {}
    BY <2>1, <2>3 DEF Holds
  <2> QED
    BY <1>1, <1>2, <2>4, CellIs
<1> QED
  BY <1>1, <1>3 DEF Used, Empty, d

LEMMA ComputeFailsOK == ASSUME IInv, ComputeFails PROVE IInv'
<1>1. call.pc = "compute" /\ call.pc # "idle"
  BY DEF ComputeFails
<1>2. /\ base' = SeqRm(base, Ubatch.seq, Ubatch.pos)
      /\ swa' = SeqRm(swa, Ubatch.seq, Ubatch.pos)
      /\ torn' = StillTorn(torn, base', swa')
      /\ call' = Idle
  BY DEF ComputeFails, Removes
<1>3. Ubatch.pos \in Nat
  BY <1>1, AtHand DEF Applying
<1>4. BaseSize \in Nat /\ SwaSize \in Nat
  BY SwaSizeIs
<1>5. Pending(torn.base, base) /\ Pending(torn.swa, swa)
  BY <1>1 DEF IInv, TornOK
<1>6. CacheOK(base', BaseSize, FALSE) /\ torn.base \cap Used(base') = {}
  BY <1>2, <1>3, <1>4, <1>5, PendingRemoved DEF IInv, IsBase, Pending
<1>7. CacheOK(swa', SwaSize, TRUE) /\ torn.swa \cap Used(swa') = {}
  BY <1>2, <1>3, <1>4, <1>5, PendingRemoved DEF IInv, IsSwa, Pending
<1>8. torn' = NoneTorn
  BY <1>2, <1>6, <1>7 DEF StillTorn, NoneTorn
<1>9. CallOK' /\ call'.pc = "idle"
  BY <1>2, IdleIs DEF CallOK
<1>10. IsBase(base)' /\ IsSwa(swa)'
  BY <1>6, <1>7 DEF IsBase, IsSwa
<1> QED
  BY <1>8, <1>9, <1>10 DEF IInv, TornOK

LEMMA NextOK == ASSUME IInv, Next PROVE IInv'
<1>1. CASE Clear
  BY <1>1, ClearOK
<1>2. CASE \E s \in Seqs : \/ \E p \in 0 .. MaxPos : CutSequence(s, p)
                           \/ \E t \in Seqs \ {s} : ShareSequence(s, t)
                           \/ KeepSequence(s)
  BY <1>2, EditOK
<1>3. CASE \E s \in Seqs, n \in Submitted : Decode(s, n)
  BY <1>3, DecodeOK
<1>4. CASE OutputsFail
  BY <1>4, OutputsFailOK
<1>5. CASE Apply
  BY <1>5, ApplyOK
<1>6. CASE Computed
  BY <1>6, ComputedOK
<1>7. CASE ComputeFails
  BY <1>7, ComputeFailsOK
<1> QED
  BY <1>1, <1>2, <1>3, <1>4, <1>5, <1>6, <1>7 DEF Next

LEMMA UnchangedOK == ASSUME IInv, UNCHANGED vars PROVE IInv'
BY DEF vars, IInv, IsBase, IsSwa, CallOK, TornOK, Pending, Ubatch, NoneTorn

LEMMA ApplyingIn ==
  ASSUME NEW c, NEW slot, NEW n, NEW s, NEW p, Applying(c, slot, n, s, p)
  PROVE  Range(slot) \subseteq Cells(c)
<1> DEFINE S == Cells(c)
<1>1. IsSlot(slot, S, n) /\ n \in Nat \ {0}
  BY DEF Applying
<1> HIDE DEF S
<1>2. Range(slot) \subseteq S
  BY <1>1, SlotIs
<1> QED
  BY <1>2 DEF S

LEMMA TypesFollow == IInv => TypeOK
<1> SUFFICES ASSUME IInv PROVE TypeOK
  OBVIOUS
<1>1. CacheOK(base, BaseSize, FALSE) /\ CacheOK(swa, SwaSize, TRUE) /\ CallOK /\ TornOK
  BY DEF IInv, IsBase, IsSwa
<1>2. torn.base \subseteq Cells(base) /\ torn.swa \subseteq Cells(swa)
  <2>1. CASE call.pc # "compute"
    BY <1>1, <2>1 DEF TornOK, NoneTorn
  <2>2. CASE call.pc = "compute"
    <3>1. /\ Applying(base, Ubatch.slots[1], Ubatch.n, Ubatch.seq, Ubatch.pos)
          /\ Applying(swa, Ubatch.slots[2], Ubatch.n, Ubatch.seq, Ubatch.pos)
      BY <2>2, AtHand
    <3>2. Range(Ubatch.slots[1]) \subseteq Cells(base) /\ Range(Ubatch.slots[2]) \subseteq Cells(swa)
      <4>1. Range(Ubatch.slots[1]) \subseteq Cells(base)
        BY <3>1, ApplyingIn
      <4>2. Range(Ubatch.slots[2]) \subseteq Cells(swa)
        BY <3>1, ApplyingIn
      <4> QED
        BY <4>1, <4>2
    <3> QED
      BY <1>1, <2>2, <3>2 DEF TornOK
  <2> QED
    BY <2>1, <2>2
<1> QED
  BY <1>1, <1>2 DEF TypeOK, CallOK

LEMMA Invariance == Spec => []IInv
<1>1. IInv /\ [Next]_vars => IInv'
  BY NextOK, UnchangedOK
<1> QED
  BY InitOK, <1>1, PTL DEF Spec

(* The caches are well formed, an empty cell belongs to nobody, and what   *)
(* is torn are cells, whatever callers submit and edit and whichever calls *)
(* fail.                                                                   *)
THEOREM CacheTypeCorrect == Spec => []TypeOK
BY Invariance, TypesFollow, PTL

(* After a call, failed or not, no cell in use holds keys and values that  *)
(* were not computed for it.                                               *)
THEOREM NothingStaysTorn == Spec => []NothingTorn
<1>1. IInv => NothingTorn
  BY DEF IInv, TornOK, NoneTorn, NothingTorn
<1> QED
  BY <1>1, Invariance, PTL

-----------------------------------------------------------------------------
(* What a sequence finds in the caches.  From here on, calls and edits are *)
(* those of MCSpec.                                                        *)

(* Each position of a sequence is in one cell. *)
Once(c) ==
  \A i, j \in Cells(c) : \A s \in c.cells[i].seqs :
    s \in c.cells[j].seqs /\ c.cells[i].pos = c.cells[j].pos => i = j

(* The positions B in the base cache are all up to t; the positions W in   *)
(* the windowed one are among them, and nothing that a token at a looks at *)
(* is missing.                                                             *)
Seen(B, W, t, a) ==
  /\ t \in -1 .. MaxPos /\ B = 0 .. t /\ W \subseteq 0 .. t
  /\ \A q \in 0 .. t : a - q < Window => q \in W

(* No position is missing between the first one and t. *)
Closed(P, t) == \A p \in P : \A q \in 0 .. t : p <= q => q \in P

Sees(b, w, s, t, a) == Seen(Positions(b, s), Positions(w, s), t, a)
Agree(b, w) == \A s \in Seqs : Sees(b, w, s, SeqPosMax(w, s), SeqPosMax(w, s) + 1)
AllClosed(c) == \A s \in Seqs : Closed(Positions(c, s), SeqPosMax(c, s))

LEMMA PositionsAre ==
  ASSUME NEW z, NEW b, NEW c, CacheOK(c, z, b), NEW s
  PROVE  /\ Positions(c, s) \subseteq 0 .. MaxPos
         /\ SeqPosMax(c, s) \in -1 .. MaxPos
         /\ Positions(c, s) \subseteq 0 .. SeqPosMax(c, s)
         /\ SeqPosMax(c, s) # -1 => SeqPosMax(c, s) \in Positions(c, s)
         /\ SeqPosMax(c, s) = -1 <=> Positions(c, s) = {}
<1>1. \A i \in CellsOf(c, s) : c.cells[i].pos \in 0 .. MaxPos
  BY Positive
<1>2. /\ SeqPosMax(c, s) \in -1 .. MaxPos
      /\ \A i \in CellsOf(c, s) : c.cells[i].pos >= 0 /\ c.cells[i].pos <= SeqPosMax(c, s)
      /\ SeqPosMax(c, s) # -1 => \E i \in CellsOf(c, s) : c.cells[i].pos = SeqPosMax(c, s)
  BY LastPos
<1>3. SeqPosMax(c, s) = -1 <=> CellsOf(c, s) = {}
  BY NoLastPos
<1>4. Positions(c, s) = {} <=> CellsOf(c, s) = {}
  BY DEF Positions
<1>5. \A q \in Positions(c, s) : q \in 0 .. MaxPos /\ q <= SeqPosMax(c, s)
  BY <1>1, <1>2 DEF Positions
<1>6. SeqPosMax(c, s) # -1 => SeqPosMax(c, s) \in Positions(c, s)
  BY <1>2 DEF Positions
<1>7. MaxPos \in Nat
  BY Sizes
<1>8. Positions(c, s) \subseteq 0 .. SeqPosMax(c, s)
  BY <1>2, <1>5, <1>7
<1> QED
  BY <1>2, <1>3, <1>4, <1>5, <1>6, <1>8

LEMMA TopIs ==
  ASSUME NEW z, NEW b, NEW c, CacheOK(c, z, b), NEW s, NEW t \in -1 .. MaxPos,
         Positions(c, s) \subseteq 0 .. t, t # -1 => t \in Positions(c, s)
  PROVE  SeqPosMax(c, s) = t
<1> DEFINE P == Positions(c, s)
           m == SeqPosMax(c, s)
<1>1. m \in -1 .. MaxPos /\ P \subseteq 0 .. m /\ (m # -1 => m \in P) /\ (m = -1 <=> P = {})
  BY PositionsAre
<1>2. P \subseteq 0 .. t /\ (t # -1 => t \in P)
  OBVIOUS
<1> HIDE DEF P, m
<1> QED
  BY <1>1, <1>2, Sizes DEF m

LEMMA Tops ==
  ASSUME NEW b, NEW w, IsBase(b), IsSwa(w), NEW s, NEW t, NEW a \in Int, a <= t + 1, Sees(b, w, s, t, a)
  PROVE  /\ SeqPosMax(b, s) = t /\ SeqPosMax(w, s) = t
         /\ Positions(w, s) \subseteq Positions(b, s) /\ Sees(b, w, s, t, t + 1)
<1> DEFINE B == Positions(b, s)
           W == Positions(w, s)
<1>1. Seen(B, W, t, a)
  BY DEF Sees
<1> HIDE DEF B, W
<1>2. t \in -1 .. MaxPos /\ B \subseteq 0 .. t /\ W \subseteq 0 .. t /\ W \subseteq B
  BY <1>1 DEF Seen
<1>3. t # -1 => t \in B /\ t \in W
  BY <1>1, Sizes, EditsAssumption DEF Seen
<1>4. Seen(B, W, t, t + 1)
  BY <1>1, Sizes DEF Seen
<1>5. SeqPosMax(b, s) = t
  BY <1>2, <1>3, TopIs DEF B, IsBase
<1>6. SeqPosMax(w, s) = t
  BY <1>2, <1>3, TopIs DEF W, IsSwa
<1> QED
  BY <1>2, <1>4, <1>5, <1>6 DEF B, W, Sees

LEMMA AgreeIf ==
  ASSUME NEW b, NEW w, IsBase(b), IsSwa(w), \A s \in Seqs : \E t \in Int : Sees(b, w, s, t, t + 1)
  PROVE  Agree(b, w)
<1> SUFFICES ASSUME NEW s \in Seqs PROVE Sees(b, w, s, SeqPosMax(w, s), SeqPosMax(w, s) + 1)
  BY DEF Agree
<1>1. PICK t \in Int : Sees(b, w, s, t, t + 1)
  OBVIOUS
<1>2. t + 1 \in Int /\ t + 1 <= t + 1
  OBVIOUS
<1>3. SeqPosMax(w, s) = t
  BY <1>1, <1>2, Tops
<1> QED
  BY <1>1, <1>3

LEMMA OncePart ==
  ASSUME NEW c, NEW d, Once(c), Part(d, c), Cells(d) = Cells(c)
  PROVE  Once(d)
<1> SUFFICES ASSUME NEW i \in Cells(d), NEW j \in Cells(d), NEW s \in d.cells[i].seqs,
                    s \in d.cells[j].seqs, d.cells[i].pos = d.cells[j].pos
             PROVE  i = j
  BY DEF Once
<1>1. /\ s \in c.cells[i].seqs /\ s \in c.cells[j].seqs
      /\ d.cells[i].pos = c.cells[i].pos /\ d.cells[j].pos = c.cells[j].pos
  BY DEF Part
<1> QED
  BY <1>1 DEF Once

LEMMA SamePositions ==
  ASSUME NEW c, NEW d, Cells(c) = Cells(d), NEW s, NEW t,
         \A i \in Cells(c) : /\ t \in d.cells[i].seqs <=> s \in c.cells[i].seqs
                             /\ t \in d.cells[i].seqs => d.cells[i].pos = c.cells[i].pos
  PROVE  Positions(d, t) = Positions(c, s)
<1>1. CellsOf(d, t) = CellsOf(c, s)
  BY DEF CellsOf
<1>2. \A i \in CellsOf(c, s) : d.cells[i].pos = c.cells[i].pos
  BY DEF CellsOf
<1>3. \A q : q \in Positions(d, t) <=> \E i \in CellsOf(d, t) : d.cells[i].pos = q
  BY DEF Positions
<1>4. \A q : q \in Positions(c, s) <=> \E i \in CellsOf(c, s) : c.cells[i].pos = q
  BY DEF Positions
<1> QED
  BY <1>1, <1>2, <1>3, <1>4

RmIs(c, d, s, p) ==
  /\ Once(c) => Once(d)
  /\ Positions(d, s) = {q \in Positions(c, s) : q < p}
  /\ \A t : t # s => Positions(d, t) = Positions(c, t)

KeepIs(c, d, s) ==
  /\ Once(c) => Once(d)
  /\ Positions(d, s) = Positions(c, s)
  /\ \A t : t # s => Positions(d, t) = {}

CpIs(c, d, s, t) ==
  /\ Once(c) => Once(d)
  /\ Positions(d, t) = Positions(c, s)
  /\ \A r : r # t => Positions(d, r) = Positions(c, r)

LEMMA RmPositions ==
  ASSUME NEW z \in Nat, NEW b, NEW c, CacheOK(c, z, b), NEW s, NEW p \in Nat, NEW d, d = SeqRm(c, s, p)
  PROVE  CacheOK(d, z, b) /\ RmIs(c, d, s, p)
<1>1. /\ CacheOK(d, z, b)
      /\ \A i \in Cells(c) :
           Holds(d, i, c.cells[i].pos, {t \in c.cells[i].seqs : t = s => c.cells[i].pos < p})
  BY SeqRmIs, ZenonT(60)
<1>2. Cells(c) = Cells(d)
  BY <1>1, CacheIs
<1>3. Once(c) => Once(d)
  <2>1. Part(d, c)
    BY <1>1 DEF Part, Holds
  <2> QED
    BY <1>2, <2>1, OncePart
<1>4. \A t : /\ \A q : q \in Positions(d, t) <=> \E i \in Cells(c) : t \in d.cells[i].seqs /\ d.cells[i].pos = q
             /\ \A q : q \in Positions(c, t) <=> \E i \in Cells(c) : t \in c.cells[i].seqs /\ c.cells[i].pos = q
  BY <1>2 DEF Positions, CellsOf
<1>5. \A t, i : i \in Cells(c) =>
        /\ t \in d.cells[i].seqs <=> t \in c.cells[i].seqs /\ (t = s => c.cells[i].pos < p)
        /\ t \in d.cells[i].seqs => d.cells[i].pos = c.cells[i].pos
  BY <1>1 DEF Holds
<1>6. Positions(d, s) = {q \in Positions(c, s) : q < p}
  BY <1>4, <1>5
<1>7. ASSUME NEW t, t # s PROVE Positions(d, t) = Positions(c, t)
  <2>1. \A i \in Cells(c) : /\ t \in d.cells[i].seqs <=> t \in c.cells[i].seqs
                            /\ t \in d.cells[i].seqs => d.cells[i].pos = c.cells[i].pos
    BY <1>5, <1>7
  <2> QED
    BY <1>2, <2>1, SamePositions
<1> QED
  BY <1>1, <1>3, <1>6, <1>7 DEF RmIs

LEMMA KeepPositions ==
  ASSUME NEW z \in Nat, NEW b, NEW c, CacheOK(c, z, b), NEW s \in Seqs, NEW d, d = SeqKeep(c, s)
  PROVE  CacheOK(d, z, b) /\ KeepIs(c, d, s)
<1>1. /\ CacheOK(d, z, b)
      /\ \A i \in Cells(c) : Holds(d, i, c.cells[i].pos, {t \in c.cells[i].seqs : t = s})
  BY SeqKeepIs
<1>2. Cells(c) = Cells(d)
  BY <1>1, CacheIs
<1>3. Once(c) => Once(d)
  <2>1. Part(d, c)
    BY <1>1 DEF Part, Holds
  <2> QED
    BY <1>2, <2>1, OncePart
<1>4. \A t : /\ \A q : q \in Positions(d, t) <=> \E i \in Cells(c) : t \in d.cells[i].seqs /\ d.cells[i].pos = q
             /\ \A q : q \in Positions(c, t) <=> \E i \in Cells(c) : t \in c.cells[i].seqs /\ c.cells[i].pos = q
  BY <1>2 DEF Positions, CellsOf
<1>5. \A t, i : i \in Cells(c) =>
        /\ t \in d.cells[i].seqs <=> t \in c.cells[i].seqs /\ t = s
        /\ t \in d.cells[i].seqs => d.cells[i].pos = c.cells[i].pos
  BY <1>1 DEF Holds
<1>6. Positions(d, s) = Positions(c, s)
  <2>1. \A i \in Cells(c) : /\ s \in d.cells[i].seqs <=> s \in c.cells[i].seqs
                            /\ s \in d.cells[i].seqs => d.cells[i].pos = c.cells[i].pos
    BY <1>5
  <2> QED
    BY <1>2, <2>1, SamePositions
<1>7. ASSUME NEW t, t # s PROVE Positions(d, t) = {}
  BY <1>4, <1>5, <1>7
<1> QED
  BY <1>1, <1>3, <1>6, <1>7 DEF KeepIs

LEMMA CpPositions ==
  ASSUME NEW z \in Nat, NEW b, NEW c, CacheOK(c, z, b), NEW s, NEW t \in Seqs, t # s,
         Positions(c, t) = {}, NEW d, d = SeqCp(c, s, t)
  PROVE  CacheOK(d, z, b) /\ CpIs(c, d, s, t)
<1>1. /\ CacheOK(d, z, b)
      /\ \A i \in Cells(c) : Holds(d, i, c.cells[i].pos, c.cells[i].seqs \cup {u \in {t} : s \in c.cells[i].seqs})
  BY SeqCpIs
<1>2. Cells(c) = Cells(d)
  BY <1>1, CacheIs
<1>4. \A r : /\ \A q : q \in Positions(d, r) <=> \E i \in Cells(c) : r \in d.cells[i].seqs /\ d.cells[i].pos = q
             /\ \A q : q \in Positions(c, r) <=> \E i \in Cells(c) : r \in c.cells[i].seqs /\ c.cells[i].pos = q
  BY <1>2 DEF Positions, CellsOf
<1>5. \A r, i : i \in Cells(c) =>
        /\ r \in d.cells[i].seqs <=> r \in c.cells[i].seqs \/ (r = t /\ s \in c.cells[i].seqs)
        /\ r \in d.cells[i].seqs => d.cells[i].pos = c.cells[i].pos
  BY <1>1 DEF Holds
<1>6. \A i \in Cells(c) : t \notin c.cells[i].seqs
  <2> SUFFICES ASSUME NEW i \in Cells(c), t \in c.cells[i].seqs PROVE FALSE
    OBVIOUS
  <2>1. c.cells[i].pos \in Positions(c, t)
    BY DEF Positions, CellsOf
  <2> QED
    BY <2>1
<1>7. Positions(d, t) = Positions(c, s)
  <2>1. \A i \in Cells(c) : /\ t \in d.cells[i].seqs <=> s \in c.cells[i].seqs
                            /\ t \in d.cells[i].seqs => d.cells[i].pos = c.cells[i].pos
    BY <1>5, <1>6
  <2> QED
    BY <1>2, <2>1, SamePositions
<1>8. ASSUME NEW r, r # t PROVE Positions(d, r) = Positions(c, r)
  <2>1. \A i \in Cells(c) : /\ r \in d.cells[i].seqs <=> r \in c.cells[i].seqs
                            /\ r \in d.cells[i].seqs => d.cells[i].pos = c.cells[i].pos
    BY <1>5, <1>8
  <2> QED
    BY <1>2, <2>1, SamePositions
<1>9. ASSUME Once(c) PROVE Once(d)
  <2> SUFFICES ASSUME NEW i \in Cells(d), NEW j \in Cells(d), NEW r \in d.cells[i].seqs,
                      r \in d.cells[j].seqs, d.cells[i].pos = d.cells[j].pos
               PROVE  i = j
    BY DEF Once
  <2>1. c.cells[i].pos = c.cells[j].pos
    BY <1>2, <1>5
  <2>2. \A x \in c.cells[i].seqs : x \in c.cells[j].seqs => i = j
    BY <1>2, <1>9, <2>1 DEF Once
  <2>3. CASE r = t
    BY <1>2, <1>5, <1>6, <2>2, <2>3
  <2>4. CASE r # t
    BY <1>2, <1>5, <2>2, <2>4
  <2> QED
    BY <2>3, <2>4
<1> QED
  BY <1>1, <1>7, <1>8, <1>9 DEF CpIs

LEMMA NewPositions ==
  ASSUME NEW size, NEW b, NEW s
  PROVE  Positions(NewCache(size, b), s) = {} /\ Once(NewCache(size, b))
BY DEF NewCache, Positions, CellsOf, Cells, NoCell, Once

(* A slot takes from a sequence only what it no longer looks at. *)
LEMMA LostMasked ==
  ASSUME NEW z \in Nat, NEW b, NEW c, CacheOK(c, z, b), NEW u, NEW slot, Usable(c, u, slot), NEW t
  PROVE  /\ Lost(c, slot, t) \in -1 .. MaxPos
         /\ Lost(c, slot, t) = -1 \/ (SeqPosMax(c, t) + 1) - Lost(c, slot, t) >= Window
<1> DEFINE L == Lost(c, slot, t)
<1>1. /\ L \in -1 .. MaxPos
      /\ L # -1 => \E i \in Range(slot) \cap CellsOf(c, t) : c.cells[i].pos = L
  BY LostIs
<1> HIDE DEF L
<1>2. ASSUME L # -1 PROVE (SeqPosMax(c, t) + 1) - L >= Window
  <2>1. PICK i \in Range(slot) : i \in CellsOf(c, t) /\ c.cells[i].pos = L
    BY <1>1, <1>2
  <2>2. i \in Cells(c) /\ t \in c.cells[i].seqs /\ CanUse(c, i)
    BY <2>1 DEF Usable, CellsOf
  <2>3. c.cells[i].pos # -1
    BY <2>2, CacheIs
  <2>4. PICK s \in Seqs : c.cells[i].seqs = {s} /\ IsMasked(c.cells[i].pos, SeqPosMax(c, s) + 1)
    BY <2>2, <2>3 DEF CanUse, Empty
  <2>5. s = t
    BY <2>2, <2>4
  <2>6. IsMasked(L, SeqPosMax(c, t) + 1)
    BY <2>1, <2>4, <2>5
  <2> QED
    BY <2>6 DEF IsMasked
<1> QED
  BY <1>1, <1>2 DEF L

(* The positions after a ubatch was placed: those of a sequence up to the  *)
(* last one it lost are gone, the new ones are there.                      *)
PutIs(c, d, slot, n, s, p) ==
  /\ \A t : t # s => Positions(d, t) = {q \in Positions(c, t) : q > Lost(c, slot, t)}
  /\ Positions(d, s) = {q \in Positions(c, s) : q > Lost(c, slot, s)} \cup (p .. p + n - 1)
  /\ Once(c) /\ (\A q \in Positions(c, s) : q < p) => Once(d)

LEMMA PutPositions ==
  ASSUME NEW z \in Nat, NEW b, NEW c, CacheOK(c, z, b), NEW slot, NEW n, NEW s, NEW p,
         Applying(c, slot, n, s, p), Lost(c, slot, s) < p,
         NEW d, d = ApplyUbatch(c, slot, s, p)
  PROVE  CacheOK(d, z, b) /\ PutIs(c, d, slot, n, s, p)
<1> DEFINE L(t) == Lost(c, slot, t)
           In == Range(slot)
           Out == Cells(c) \ Range(slot)
<1>1. /\ CacheOK(d, z, b)
      /\ \A i \in Out : Holds(d, i, c.cells[i].pos, {t \in c.cells[i].seqs : c.cells[i].pos > L(t)})
      /\ \A k \in 1 .. n : Holds(d, slot[k], p + k - 1, {t \in {s} : p + k - 1 > L(t)})
  <2>1. CacheOK(ApplyUbatch(c, slot, s, p), z, b)
    BY Applied
  <2>2. \A i \in Cells(c) \ Range(slot) :
          Holds(ApplyUbatch(c, slot, s, p), i, c.cells[i].pos,
                {t \in c.cells[i].seqs : c.cells[i].pos > Lost(c, slot, t)})
    BY Applied
  <2>3. \A k \in 1 .. n :
          Holds(ApplyUbatch(c, slot, s, p), slot[k], p + k - 1,
                {t \in {s} : p + k - 1 > Lost(c, slot, t)})
    BY Applied
  <2> QED
    BY <2>1, <2>2, <2>3
<1>2. Cells(d) = Cells(c)
  BY <1>1, CacheIs
<1>3. /\ IsSlot(slot, Cells(c), n) /\ n \in Nat \ {0} /\ p \in Nat
  BY DEF Applying
<1>4. /\ \A i \in In : \E k \in 1 .. n : slot[k] = i
      /\ \A k \in 1 .. n : slot[k] \in In
      /\ \A j, k \in 1 .. n : slot[j] = slot[k] => j = k
      /\ In \subseteq Cells(c)
  BY <1>3 DEF IsSlot, Range
<1>5. \A t : L(t) \in -1 .. MaxPos /\ \A i \in In : t \in c.cells[i].seqs => c.cells[i].pos <= L(t)
  <2> TAKE t
  <2>1. L(t) \in -1 .. MaxPos /\ \A i \in In \cap CellsOf(c, t) : c.cells[i].pos <= L(t)
    BY LostIs
  <2> QED
    BY <1>4, <2>1 DEF CellsOf
<1>6. L(s) < p
  OBVIOUS
<1>7. \A i \in Cells(c) : c.cells[i].pos \in -1 .. MaxPos
  BY CacheIs
<1>12. \A t : /\ \A q : q \in Positions(d, t) <=> \E i \in Cells(c) : t \in d.cells[i].seqs /\ d.cells[i].pos = q
              /\ \A q : q \in Positions(c, t) <=> \E i \in Cells(c) : t \in c.cells[i].seqs /\ c.cells[i].pos = q
  BY <1>2 DEF Positions, CellsOf
<1> HIDE DEF L, In
<1>8. \A k \in 1 .. n : d.cells[slot[k]].seqs = {s} /\ d.cells[slot[k]].pos = p + k - 1
  <2> TAKE k \in 1 .. n
  <2>1. p + k - 1 > L(s)
    BY <1>3, <1>5, <1>6, Sizes
  <2>2. {t \in {s} : p + k - 1 > L(t)} = {s}
    BY <2>1
  <2> QED
    BY <1>1, <2>2 DEF Holds
<1>9. \A i \in Cells(c) : i \notin In =>
        /\ \A t : t \in d.cells[i].seqs <=> t \in c.cells[i].seqs /\ c.cells[i].pos > L(t)
        /\ d.cells[i].seqs # {} => d.cells[i].pos = c.cells[i].pos
  BY <1>1 DEF Holds, In
<1>10. ASSUME NEW t PROVE {q \in Positions(c, t) : q > L(t)} =
          {q \in Positions(c, t) : \E i \in Cells(c) : i \notin In /\ t \in d.cells[i].seqs /\ d.cells[i].pos = q}
  <2> DEFINE A == {q \in Positions(c, t) : q > L(t)}
             B == {q \in Positions(c, t) : \E i \in Cells(c) : i \notin In /\ t \in d.cells[i].seqs /\ d.cells[i].pos = q}
  <2>1. ASSUME NEW q \in A PROVE q \in B
    <3>1. PICK i \in Cells(c) : t \in c.cells[i].seqs /\ c.cells[i].pos = q
      BY <1>12
    <3>2. i \notin In
      BY <1>5, <1>7, <3>1, Sizes
    <3>3. t \in d.cells[i].seqs /\ d.cells[i].pos = q
      BY <1>9, <3>1, <3>2
    <3> QED
      BY <3>2, <3>3
  <2>2. ASSUME NEW q \in B PROVE q \in A
    <3>1. PICK i \in Cells(c) : i \notin In /\ t \in d.cells[i].seqs /\ d.cells[i].pos = q
      OBVIOUS
    <3> QED
      BY <1>9, <3>1
  <2> QED
    BY <2>1, <2>2
<1>11. ASSUME NEW t, NEW i \in Cells(c), i \notin In, t \in d.cells[i].seqs
       PROVE  d.cells[i].pos \in Positions(c, t) /\ d.cells[i].pos = c.cells[i].pos /\ t \in c.cells[i].seqs
  BY <1>9, <1>11, <1>12
<1>13. ASSUME NEW t, t # s PROVE Positions(d, t) = {q \in Positions(c, t) : q > L(t)}
  <2>1. \A i \in Cells(c) : t \in d.cells[i].seqs => i \notin In
    BY <1>4, <1>8, <1>13
  <2>2. \A q : q \in Positions(d, t) <=> \E i \in Cells(c) : i \notin In /\ t \in d.cells[i].seqs /\ d.cells[i].pos = q
    BY <1>12, <2>1
  <2>3. \A q : q \in Positions(d, t) => q \in Positions(c, t)
    BY <1>11, <2>2
  <2>4. Positions(d, t) = {q \in Positions(c, t) : \E i \in Cells(c) : i \notin In /\ t \in d.cells[i].seqs /\ d.cells[i].pos = q}
    BY <2>2, <2>3
  <2> QED
    BY <1>10, <2>4
<1>14. Positions(d, s) = {q \in Positions(c, s) : q > L(s)} \cup (p .. p + n - 1)
  <2> DEFINE K == {q \in Positions(c, s) : \E i \in Cells(c) : i \notin In /\ s \in d.cells[i].seqs /\ d.cells[i].pos = q}
  <2>1. ASSUME NEW q \in Positions(d, s) PROVE q \in K \cup (p .. p + n - 1)
    <3>1. PICK i \in Cells(c) : s \in d.cells[i].seqs /\ d.cells[i].pos = q
      BY <1>12
    <3>2. CASE i \notin In
      BY <1>11, <3>1, <3>2
    <3>3. CASE i \in In
      <4>1. PICK k \in 1 .. n : slot[k] = i
        BY <1>4, <3>3
      <4>2. q = p + k - 1
        BY <1>8, <3>1, <4>1
      <4> QED
        BY <1>3, <4>2
    <3> QED
      BY <3>2, <3>3
  <2>2. ASSUME NEW q \in p .. p + n - 1 PROVE q \in Positions(d, s)
    <3>1. q - p + 1 \in 1 .. n /\ p + (q - p + 1) - 1 = q
      BY <1>3
    <3>2. slot[q - p + 1] \in Cells(c)
      BY <1>4, <3>1
    <3>3. s \in d.cells[slot[q - p + 1]].seqs /\ d.cells[slot[q - p + 1]].pos = q
      BY <1>8, <3>1
    <3> QED
      BY <1>12, <3>2, <3>3
  <2>3. \A q \in K : q \in Positions(d, s)
    BY <1>12
  <2>4. Positions(d, s) = K \cup (p .. p + n - 1)
    BY <2>1, <2>2, <2>3
  <2> QED
    BY <1>10, <2>4
<1>15. ASSUME Once(c), \A q \in Positions(c, s) : q < p PROVE Once(d)
  <2> SUFFICES ASSUME NEW i \in Cells(d), NEW j \in Cells(d), NEW t \in d.cells[i].seqs,
                      t \in d.cells[j].seqs, d.cells[i].pos = d.cells[j].pos
               PROVE  i = j
    BY DEF Once
  <2>0. i \in Cells(c) /\ j \in Cells(c)
    BY <1>2
  <2>1. \A k \in Cells(c) : k \in In => \E m \in 1 .. n : slot[m] = k /\ d.cells[k].seqs = {s} /\ d.cells[k].pos = p + m - 1
    BY <1>4, <1>8
  <2>2. CASE i \notin In /\ j \notin In
    BY <1>11, <1>15, <2>0, <2>2 DEF Once
  <2>3. CASE i \in In /\ j \in In
    <3>1. PICK m \in 1 .. n : slot[m] = i /\ d.cells[i].pos = p + m - 1
      BY <2>0, <2>1, <2>3
    <3>2. PICK l \in 1 .. n : slot[l] = j /\ d.cells[j].pos = p + l - 1
      BY <2>0, <2>1, <2>3
    <3>3. p + m - 1 = p + l - 1
      BY <3>1, <3>2
    <3>4. m = l
      BY <1>3, <3>3
    <3> QED
      BY <3>1, <3>2, <3>4
  <2>4. \A k, l \in Cells(c) : k \in In /\ l \notin In /\ t \in d.cells[k].seqs /\ t \in d.cells[l].seqs
           => d.cells[k].pos # d.cells[l].pos
    <3> SUFFICES ASSUME NEW k \in Cells(c), NEW l \in Cells(c), k \in In, l \notin In,
                        t \in d.cells[k].seqs, t \in d.cells[l].seqs
                 PROVE  d.cells[k].pos # d.cells[l].pos
      OBVIOUS
    <3>1. PICK m \in 1 .. n : d.cells[k].seqs = {s} /\ d.cells[k].pos = p + m - 1
      BY <2>1
    <3>2. t = s /\ d.cells[k].pos >= p /\ d.cells[k].pos \in Int
      BY <1>3, <3>1
    <3>3. d.cells[l].pos \in Positions(c, s) /\ d.cells[l].pos = c.cells[l].pos
      BY <1>11, <3>2
    <3>4. d.cells[l].pos \in Int /\ d.cells[l].pos < p
      BY <1>7, <1>15, <3>3
    <3> QED
      BY <1>3, <3>2, <3>4
  <2> QED
    BY <2>0, <2>2, <2>3, <2>4
<1> QED
  BY <1>1, <1>13, <1>14, <1>15 DEF L, PutIs

LEMMA BasePut ==
  ASSUME NEW c, IsBase(c), NEW slot, NEW n, NEW s, NEW p, Applying(c, slot, n, s, p),
         Lost(c, slot, s) < p, NEW d, d = ApplyUbatch(c, slot, s, p)
  PROVE  IsBase(d) /\ PutIs(c, d, slot, n, s, p)
BY PutPositions, SwaSizeIs DEF IsBase

LEMMA SwaPut ==
  ASSUME NEW c, IsSwa(c), NEW slot, NEW n, NEW s, NEW p, Applying(c, slot, n, s, p),
         Lost(c, slot, s) < p, NEW d, d = ApplyUbatch(c, slot, s, p)
  PROVE  IsSwa(d) /\ PutIs(c, d, slot, n, s, p)
BY PutPositions, SwaSizeIs DEF IsSwa

LEMMA SwaTop ==
  ASSUME NEW w, IsSwa(w)
  PROVE  \A t : SeqPosMax(w, t) \in -1 .. MaxPos /\ SeqPosMax(w, t) \in Int
<1> TAKE t
<1>1. SeqPosMax(w, t) \in -1 .. MaxPos
  BY PositionsAre DEF IsSwa
<1> QED
  BY <1>1, Sizes

(* What holds of positions B and W when some of W are lost that the next   *)
(* token does not look at, and when new ones are added.                    *)
Masked(L, t) == L \in -1 .. MaxPos /\ (L = -1 \/ (t + 1) - L >= Window)

LEMMA SeenLess ==
  ASSUME NEW B, NEW W, NEW t, Seen(B, W, t, t + 1), NEW L, Masked(L, t),
         NEW X, X \subseteq W, \A q \in W : q > L => q \in X
  PROVE  Seen(B, X, t, t + 1)
BY Sizes DEF Seen, Masked

LEMMA ClosedLess ==
  ASSUME NEW B, NEW W, NEW t, Seen(B, W, t, t + 1), NEW L, Masked(L, t),
         NEW X, X = {q \in W : q > L}, Closed(W, t)
  PROVE  Closed(X, t)
BY Sizes DEF Seen, Masked, Closed

LEMMA SeenMore ==
  ASSUME NEW B, NEW W, NEW t, Seen(B, W, t, t + 1), NEW L, Masked(L, t),
         NEW n \in Nat \ {0}, NEW p, p = t + 1, p + n - 1 <= MaxPos,
         NEW C, C = B \cup (p .. p + n - 1),
         NEW X, X = {q \in W : q > L} \cup (p .. p + n - 1)
  PROVE  /\ Seen(C, X, p + n - 1, p)
         /\ Closed(W, t) => Closed(X, p + n - 1)
<1>1. /\ t \in -1 .. MaxPos /\ B = 0 .. t /\ W \subseteq 0 .. t
      /\ \A q \in 0 .. t : (t + 1) - q < Window => q \in W
  BY DEF Seen
<1>2. Window \in Nat /\ MaxPos \in Nat /\ p \in Nat /\ p + n - 1 \in -1 .. MaxPos
  BY <1>1, Sizes
<1>3. L \in Int /\ (L = -1 \/ p - L >= Window)
  BY Sizes DEF Masked
<1>4. C = 0 .. p + n - 1
  BY <1>1, <1>2
<1>5. X \subseteq 0 .. p + n - 1
  <2> SUFFICES ASSUME NEW q \in X PROVE q \in 0 .. p + n - 1
    OBVIOUS
  <2>1. CASE q \in W
    <3>1. q \in 0 .. t
      BY <1>1, <2>1
    <3> QED
      BY <1>1, <1>2, <3>1
  <2>2. CASE q \notin W
    BY <1>2, <2>2
  <2> QED
    BY <2>1, <2>2
<1>6. \A q \in 0 .. p + n - 1 : p - q < Window => q \in X
  BY <1>1, <1>2, <1>3
<1>7. ASSUME Closed(W, t) PROVE Closed(X, p + n - 1)
  <2> SUFFICES ASSUME NEW x \in X, NEW q \in 0 .. p + n - 1, x <= q PROVE q \in X
    BY DEF Closed
  <2>1. CASE q >= p
    BY <1>2, <2>1
  <2>2. CASE q < p
    <3>1. q \in 0 .. t /\ x \in W /\ x > L /\ x \in Int
      BY <1>1, <1>2, <2>2
    <3>2. q \in W
      BY <1>7, <3>1 DEF Closed
    <3> QED
      BY <1>3, <3>1, <3>2
  <2> QED
    BY <1>2, <2>1, <2>2
<1> QED
  BY <1>2, <1>4, <1>5, <1>6, <1>7 DEF Seen

(* The slots of a ubatch that continues a sequence.                        *)
Fits(b, w, u, slot1, slot2) ==
  /\ Usable(b, u, slot1) /\ Applying(b, slot1, u.n, u.seq, u.pos)
  /\ Usable(w, u, slot2) /\ Applying(w, slot2, u.n, u.seq, u.pos)
  /\ u.pos = SeqPosMax(w, u.seq) + 1

LEMMA SwaMasked ==
  ASSUME NEW w, IsSwa(w), NEW u, NEW slot, Usable(w, u, slot), NEW t
  PROVE  Masked(Lost(w, slot, t), SeqPosMax(w, t))
BY LostMasked, SwaSizeIs DEF IsSwa, Masked

LEMMA PutAgrees ==
  ASSUME NEW b, NEW w, IsBase(b), IsSwa(w), Agree(b, w), Once(b), Once(w),
         NEW u, NEW slot1, NEW slot2, Fits(b, w, u, slot1, slot2),
         NEW d, d = ApplyUbatch(b, slot1, u.seq, u.pos),
         NEW e, e = ApplyUbatch(w, slot2, u.seq, u.pos)
  PROVE  /\ IsBase(d) /\ IsSwa(e) /\ Once(d) /\ Once(e) /\ Agree(d, e)
         /\ SeqPosMax(e, u.seq) = u.pos + u.n - 1 /\ Sees(d, e, u.seq, u.pos + u.n - 1, u.pos)
         /\ AllClosed(w) => AllClosed(e)
<1> DEFINE s == u.seq
           p == u.pos
           n == u.n
           T(t) == SeqPosMax(w, t)
           L(t) == Lost(w, slot2, t)
<1>1. /\ Applying(b, slot1, n, s, p) /\ Applying(w, slot2, n, s, p) /\ p = T(s) + 1
      /\ s \in Seqs /\ n \in Nat \ {0} /\ p \in Nat /\ p + n - 1 <= MaxPos
  BY DEF Fits, Applying
<1>2. \A t : Masked(L(t), T(t))
  BY SwaMasked DEF Fits
<1>3. L(s) < p
  <2>1. Masked(L(s), T(s)) /\ T(s) \in Int
    BY <1>2, SwaTop
  <2> HIDE DEF T, L, p
  <2> QED
    BY <1>1, <2>1, Sizes, EditsAssumption DEF Masked
<1>4. \A t : Lost(b, slot1, t) = -1
  <2>1. BaseSize \in Nat /\ \A i \in Range(slot1) : i \in Cells(b) /\ CanUse(b, i)
    BY SwaSizeIs DEF Fits, Usable
  <2> QED
    BY <2>1, NothingLost DEF IsBase
<1>5. Lost(b, slot1, s) < p
  BY <1>1, <1>4
<1>6. \A t \in Seqs : Seen(Positions(b, t), Positions(w, t), T(t), T(t) + 1)
  BY DEF Agree, Sees
<1> HIDE DEF T, L
<1>7. \A q \in Positions(b, s) : q < p
  BY <1>1, <1>6 DEF Seen
<1>8. \A q \in Positions(w, s) : q < p
  BY <1>1, <1>6 DEF Seen
<1> HIDE DEF s, p, n
<1>9. /\ IsBase(d) /\ Once(d)
      /\ \A t : t # s => Positions(d, t) = {q \in Positions(b, t) : q > -1}
      /\ Positions(d, s) = {q \in Positions(b, s) : q > -1} \cup (p .. p + n - 1)
  <2>1. BaseSize \in Nat /\ d = ApplyUbatch(b, slot1, s, p)
    BY SwaSizeIs DEF s, p
  <2>2. /\ IsBase(d)
        /\ \A t : t # s => Positions(d, t) = {q \in Positions(b, t) : q > Lost(b, slot1, t)}
        /\ Positions(d, s) = {q \in Positions(b, s) : q > Lost(b, slot1, s)} \cup (p .. p + n - 1)
        /\ Once(b) /\ (\A q \in Positions(b, s) : q < p) => Once(d)
    BY <1>1, <1>5, <2>1, BasePut DEF PutIs
  <2> QED
    BY <1>4, <1>7, <2>2
<1>10. /\ IsSwa(e) /\ Once(e)
       /\ \A t : t # s => Positions(e, t) = {q \in Positions(w, t) : q > L(t)}
       /\ Positions(e, s) = {q \in Positions(w, s) : q > L(s)} \cup (p .. p + n - 1)
  <2>1. SwaSize \in Nat /\ e = ApplyUbatch(w, slot2, s, p) /\ Lost(w, slot2, s) < p
    BY <1>3, SwaSizeIs DEF s, p, L
  <2>2. /\ IsSwa(e)
        /\ \A t : t # s => Positions(e, t) = {q \in Positions(w, t) : q > Lost(w, slot2, t)}
        /\ Positions(e, s) = {q \in Positions(w, s) : q > Lost(w, slot2, s)} \cup (p .. p + n - 1)
        /\ Once(w) /\ (\A q \in Positions(w, s) : q < p) => Once(e)
    BY <1>1, <2>1, SwaPut DEF PutIs
  <2> QED
    BY <1>8, <2>2 DEF L
<1>11. \A t \in Seqs : Positions(b, t) = {q \in Positions(b, t) : q > -1}
  BY <1>6 DEF Seen
<1>12. Sees(d, e, s, p + n - 1, p) /\ (Closed(Positions(w, s), T(s)) => Closed(Positions(e, s), p + n - 1))
  <2>1. Positions(d, s) = Positions(b, s) \cup (p .. p + n - 1)
    BY <1>1, <1>9, <1>11
  <2>2. Seen(Positions(b, s), Positions(w, s), T(s), T(s) + 1) /\ Masked(L(s), T(s))
    BY <1>1, <1>2, <1>6
  <2> QED
    BY <1>1, <1>10, <2>1, <2>2, SeenMore DEF Sees
<1>13. ASSUME NEW t \in Seqs, t # s
       PROVE  Sees(d, e, t, T(t), T(t) + 1) /\ (Closed(Positions(w, t), T(t)) => Closed(Positions(e, t), T(t)))
  <2>1. Positions(d, t) = Positions(b, t)
    BY <1>9, <1>11, <1>13
  <2>2. Seen(Positions(b, t), Positions(w, t), T(t), T(t) + 1) /\ Masked(L(t), T(t))
    BY <1>2, <1>6
  <2>3. Positions(e, t) = {q \in Positions(w, t) : q > L(t)}
    BY <1>10, <1>13
  <2> DEFINE X == Positions(e, t)
  <2>4. X \subseteq Positions(w, t) /\ \A q \in Positions(w, t) : q > L(t) => q \in X
    BY <2>3
  <2>5. Seen(Positions(b, t), X, T(t), T(t) + 1)
    BY <2>2, <2>4, SeenLess
  <2> QED
    BY <2>1, <2>2, <2>3, <2>5, ClosedLess DEF Sees
<1>14. SeqPosMax(e, s) = p + n - 1 /\ Sees(d, e, s, p + n - 1, p + n - 1 + 1)
  <2>1. p \in Int /\ p <= p + n - 1 + 1
    BY <1>1
  <2> QED
    BY <1>9, <1>10, <1>12, <2>1, Tops
<1>15. \A t \in Seqs : t # s => SeqPosMax(e, t) = T(t) /\ T(t) \in Int
  <2> TAKE t \in Seqs
  <2> HAVE t # s
  <2>1. T(t) \in Int /\ T(t) + 1 \in Int /\ T(t) + 1 <= T(t) + 1
    BY SwaTop DEF T
  <2> QED
    BY <1>9, <1>10, <1>13, <2>1, Tops
<1>16. Agree(d, e)
  <2>1. \A t \in Seqs : \E x \in Int : Sees(d, e, t, x, x + 1)
    <3> TAKE t \in Seqs
    <3>1. CASE t = s
      BY <1>1, <1>14, <3>1
    <3>2. CASE t # s
      BY <1>13, <1>15, <3>2
    <3> QED
      BY <3>1, <3>2
  <2> QED
    BY <1>9, <1>10, <2>1, AgreeIf
<1>17. ASSUME AllClosed(w) PROVE AllClosed(e)
  <2> SUFFICES ASSUME NEW t \in Seqs PROVE Closed(Positions(e, t), SeqPosMax(e, t))
    BY DEF AllClosed
  <2>1. Closed(Positions(w, t), T(t))
    BY <1>17 DEF AllClosed, T
  <2>2. CASE t = s
    BY <1>12, <1>14, <2>1, <2>2
  <2>3. CASE t # s
    BY <1>13, <1>15, <2>1, <2>3
  <2> QED
    BY <2>2, <2>3
<1> QED
  BY <1>9, <1>10, <1>12, <1>14, <1>16, <1>17 DEF s, p, n

(* Placing one ubatch and taking it back: what is restored is the cells of *)
(* the slot.  What was purged was masked, the same slot can be used, and   *)
(* placing the ubatch again comes to what it would have before.            *)
Restored(w, slot, u) == PutBack(ApplyUbatch(w, slot, u.seq, u.pos), Save(w, slot))

RestoredIs(w, e, u, slot) ==
  /\ Cells(e) = Cells(w) /\ e.head = w.head /\ Part(e, w)
  /\ \A i \in Range(slot) : i \in Cells(w) /\ e.cells[i] = w.cells[i]
  /\ \A i \in Cells(w) : \A t \in w.cells[i].seqs :
       w.cells[i].pos > Lost(w, slot, t) => t \in e.cells[i].seqs
  /\ ApplyUbatch(e, slot, u.seq, u.pos) = ApplyUbatch(w, slot, u.seq, u.pos)

LEMMA RestoredCells ==
  ASSUME NEW z \in Nat, NEW b, NEW w, CacheOK(w, z, b), NEW u, NEW slot,
         Applying(w, slot, u.n, u.seq, u.pos), NEW e, e = Restored(w, slot, u)
  PROVE  CacheOK(e, z, b) /\ RestoredIs(w, e, u, slot)
<1> DEFINE a == ApplyUbatch(w, slot, u.seq, u.pos)
           L(t) == Lost(w, slot, t)
<1>1. CacheOK(a, z, b)
  BY Applied
<1>2. \A i \in Cells(w) \ Range(slot) :
        Holds(a, i, w.cells[i].pos, {t \in w.cells[i].seqs : w.cells[i].pos > L(t)})
  BY OutsideApplied
<1>3. IsSlot(slot, Cells(w), u.n) /\ u.n \in Nat \ {0}
  BY DEF Applying
<1>4. Range(slot) \subseteq Cells(w)
  BY ApplyingIn
<1> HIDE DEF a
<1>5. /\ CacheOK(e, z, b) /\ e.head = w.head
      /\ \A i \in Cells(w) : e.cells[i] = IF i \in Range(slot) THEN w.cells[i] ELSE a.cells[i]
  <2>1. /\ CacheOK(PutBack(a, Save(w, slot)), z, b)
        /\ PutBack(a, Save(w, slot)).head = w.head
        /\ \A i \in Cells(w) :
             PutBack(a, Save(w, slot)).cells[i] = IF i \in Range(slot) THEN w.cells[i] ELSE a.cells[i]
    BY <1>1, <1>3, PutBackIs
  <2>2. e = PutBack(a, Save(w, slot))
    BY DEF Restored, a
  <2> QED
    BY <2>1, <2>2
<1>6. Cells(e) = Cells(w) /\ Cells(w) = 0 .. z - 1
  BY <1>5, CacheIs
<1>7. \A i \in Range(slot) : i \in Cells(w) /\ e.cells[i] = w.cells[i]
  BY <1>4, <1>5
<1> HIDE DEF L
<1>8. Part(e, w)
  <2> SUFFICES ASSUME NEW i \in Cells(w)
               PROVE  /\ e.cells[i].seqs \subseteq w.cells[i].seqs
                      /\ e.cells[i].seqs # {} => e.cells[i].pos = w.cells[i].pos
    BY DEF Part
  <2>1. CASE i \in Range(slot)
    BY <1>7, <2>1
  <2>2. CASE i \notin Range(slot)
    BY <1>2, <1>5, <2>2 DEF Holds
  <2> QED
    BY <2>1, <2>2
<1>9. \A i \in Cells(w) : \A t \in w.cells[i].seqs : w.cells[i].pos > L(t) => t \in e.cells[i].seqs
  <2> TAKE i \in Cells(w)
  <2> TAKE t \in w.cells[i].seqs
  <2> HAVE w.cells[i].pos > L(t)
  <2>1. CASE i \in Range(slot)
    BY <1>7, <2>1
  <2>2. CASE i \notin Range(slot)
    BY <1>2, <1>5, <2>2 DEF Holds
  <2> QED
    BY <2>1, <2>2
<1>10. \A t : Lost(e, slot, t) = L(t)
  <2> TAKE t
  <2>1. Range(slot) \cap CellsOf(e, t) = Range(slot) \cap CellsOf(w, t)
    BY <1>6, <1>7 DEF CellsOf
  <2> DEFINE R == Range(slot) \cap CellsOf(w, t)
  <2>2. \A i \in R : e.cells[i] = w.cells[i]
    BY <1>7
  <2> HIDE DEF R
  <2>3. {e.cells[i].pos : i \in R} = {w.cells[i].pos : i \in R}
    BY <2>2
  <2> QED
    BY <2>1, <2>3 DEF Lost, L, R
<1>11. ApplyUbatch(e, slot, u.seq, u.pos) = a
  <2> DEFINE d == ApplyUbatch(e, slot, u.seq, u.pos)
             s == u.seq
             p == u.pos
  <2>1. Applying(e, slot, u.n, s, p)
    BY <1>6 DEF Applying
  <2>2. /\ CacheOK(d, z, b)
        /\ d.head = slot[u.n] + 1
    BY <1>5, <2>1, Applied
  <2>3. \A i \in Cells(e) \ Range(slot) :
          Holds(d, i, e.cells[i].pos, {t \in e.cells[i].seqs : e.cells[i].pos > Lost(e, slot, t)})
    BY <1>5, <2>1, Applied
  <2>4. \A k \in 1 .. u.n : Holds(d, slot[k], p + k - 1, {t \in {s} : p + k - 1 > Lost(e, slot, t)})
    BY <1>5, <2>1, Applied
  <2>5. a.head = slot[u.n] + 1
    BY Applied DEF a
  <2>6. \A k \in 1 .. u.n : Holds(a, slot[k], p + k - 1, {t \in {s} : p + k - 1 > L(t)})
    BY Applied DEF a, L
  <2>7. \A i \in Range(slot) : \E k \in 1 .. u.n : slot[k] = i
    BY <1>3 DEF IsSlot, Range
  <2> HIDE DEF d, s, p
  <2>8. \A i \in 0 .. z - 1 : Holds(d, i, a.cells[i].pos, a.cells[i].seqs)
    <3> TAKE i \in 0 .. z - 1
    <3>1. CASE i \in Range(slot)
      <4>1. PICK k \in 1 .. u.n : slot[k] = i
        BY <2>7, <3>1
      <4>2. Holds(d, i, p + k - 1, {t \in {s} : p + k - 1 > L(t)})
        BY <1>10, <2>4, <4>1
      <4>3. Holds(a, i, p + k - 1, {t \in {s} : p + k - 1 > L(t)})
        BY <2>6, <4>1
      <4> QED
        BY <4>2, <4>3 DEF Holds
    <3>2. CASE i \notin Range(slot)
      <4>1. e.cells[i] = a.cells[i]
        BY <1>5, <1>6, <3>2
      <4>2. Holds(d, i, a.cells[i].pos, {t \in a.cells[i].seqs : a.cells[i].pos > L(t)})
        BY <1>6, <1>10, <2>3, <3>2, <4>1
      <4>3. Holds(a, i, w.cells[i].pos, {t \in w.cells[i].seqs : w.cells[i].pos > L(t)})
        BY <1>2, <1>6, <3>2
      <4>4. {t \in a.cells[i].seqs : a.cells[i].pos > L(t)} = a.cells[i].seqs
        BY <4>3 DEF Holds
      <4> QED
        BY <4>2, <4>4 DEF Holds
    <3> QED
      BY <3>1, <3>2
  <2>9. d = a
    BY <1>1, <2>2, <2>5, <2>8, CachesEqual
  <2> QED
    BY <2>9 DEF d, s, p
<1> QED
  BY <1>5, <1>6, <1>7, <1>8, <1>9, <1>11 DEF a, L, RestoredIs

LEMMA SwaRestored ==
  ASSUME NEW w, IsSwa(w), NEW u, NEW slot, Applying(w, slot, u.n, u.seq, u.pos), NEW e, e = Restored(w, slot, u)
  PROVE  IsSwa(e) /\ RestoredIs(w, e, u, slot)
BY RestoredCells, SwaSizeIs DEF IsSwa

LEMMA SwaIs ==
  ASSUME NEW c, IsSwa(c)
  PROVE  /\ c.swa = TRUE
         /\ \A i \in Cells(c) :
              /\ c.cells[i] = [pos |-> c.cells[i].pos, seqs |-> c.cells[i].seqs]
              /\ c.cells[i].pos \in -1 .. MaxPos /\ c.cells[i].seqs \subseteq Seqs
              /\ c.cells[i].pos = -1 <=> c.cells[i].seqs = {}
<1>1. c \in [cells: [0 .. SwaSize - 1 -> [pos: -1 .. MaxPos, seqs: SUBSET Seqs]],
              head: 0 .. SwaSize, swa: {TRUE}]
  BY DEF IsSwa, CacheOK
<1>2. \A i \in Cells(c) : Empty(c, i) <=> c.cells[i].seqs = {}
  BY DEF IsSwa, CacheOK
<1> QED
  BY <1>1, <1>2 DEF Cells, Empty

LEMMA RestoredPositions ==
  ASSUME NEW w, NEW e, Cells(e) = Cells(w), Part(e, w), NEW t, NEW l,
         \A i \in Cells(w) : t \in w.cells[i].seqs /\ w.cells[i].pos > l => t \in e.cells[i].seqs
  PROVE  /\ Positions(e, t) \subseteq Positions(w, t)
         /\ \A q \in Positions(w, t) : q > l => q \in Positions(e, t)
<1>1. \A i \in Cells(w) : t \in e.cells[i].seqs => t \in w.cells[i].seqs /\ e.cells[i].pos = w.cells[i].pos
  BY DEF Part
<1>2. /\ \A q : q \in Positions(e, t) <=> \E i \in Cells(w) : t \in e.cells[i].seqs /\ e.cells[i].pos = q
      /\ \A q : q \in Positions(w, t) <=> \E i \in Cells(w) : t \in w.cells[i].seqs /\ w.cells[i].pos = q
  BY DEF Positions, CellsOf
<1> QED
  BY <1>1, <1>2

(* What sequences look at in a cell that lost masked ones only. *)
LEMMA SameInSight ==
  ASSUME NEW A, NEW E, A = [pos |-> A.pos, seqs |-> A.seqs], E = [pos |-> E.pos, seqs |-> E.seqs],
         E.seqs \subseteq A.seqs, E.seqs # {} => E.pos = A.pos,
         NEW M, NEW N, E.seqs # {} => M = N, A.seqs \ E.seqs \subseteq M
  PROVE  Without(E, N) = Without(A, M)
<1>1. CASE A.seqs \subseteq M
  <2>1. E.seqs \subseteq N
    BY <1>1
  <2> QED
    BY <1>1, <2>1 DEF Without
<1>2. CASE ~(A.seqs \subseteq M)
  <2>1. E.seqs # {} /\ M = N /\ E.pos = A.pos
    BY <1>2
  <2>2. E.seqs \ N = A.seqs \ M /\ ~(E.seqs \subseteq N)
    BY <1>2, <2>1
  <2>3. Without(E, N) = [pos |-> E.pos, seqs |-> E.seqs \ N]
    BY <2>2 DEF Without
  <2>4. Without(A, M) = [pos |-> A.pos, seqs |-> A.seqs \ M]
    BY <1>2 DEF Without
  <2> QED
    BY <2>1, <2>2, <2>3, <2>4
<1> QED
  BY <1>1, <1>2

LEMMA RestoredAgrees ==
  ASSUME NEW b, NEW w, IsBase(b), IsSwa(w), Agree(b, w), Once(w), NEW u, NEW slot,
         Usable(w, u, slot), Applying(w, slot, u.n, u.seq, u.pos), NEW e, e = Restored(w, slot, u)
  PROVE  /\ IsSwa(e) /\ Once(e) /\ Agree(b, e) /\ Usable(e, u, slot)
         /\ \A t \in Seqs : SeqPosMax(e, t) = SeqPosMax(w, t)
         /\ ApplyUbatch(e, slot, u.seq, u.pos) = ApplyUbatch(w, slot, u.seq, u.pos)
         /\ e.head = w.head /\ InSight(e) = InSight(w)
<1> DEFINE T(t) == SeqPosMax(w, t)
           L(t) == Lost(w, slot, t)
<1>1. /\ IsSwa(e) /\ Cells(e) = Cells(w) /\ e.head = w.head /\ Part(e, w)
      /\ \A i \in Range(slot) : i \in Cells(w) /\ e.cells[i] = w.cells[i]
      /\ \A i \in Cells(w) : \A t \in w.cells[i].seqs : w.cells[i].pos > L(t) => t \in e.cells[i].seqs
      /\ ApplyUbatch(e, slot, u.seq, u.pos) = ApplyUbatch(w, slot, u.seq, u.pos)
  BY SwaRestored DEF RestoredIs
<1>2. Once(e)
  BY <1>1, OncePart
<1>3. \A t : Masked(L(t), T(t)) /\ T(t) \in Int
  BY SwaMasked, SwaTop
<1>4. \A t \in Seqs : Seen(Positions(b, t), Positions(w, t), T(t), T(t) + 1)
  BY DEF Agree, Sees
<1>5. /\ e.swa = w.swa
      /\ \A i \in Cells(w) :
           /\ w.cells[i] = [pos |-> w.cells[i].pos, seqs |-> w.cells[i].seqs]
           /\ e.cells[i] = [pos |-> e.cells[i].pos, seqs |-> e.cells[i].seqs]
           /\ w.cells[i].pos \in -1 .. MaxPos
           /\ w.cells[i].pos = -1 <=> w.cells[i].seqs = {}
           /\ w.cells[i].seqs \subseteq Seqs
  <2>1. /\ w.swa = TRUE
        /\ \A i \in Cells(w) :
             /\ w.cells[i] = [pos |-> w.cells[i].pos, seqs |-> w.cells[i].seqs]
             /\ w.cells[i].pos \in -1 .. MaxPos /\ w.cells[i].seqs \subseteq Seqs
             /\ w.cells[i].pos = -1 <=> w.cells[i].seqs = {}
    BY SwaIs
  <2>2. e.swa = TRUE /\ \A i \in Cells(e) : e.cells[i] = [pos |-> e.cells[i].pos, seqs |-> e.cells[i].seqs]
    BY <1>1, SwaIs
  <2> QED
    BY <1>1, <2>1, <2>2
<1> HIDE DEF T, L
<1>6. ASSUME NEW t \in Seqs PROVE Sees(b, e, t, T(t), T(t) + 1)
  <2> DEFINE X == Positions(e, t)
  <2>1. \A i \in Cells(w) : t \in w.cells[i].seqs /\ w.cells[i].pos > L(t) => t \in e.cells[i].seqs
    BY <1>1
  <2>2. X \subseteq Positions(w, t) /\ \A q \in Positions(w, t) : q > L(t) => q \in X
    BY <1>1, <2>1, RestoredPositions
  <2> HIDE DEF X
  <2>3. Seen(Positions(b, t), X, T(t), T(t) + 1)
    BY <1>3, <1>4, <2>2, SeenLess
  <2> QED
    BY <2>3 DEF Sees, X
<1>7. \A t \in Seqs : SeqPosMax(e, t) = T(t)
  <2> TAKE t \in Seqs
  <2>1. T(t) \in Int /\ T(t) + 1 \in Int /\ T(t) + 1 <= T(t) + 1
    BY <1>3
  <2> QED
    BY <1>1, <1>6, <2>1, Tops
<1>8. Agree(b, e)
  BY <1>1, <1>3, <1>6, AgreeIf
<1>9. Usable(e, u, slot)
  <2>1. /\ IsSlot(slot, Cells(w), u.n) /\ u.n \in Nat \ {0}
        /\ \A i \in Range(slot) : i \in Cells(w) /\ CanUse(w, i)
    BY DEF Usable
  <2>2. \A i \in Range(slot) : CanUse(e, i)
    <3> TAKE i \in Range(slot)
    <3>1. CanUse(w, i) /\ e.cells[i] = w.cells[i]
      BY <1>1, <2>1
    <3> QED
      BY <1>5, <1>7, <3>1 DEF CanUse, Empty, T
  <2> QED
    BY <1>1, <2>1, <2>2 DEF Usable
<1>10. InSight(e) = InSight(w)
  <2> DEFINE M(c, i) == {s \in Seqs : IsMasked(c.cells[i].pos, SeqPosMax(c, s) + 1)}
  <2>1. ASSUME NEW i \in Cells(w) PROVE Without(e.cells[i], M(e, i)) = Without(w.cells[i], M(w, i))
    <3> DEFINE A == w.cells[i]
               E == e.cells[i]
    <3>1. /\ A = [pos |-> A.pos, seqs |-> A.seqs] /\ E = [pos |-> E.pos, seqs |-> E.seqs]
          /\ A.pos \in -1 .. MaxPos /\ (A.pos = -1 <=> A.seqs = {}) /\ A.seqs \subseteq Seqs
      BY <1>5
    <3>2. E.seqs \subseteq A.seqs /\ (E.seqs # {} => E.pos = A.pos)
      BY <1>1 DEF Part
    <3>3. E.seqs # {} => M(w, i) = M(e, i)
      BY <1>7, <3>2 DEF T
    <3>4. \A t \in A.seqs : A.pos > L(t) => t \in E.seqs
      BY <1>1
    <3> HIDE DEF E
    <3>5. ASSUME NEW t \in A.seqs, t \notin E.seqs PROVE t \in M(w, i)
      <4>1. A.pos \in Int /\ A.pos # -1 /\ A.pos >= 0 /\ t \in Seqs
        BY <3>1, <3>5, Sizes
      <4>2. L(t) \in Int /\ T(t) \in Int /\ (L(t) = -1 \/ (T(t) + 1) - L(t) >= Window) /\ Window \in Int
        BY <1>3, Sizes DEF Masked
      <4>3. A.pos <= L(t)
        BY <3>4, <3>5, <4>1, <4>2
      <4> HIDE DEF A
      <4>4. (T(t) + 1) - A.pos >= Window
        BY <4>1, <4>2, <4>3
      <4> QED
        BY <4>1, <4>4 DEF IsMasked, T, A
    <3> HIDE DEF A, M
    <3>6. Without(E, M(e, i)) = Without(A, M(w, i))
      BY <3>1, <3>2, <3>3, <3>5, SameInSight
    <3> QED
      BY <3>6 DEF A, E
  <2>2. /\ InSight(e) = [i \in Cells(w) |-> Without(e.cells[i], M(e, i))]
        /\ InSight(w) = [i \in Cells(w) |-> Without(w.cells[i], M(w, i))]
    BY <1>1 DEF InSight
  <2> HIDE DEF M
  <2> QED
    BY <2>1, <2>2
<1> QED
  BY <1>1, <1>2, <1>7, <1>8, <1>9, <1>10 DEF T

-----------------------------------------------------------------------------
(* Edits: a sequence that had all that it looks at and no gap keeps both.  *)
Intact(b, w) ==
  /\ IsBase(b) /\ IsSwa(w) /\ Once(b) /\ Once(w)
  /\ Agree(b, w) /\ AllClosed(w)

LEMMA IntactIf ==
  ASSUME NEW b, NEW w, IsBase(b), IsSwa(w), Once(b), Once(w),
         \A s \in Seqs : \E t \in Int : Sees(b, w, s, t, t + 1) /\ Closed(Positions(w, s), t)
  PROVE  Intact(b, w)
<1>1. Agree(b, w)
  BY AgreeIf
<1>2. ASSUME NEW s \in Seqs PROVE Closed(Positions(w, s), SeqPosMax(w, s))
  <2>1. PICK t \in Int : Sees(b, w, s, t, t + 1) /\ Closed(Positions(w, s), t)
    OBVIOUS
  <2>2. t + 1 \in Int /\ t + 1 <= t + 1
    OBVIOUS
  <2>3. SeqPosMax(w, s) = t
    BY <2>1, <2>2, Tops
  <2> QED
    BY <2>1, <2>3
<1> QED
  BY <1>1, <1>2 DEF Intact, AllClosed

LEMMA IntactIs ==
  ASSUME NEW b, NEW w, Intact(b, w), NEW s \in Seqs
  PROVE  /\ SeqPosMax(w, s) \in -1 .. MaxPos /\ SeqPosMax(w, s) \in Int
         /\ Positions(b, s) = 0 .. SeqPosMax(w, s)
         /\ Sees(b, w, s, SeqPosMax(w, s), SeqPosMax(w, s) + 1)
         /\ Closed(Positions(w, s), SeqPosMax(w, s))
BY SwaTop DEF Intact, Agree, AllClosed, Sees, Seen

LEMMA EmptySeen == Seen({}, {}, -1, -1 + 1) /\ Closed({}, -1)
BY Sizes DEF Seen, Closed

LEMMA RmBase ==
  ASSUME NEW c, IsBase(c), NEW s, NEW p \in Nat, NEW d, d = SeqRm(c, s, p)
  PROVE  IsBase(d) /\ RmIs(c, d, s, p)
BY RmPositions, SwaSizeIs DEF IsBase

LEMMA RmSwa ==
  ASSUME NEW c, IsSwa(c), NEW s, NEW p \in Nat, NEW d, d = SeqRm(c, s, p)
  PROVE  IsSwa(d) /\ RmIs(c, d, s, p)
BY RmPositions, SwaSizeIs DEF IsSwa

LEMMA KeepBase ==
  ASSUME NEW c, IsBase(c), NEW s \in Seqs, NEW d, d = SeqKeep(c, s)
  PROVE  IsBase(d) /\ KeepIs(c, d, s)
BY KeepPositions, SwaSizeIs DEF IsBase

LEMMA KeepSwa ==
  ASSUME NEW c, IsSwa(c), NEW s \in Seqs, NEW d, d = SeqKeep(c, s)
  PROVE  IsSwa(d) /\ KeepIs(c, d, s)
BY KeepPositions, SwaSizeIs DEF IsSwa

LEMMA CpBase ==
  ASSUME NEW c, IsBase(c), NEW s, NEW t \in Seqs, t # s, Positions(c, t) = {},
         NEW d, d = SeqCp(c, s, t)
  PROVE  IsBase(d) /\ CpIs(c, d, s, t)
BY CpPositions, SwaSizeIs DEF IsBase

LEMMA CpSwa ==
  ASSUME NEW c, IsSwa(c), NEW s, NEW t \in Seqs, t # s, Positions(c, t) = {},
         NEW d, d = SeqCp(c, s, t)
  PROVE  IsSwa(d) /\ CpIs(c, d, s, t)
BY CpPositions, SwaSizeIs DEF IsSwa

LEMMA FirstPos ==
  ASSUME NEW w, IsSwa(w), NEW s, Positions(w, s) # {}
  PROVE  SeqPosMin(w, s) \in Positions(w, s)
<1> DEFINE P == Positions(w, s)
<1>1. P \subseteq 0 .. MaxPos
  BY PositionsAre DEF IsSwa
<1>2. P \in SUBSET Int /\ (\A x \in P : 0 <= x) /\ P # {} /\ 0 \in Int
  BY <1>1, Sizes
<1> HIDE DEF P
<1>3. Min(P) \in P
  BY <1>2, MinOf
<1> QED
  BY <1>2, <1>3 DEF SeqPosMin, P

(* Positions up to p remain, and what the next token looks at was asked    *)
(* for.                                                                    *)
LEMMA SeenCut ==
  ASSUME NEW W, NEW t, Seen(0 .. t, W, t, t + 1), Closed(W, t), NEW p \in Nat, p <= t,
         p = 0 \/ \E m \in W : m <= IF p < Window THEN 0 ELSE p - Window + 1,
         NEW B, B = {q \in 0 .. t : q < p}, NEW X, X = {q \in W : q < p}
  PROVE  Seen(B, X, p - 1, (p - 1) + 1) /\ Closed(X, p - 1)
<1>1. t \in Nat /\ W \subseteq 0 .. t /\ p - 1 \in -1 .. MaxPos /\ t <= MaxPos
  BY Sizes DEF Seen
<1>2. B = 0 .. p - 1
  BY <1>1
<1>3. X \subseteq 0 .. p - 1
  <2> SUFFICES ASSUME NEW q \in X PROVE q \in 0 .. p - 1
    OBVIOUS
  <2>1. q \in 0 .. t /\ q < p
    BY <1>1
  <2> QED
    BY <2>1
<1>4. \A q \in 0 .. p - 1 : p - q < Window => q \in X
  <2> TAKE q \in 0 .. p - 1
  <2> HAVE p - q < Window
  <2>1. PICK m \in W : m <= IF p < Window THEN 0 ELSE p - Window + 1
    OBVIOUS
  <2>2. m <= q /\ q \in 0 .. t
    BY <1>1, <2>1, Sizes
  <2> QED
    BY <2>2 DEF Closed
<1>5. Closed(X, p - 1)
  BY <1>1 DEF Closed
<1>6. (p - 1) + 1 = p
  OBVIOUS
<1> QED
  BY <1>1, <1>2, <1>3, <1>4, <1>5, <1>6 DEF Seen

LEMMA CutAgrees ==
  ASSUME NEW b, NEW w, Intact(b, w), NEW s \in Seqs, NEW p \in Nat, p <= SeqPosMax(w, s),
         p = 0 \/ SeqPosMin(w, s) <= (IF p < Window THEN 0 ELSE p - Window + 1)
  PROVE  Intact(SeqRm(b, s, p), SeqRm(w, s, p))
<1> DEFINE d == SeqRm(b, s, p)
           e == SeqRm(w, s, p)
           T == SeqPosMax(w, s)
<1>1. IsBase(b) /\ IsSwa(w) /\ Once(b) /\ Once(w)
  BY DEF Intact
<1>2. /\ IsBase(d) /\ Once(d) /\ Positions(d, s) = {q \in Positions(b, s) : q < p}
      /\ \A t : t # s => Positions(d, t) = Positions(b, t)
  BY <1>1, RmBase DEF RmIs
<1>3. /\ IsSwa(e) /\ Once(e) /\ Positions(e, s) = {q \in Positions(w, s) : q < p}
      /\ \A t : t # s => Positions(e, t) = Positions(w, t)
  BY <1>1, RmSwa DEF RmIs
<1>4. /\ T \in Int /\ Positions(b, s) = 0 .. T /\ Seen(0 .. T, Positions(w, s), T, T + 1)
      /\ Closed(Positions(w, s), T) /\ p <= T
  BY IntactIs DEF Sees
<1>5. p = 0 \/ \E m \in Positions(w, s) : m <= IF p < Window THEN 0 ELSE p - Window + 1
  <2> SUFFICES ASSUME p # 0 PROVE \E m \in Positions(w, s) : m <= IF p < Window THEN 0 ELSE p - Window + 1
    OBVIOUS
  <2>1. Positions(w, s) # {}
    <3>1. T # -1
      BY <1>4
    <3> QED
      BY <1>1, <3>1, PositionsAre DEF IsSwa
  <2>2. SeqPosMin(w, s) \in Positions(w, s)
    BY <1>1, <2>1, FirstPos
  <2> QED
    BY <2>2
<1> HIDE DEF d, e, T
<1>6. Sees(d, e, s, p - 1, (p - 1) + 1) /\ Closed(Positions(e, s), p - 1)
  <2>1. Positions(d, s) = {q \in 0 .. T : q < p}
    BY <1>2, <1>4
  <2> QED
    BY <1>3, <1>4, <1>5, <2>1, SeenCut DEF Sees
<1>7. \A r \in Seqs : \E t \in Int : Sees(d, e, r, t, t + 1) /\ Closed(Positions(e, r), t)
  <2> TAKE r \in Seqs
  <2>1. CASE r = s
    <3>1. p - 1 \in Int
      OBVIOUS
    <3> QED
      BY <1>6, <2>1, <3>1
  <2>2. CASE r # s
    <3>1. /\ SeqPosMax(w, r) \in Int /\ Sees(b, w, r, SeqPosMax(w, r), SeqPosMax(w, r) + 1)
          /\ Closed(Positions(w, r), SeqPosMax(w, r))
      BY IntactIs
    <3> QED
      BY <1>2, <1>3, <2>2, <3>1 DEF Sees
  <2> QED
    BY <2>1, <2>2
<1>8. Intact(d, e)
  BY <1>2, <1>3, <1>7, IntactIf
<1> QED
  BY <1>8 DEF d, e

LEMMA ShareAgrees ==
  ASSUME NEW b, NEW w, Intact(b, w), NEW t0 \in Seqs, NEW t1 \in Seqs, t1 # t0, Positions(b, t1) = {}
  PROVE  Intact(SeqCp(b, t0, t1), SeqCp(w, t0, t1))
<1> DEFINE d == SeqCp(b, t0, t1)
           e == SeqCp(w, t0, t1)
<1>1. IsBase(b) /\ IsSwa(w) /\ Once(b) /\ Once(w)
  BY DEF Intact
<1>2. Positions(w, t1) = {}
  <2>1. /\ SeqPosMax(w, t1) \in Int
        /\ Sees(b, w, t1, SeqPosMax(w, t1), SeqPosMax(w, t1) + 1)
    BY IntactIs
  <2>2. SeqPosMax(w, t1) + 1 \in Int /\ SeqPosMax(w, t1) + 1 <= SeqPosMax(w, t1) + 1
    BY <2>1
  <2>3. Positions(w, t1) \subseteq Positions(b, t1)
    BY <1>1, <2>1, <2>2, Tops
  <2> QED
    BY <2>3
<1>3. IsBase(d) /\ CpIs(b, d, t0, t1)
  BY <1>1, CpBase
<1>4. IsSwa(e) /\ CpIs(w, e, t0, t1)
  BY <1>1, <1>2, CpSwa
<1> HIDE DEF d, e
<1>5. \A r \in Seqs : \E t \in Int : Sees(d, e, r, t, t + 1) /\ Closed(Positions(e, r), t)
  <2> TAKE r \in Seqs
  <2>1. PICK o \in Seqs : Positions(d, r) = Positions(b, o) /\ Positions(e, r) = Positions(w, o)
    <3>1. CASE r = t1
      BY <1>3, <1>4, <3>1 DEF CpIs
    <3>2. CASE r # t1
      BY <1>3, <1>4, <3>2 DEF CpIs
    <3> QED
      BY <3>1, <3>2
  <2>2. /\ SeqPosMax(w, o) \in Int /\ Sees(b, w, o, SeqPosMax(w, o), SeqPosMax(w, o) + 1)
        /\ Closed(Positions(w, o), SeqPosMax(w, o))
    BY IntactIs
  <2> QED
    BY <2>1, <2>2 DEF Sees
<1>6. Intact(d, e)
  BY <1>1, <1>3, <1>4, <1>5, IntactIf DEF CpIs
<1> QED
  BY <1>6 DEF d, e

LEMMA KeepAgrees ==
  ASSUME NEW b, NEW w, Intact(b, w), NEW s \in Seqs
  PROVE  Intact(SeqKeep(b, s), SeqKeep(w, s))
<1> DEFINE d == SeqKeep(b, s)
           e == SeqKeep(w, s)
<1>1. IsBase(b) /\ IsSwa(w) /\ Once(b) /\ Once(w)
  BY DEF Intact
<1>3. IsBase(d) /\ KeepIs(b, d, s)
  BY <1>1, KeepBase
<1>4. IsSwa(e) /\ KeepIs(w, e, s)
  BY <1>1, KeepSwa
<1> HIDE DEF d, e
<1>5. \A r \in Seqs : \E t \in Int : Sees(d, e, r, t, t + 1) /\ Closed(Positions(e, r), t)
  <2> TAKE r \in Seqs
  <2>1. CASE r = s
    <3>1. Positions(d, r) = Positions(b, s) /\ Positions(e, r) = Positions(w, s)
      BY <1>3, <1>4, <2>1 DEF KeepIs
    <3>2. /\ SeqPosMax(w, s) \in Int /\ Sees(b, w, s, SeqPosMax(w, s), SeqPosMax(w, s) + 1)
          /\ Closed(Positions(w, s), SeqPosMax(w, s))
      BY IntactIs
    <3> QED
      BY <3>1, <3>2 DEF Sees
  <2>2. CASE r # s
    <3>1. Positions(d, r) = {} /\ Positions(e, r) = {}
      BY <1>3, <1>4, <2>2 DEF KeepIs
    <3>2. -1 \in Int /\ Seen({}, {}, -1, -1 + 1) /\ Closed({}, -1)
      BY EmptySeen
    <3> QED
      BY <3>1, <3>2 DEF Sees
  <2> QED
    BY <2>1, <2>2
<1>6. Intact(d, e)
  BY <1>1, <1>3, <1>4, <1>5, IntactIf DEF KeepIs
<1> QED
  BY <1>6 DEF d, e

LEMMA NewIntact == Intact(NewCache(BaseSize, FALSE), NewCache(SwaSize, TRUE))
<1> DEFINE d == NewCache(BaseSize, FALSE)
           e == NewCache(SwaSize, TRUE)
<1>1. IsBase(d) /\ IsSwa(e)
  BY NewCaches
<1>2. Once(d) /\ Once(e) /\ \A s : Positions(d, s) = {} /\ Positions(e, s) = {}
  BY NewPositions
<1> HIDE DEF d, e
<1>3. \A r \in Seqs : \E t \in Int : Sees(d, e, r, t, t + 1) /\ Closed(Positions(e, r), t)
  <2> TAKE r \in Seqs
  <2>1. -1 \in Int /\ Seen({}, {}, -1, -1 + 1) /\ Closed({}, -1)
    BY EmptySeen
  <2> QED
    BY <1>2, <2>1 DEF Sees
<1>4. Intact(d, e)
  BY <1>1, <1>2, <1>3, IntactIf
<1> QED
  BY <1>4 DEF d, e

(* Nothing is in the windowed cache when nothing is in the base cache, and *)
(* what is left of it is it.                                               *)
LEMMA EmptyTogether ==
  ASSUME NEW b, NEW w, IsBase(b), IsSwa(w), Agree(b, w), Used(b) = {}
  PROVE  \A i \in Cells(w) : w.cells[i].seqs = {}
<1>1. \A i \in Cells(b) : b.cells[i].seqs = {}
  BY DEF IsBase, CacheOK, Used
<1>2. \A s \in Seqs : Positions(w, s) = {}
  <2> TAKE s \in Seqs
  <2>1. Positions(b, s) = {}
    BY <1>1 DEF Positions, CellsOf
  <2>2. Sees(b, w, s, SeqPosMax(w, s), SeqPosMax(w, s) + 1) /\ SeqPosMax(w, s) \in Int
    BY SwaTop DEF Agree
  <2>3. SeqPosMax(w, s) + 1 \in Int /\ SeqPosMax(w, s) + 1 <= SeqPosMax(w, s) + 1
    BY <2>2
  <2>4. Positions(w, s) \subseteq Positions(b, s)
    BY <2>2, <2>3, Tops
  <2> QED
    BY <2>1, <2>4
<1> SUFFICES ASSUME NEW i \in Cells(w), NEW s \in w.cells[i].seqs PROVE FALSE
  OBVIOUS
<1>3. s \in Seqs
  BY SwaIs
<1>4. w.cells[i].pos \in Positions(w, s)
  BY DEF Positions, CellsOf
<1> QED
  BY <1>2, <1>3, <1>4

LEMMA EmptyUndone ==
  ASSUME NEW z, NEW b, NEW d, NEW o, CacheOK(o, z, b), Undone(z, b, d, o),
         \A i \in Cells(o) : o.cells[i].seqs = {}
  PROVE  d = o
<1>1. CacheOK(d, z, b) /\ d.head = o.head /\ Part(d, o)
  BY DEF Undone
<1>2. Cells(o) = 0 .. z - 1
  BY CacheIs
<1>3. \A i \in 0 .. z - 1 : Holds(o, i, d.cells[i].pos, d.cells[i].seqs)
  <2> TAKE i \in 0 .. z - 1
  <2>1. o.cells[i].seqs = {} /\ d.cells[i].seqs \subseteq o.cells[i].seqs
    BY <1>1, <1>2 DEF Part
  <2>2. d.cells[i].seqs = {}
    BY <2>1
  <2> QED
    BY <2>1, <2>2 DEF Holds
<1>4. o.head = d.head
  BY <1>1
<1> QED
  BY <1>1, <1>3, <1>4, CachesEqual

-----------------------------------------------------------------------------
(* Slots found while preparing are placed one ubatch after the other: each *)
(* can be used in the cache that those before it have led to.              *)
PlacedInBase(c, d, u) == PlacedIn(BaseSize, FALSE, c, d, u, u.slots[1])
PlacedInSwa(c, d, u)  == PlacedIn(SwaSize, TRUE, c, d, u, u.slots[2])

BaseReady(c, todo) ==
  \E cs : cs[0] = c /\ \A j \in 1 .. Len(todo) : PlacedInBase(cs[j - 1], cs[j], todo[j])
SwaReady(c, todo) ==
  \E cs : cs[0] = c /\ \A j \in 1 .. Len(todo) : PlacedInSwa(cs[j - 1], cs[j], todo[j])

(* The ubatches continue their sequence.                                   *)
Follows(b, w, todo) ==
  todo[1].pos = SeqPosMax(w, todo[1].seq) + 1 /\ BaseReady(b, todo) /\ SwaReady(w, todo)

LEMMA PlacedBaseIs ==
  ASSUME NEW c, NEW d, NEW u, PlacedInBase(c, d, u)
  PROVE  /\ IsBase(c) /\ IsBase(d) /\ Usable(c, u, u.slots[1])
         /\ d = ApplyUbatch(c, u.slots[1], u.seq, u.pos)
BY DEF PlacedInBase, PlacedIn, IsBase

LEMMA PlacedSwaIs ==
  ASSUME NEW c, NEW d, NEW u, PlacedInSwa(c, d, u)
  PROVE  /\ IsSwa(c) /\ IsSwa(d) /\ Usable(c, u, u.slots[2])
         /\ d = ApplyUbatch(c, u.slots[2], u.seq, u.pos)
BY DEF PlacedInSwa, PlacedIn, IsSwa

LEMMA BaseFirst ==
  ASSUME NEW todo, TodoOK(todo), NEW c, BaseReady(c, todo)
  PROVE  /\ Usable(c, todo[1], todo[1].slots[1])
         /\ Len(todo) # 1 => BaseReady(ApplyUbatch(c, todo[1].slots[1], todo[1].seq, todo[1].pos), Tail(todo))
<1>1. PICK cs : cs[0] = c /\ \A j \in 1 .. Len(todo) : PlacedInBase(cs[j - 1], cs[j], todo[j])
  BY DEF BaseReady
<1>2. Len(todo) \in Nat \ {0}
  BY HeadIs
<1>3. 1 \in 1 .. Len(todo) /\ 1 - 1 = 0
  BY <1>2
<1>4. PlacedInBase(c, cs[1], todo[1])
  BY <1>1, <1>3
<1>5. Usable(c, todo[1], todo[1].slots[1]) /\ cs[1] = ApplyUbatch(c, todo[1].slots[1], todo[1].seq, todo[1].pos)
  BY <1>4, PlacedBaseIs
<1>6. ASSUME Len(todo) # 1 PROVE BaseReady(cs[1], Tail(todo))
  <2> DEFINE T == Tail(todo)
             ds == [j \in 0 .. Len(T) |-> cs[j + 1]]
  <2>1. Len(T) = Len(todo) - 1 /\ \A k \in 1 .. Len(T) : T[k] = todo[k + 1]
    BY <1>6, TailIs
  <2> HIDE DEF T
  <2>2. Len(T) \in Nat
    BY <1>2, <2>1
  <2>3. ds[0] = cs[1]
    BY <2>2
  <2>4. ASSUME NEW j \in 1 .. Len(T) PROVE PlacedInBase(ds[j - 1], ds[j], T[j])
    <3>1. j \in 0 .. Len(T) /\ j - 1 \in 0 .. Len(T) /\ (j - 1) + 1 = j /\ j + 1 \in 1 .. Len(todo) /\ (j + 1) - 1 = j
      BY <1>2, <2>1, <2>2
    <3>2. ds[j - 1] = cs[j] /\ ds[j] = cs[j + 1]
      BY <3>1
    <3>3. PlacedInBase(cs[j], cs[j + 1], todo[j + 1])
      BY <1>1, <3>1
    <3> QED
      BY <2>1, <3>2, <3>3
  <2> HIDE DEF ds
  <2>5. BaseReady(cs[1], T)
    BY <2>3, <2>4 DEF BaseReady
  <2> QED
    BY <2>5 DEF T
<1> QED
  BY <1>5, <1>6

LEMMA SwaFirst ==
  ASSUME NEW todo, TodoOK(todo), NEW c, SwaReady(c, todo)
  PROVE  /\ Usable(c, todo[1], todo[1].slots[2])
         /\ Len(todo) # 1 => SwaReady(ApplyUbatch(c, todo[1].slots[2], todo[1].seq, todo[1].pos), Tail(todo))
<1>1. PICK cs : cs[0] = c /\ \A j \in 1 .. Len(todo) : PlacedInSwa(cs[j - 1], cs[j], todo[j])
  BY DEF SwaReady
<1>2. Len(todo) \in Nat \ {0}
  BY HeadIs
<1>3. 1 \in 1 .. Len(todo) /\ 1 - 1 = 0
  BY <1>2
<1>4. PlacedInSwa(c, cs[1], todo[1])
  BY <1>1, <1>3
<1>5. Usable(c, todo[1], todo[1].slots[2]) /\ cs[1] = ApplyUbatch(c, todo[1].slots[2], todo[1].seq, todo[1].pos)
  BY <1>4, PlacedSwaIs
<1>6. ASSUME Len(todo) # 1 PROVE SwaReady(cs[1], Tail(todo))
  <2> DEFINE T == Tail(todo)
             ds == [j \in 0 .. Len(T) |-> cs[j + 1]]
  <2>1. Len(T) = Len(todo) - 1 /\ \A k \in 1 .. Len(T) : T[k] = todo[k + 1]
    BY <1>6, TailIs
  <2> HIDE DEF T
  <2>2. Len(T) \in Nat
    BY <1>2, <2>1
  <2>3. ds[0] = cs[1]
    BY <2>2
  <2>4. ASSUME NEW j \in 1 .. Len(T) PROVE PlacedInSwa(ds[j - 1], ds[j], T[j])
    <3>1. j \in 0 .. Len(T) /\ j - 1 \in 0 .. Len(T) /\ (j - 1) + 1 = j /\ j + 1 \in 1 .. Len(todo) /\ (j + 1) - 1 = j
      BY <1>2, <2>1, <2>2
    <3>2. ds[j - 1] = cs[j] /\ ds[j] = cs[j + 1]
      BY <3>1
    <3>3. PlacedInSwa(cs[j], cs[j + 1], todo[j + 1])
      BY <1>1, <3>1
    <3> QED
      BY <2>1, <3>2, <3>3
  <2> HIDE DEF ds
  <2>5. SwaReady(cs[1], T)
    BY <2>3, <2>4 DEF SwaReady
  <2> QED
    BY <2>5 DEF T
<1> QED
  BY <1>5, <1>6

LEMMA FirstFits ==
  ASSUME NEW b, NEW w, IsBase(b), IsSwa(w), NEW todo, TodoOK(todo), Follows(b, w, todo)
  PROVE  Fits(b, w, todo[1], todo[1].slots[1], todo[1].slots[2])
<1>1. Usable(b, todo[1], todo[1].slots[1]) /\ Usable(w, todo[1], todo[1].slots[2])
  BY BaseFirst, SwaFirst DEF Follows
<1>2. /\ todo[1].seq \in Seqs /\ todo[1].pos \in Nat /\ todo[1].pos + todo[1].n - 1 <= MaxPos
  BY HeadIs
<1>3. /\ Applying(b, todo[1].slots[1], todo[1].n, todo[1].seq, todo[1].pos)
      /\ Applying(w, todo[1].slots[2], todo[1].n, todo[1].seq, todo[1].pos)
  BY <1>1, <1>2 DEF Applying, Usable
<1> QED
  BY <1>1, <1>3 DEF Fits, Follows

LEMMA SamePlaced ==
  ASSUME NEW z, NEW b, NEW c, NEW d, NEW u, NEW v, NEW slot, PlacedIn(z, b, c, d, u, slot),
         v.n = u.n, v.seq = u.seq, v.pos = u.pos
  PROVE  PlacedIn(z, b, c, d, v, slot)
BY DEF PlacedIn, Usable

-----------------------------------------------------------------------------
(* What a call of decode leaves of the windowed cache when it prepares one *)
(* ubatch, or any number in an empty cache.                                *)
Kept(w, e) ==
  /\ IsSwa(e) /\ Once(e) /\ e.head = w.head /\ InSight(e) = InSight(w)
  /\ \A t \in Seqs : SeqPosMax(e, t) = SeqPosMax(w, t)

Short(b, u) == Len(u) = 1 \/ Used(b) = {}

LEMMA KeptSame == ASSUME NEW w, IsSwa(w), Once(w) PROVE Kept(w, w)
BY DEF Kept

LEMMA EmptyKept ==
  ASSUME NEW b, NEW w, IsBase(b), IsSwa(w), Agree(b, w), Used(b) = {}, NEW d, Undone(SwaSize, TRUE, d, w)
  PROVE  d = w
<1>1. \A i \in Cells(w) : w.cells[i].seqs = {}
  BY EmptyTogether
<1> QED
  BY <1>1, EmptyUndone DEF IsSwa

(* The first of the slots that were found fits both caches.                *)
LEMMA FirstFound ==
  ASSUME NEW b, NEW w, IsBase(b), IsSwa(w), NEW u, Continues(u), NEW s \in Seqs, NEW end,
         Consecutive(u, s, SeqPosMax(w, s) + 1, end), NEW p, NEW q,
         Prepared(BaseSize, FALSE, b, u, p), Prepared(SwaSize, TRUE, w, u, q), p.found, q.found
  PROVE  Fits(b, w, u[1], p.slots[1], q.slots[1])
<1>1. Len(u) \in Nat \ {0} /\ u[1].pos = SeqPosMax(w, s) + 1 /\ 1 \in 1 .. Len(u) /\ 1 - 1 = 0
  BY DEF Consecutive
<1>2. u[1].seq = s /\ u[1].n \in Nat \ {0} /\ u[1].pos \in Nat /\ u[1].pos + u[1].n - 1 <= MaxPos
  BY <1>1 DEF Consecutive, Continues
<1>3. PICK cs : cs[0] = b /\ \A j \in 1 .. Len(u) : PlacedIn(BaseSize, FALSE, cs[j - 1], cs[j], u[j], p.slots[j])
  BY DEF Prepared
<1>4. PICK ds : ds[0] = w /\ \A j \in 1 .. Len(u) : PlacedIn(SwaSize, TRUE, ds[j - 1], ds[j], u[j], q.slots[j])
  BY DEF Prepared
<1>5. PlacedIn(BaseSize, FALSE, b, cs[1], u[1], p.slots[1])
  BY <1>1, <1>3
<1>6. PlacedIn(SwaSize, TRUE, w, ds[1], u[1], q.slots[1])
  BY <1>1, <1>4
<1>7. Usable(b, u[1], p.slots[1]) /\ Usable(w, u[1], q.slots[1])
  BY <1>5, <1>6 DEF PlacedIn
<1>8. Applying(b, p.slots[1], u[1].n, u[1].seq, u[1].pos) /\ Applying(w, q.slots[1], u[1].n, u[1].seq, u[1].pos)
  BY <1>2, <1>7 DEF Applying, Usable
<1> QED
  BY <1>1, <1>2, <1>7, <1>8 DEF Fits

(* What is left of the windowed cache, and the ubatch placed in it.        *)
Leaves(b, w, u, q) ==
  /\ Kept(w, q.cache) /\ Agree(b, q.cache)
  /\ ApplyUbatch(q.cache, q.slots[1], u[1].seq, u[1].pos) = ApplyUbatch(w, q.slots[1], u[1].seq, u[1].pos)
  /\ Usable(q.cache, u[1], q.slots[1])
  /\ Len(u) # 1 => q.cache = w

LEMMA PreparedSwa ==
  ASSUME NEW b, NEW w, IsBase(b), IsSwa(w), Agree(b, w), Once(w), NEW u, Short(b, u), NEW q,
         Prepared(SwaSize, TRUE, w, u, q), q.found, NEW slot,
         Fits(b, w, u[1], slot, q.slots[1])
  PROVE  Leaves(b, w, u, q)
<1>1. Usable(w, u[1], q.slots[1]) /\ Applying(w, q.slots[1], u[1].n, u[1].seq, u[1].pos)
  BY DEF Fits
<1>2. CASE Used(b) = {}
  <2>1. Undone(SwaSize, TRUE, q.cache, w)
    BY DEF Prepared
  <2>2. q.cache = w
    BY <1>2, <2>1, EmptyKept
  <2> QED
    BY <1>1, <2>2, KeptSame DEF Leaves
<1>3. CASE Len(u) = 1
  <2>1. q.cache = Restored(w, q.slots[1], u[1])
    BY <1>3 DEF Prepared, Restored
  <2> DEFINE e == q.cache
             slot2 == q.slots[1]
             v == u[1]
  <2>2. /\ Usable(w, v, slot2) /\ Applying(w, slot2, v.n, v.seq, v.pos)
        /\ e = Restored(w, slot2, v)
    BY <1>1, <2>1
  <2> HIDE DEF e, slot2, v
  <2>3. /\ IsSwa(e) /\ Once(e) /\ Agree(b, e) /\ Usable(e, v, slot2)
        /\ \A t \in Seqs : SeqPosMax(e, t) = SeqPosMax(w, t)
        /\ ApplyUbatch(e, slot2, v.seq, v.pos) = ApplyUbatch(w, slot2, v.seq, v.pos)
        /\ e.head = w.head /\ InSight(e) = InSight(w)
    BY <2>2, RestoredAgrees
  <2>4. Kept(w, e)
    BY <2>3 DEF Kept
  <2> QED
    BY <1>3, <2>3, <2>4 DEF e, slot2, v, Leaves
<1> QED
  BY <1>2, <1>3 DEF Short

LEMMA FilledIs ==
  ASSUME NEW s, NEW u, Len(u) \in Nat, \A k \in 1 .. Len(u) : u[k].seq = s, NEW x, NEW y,
         NEW T, T = Filled(s, u, <<x, y>>)
  PROVE  /\ Len(T) = Len(u)
         /\ \A k \in 1 .. Len(u) : /\ T[k].seq = u[k].seq /\ T[k].pos = u[k].pos /\ T[k].n = u[k].n
                                   /\ T[k].slots[1] = x[k] /\ T[k].slots[2] = y[k]
<1>1. <<x, y>>[1] = x /\ <<x, y>>[2] = y
  OBVIOUS
<1>2. T = [k \in 1 .. Len(u) |-> [seq |-> s, pos |-> u[k].pos, n |-> u[k].n, slots |-> <<x[k], y[k]>>]]
  BY <1>1 DEF Filled
<1>3. Len(T) = Len(u)
  BY <1>2
<1>4. ASSUME NEW k \in 1 .. Len(u)
      PROVE  /\ T[k].seq = u[k].seq /\ T[k].pos = u[k].pos /\ T[k].n = u[k].n
             /\ T[k].slots[1] = x[k] /\ T[k].slots[2] = y[k]
  <2>1. T[k] = [seq |-> s, pos |-> u[k].pos, n |-> u[k].n, slots |-> <<x[k], y[k]>>]
    BY <1>2
  <2> QED
    BY <2>1
<1> QED
  BY <1>3, <1>4

LEMMA PreparedFollows ==
  ASSUME NEW b, NEW w, IsBase(b), IsSwa(w), Agree(b, w), Once(w),
         NEW u, Continues(u), Short(b, u), NEW s \in Seqs, NEW end,
         Consecutive(u, s, SeqPosMax(w, s) + 1, end), NEW p, NEW q,
         Prepared(BaseSize, FALSE, b, u, p), Prepared(SwaSize, TRUE, w, u, q), p.found, q.found
  PROVE  Follows(b, q.cache, Filled(s, u, <<p.slots, q.slots>>))
<1> DEFINE T == Filled(s, u, <<p.slots, q.slots>>)
           e == q.cache
<1>1. /\ Len(u) \in Nat \ {0} /\ u[1].pos = SeqPosMax(w, s) + 1 /\ 1 \in 1 .. Len(u) /\ 1 - 1 = 0
      /\ \A k \in 1 .. Len(u) : u[k].seq = s
  BY DEF Consecutive
<1>2. /\ Len(T) = Len(u)
      /\ \A k \in 1 .. Len(u) : /\ T[k].seq = u[k].seq /\ T[k].pos = u[k].pos /\ T[k].n = u[k].n
                                /\ T[k].slots[1] = p.slots[k] /\ T[k].slots[2] = q.slots[k]
  BY <1>1, FilledIs
<1>3. Fits(b, w, u[1], p.slots[1], q.slots[1])
  BY FirstFound
<1>4. /\ Kept(w, e)
      /\ ApplyUbatch(e, q.slots[1], u[1].seq, u[1].pos) = ApplyUbatch(w, q.slots[1], u[1].seq, u[1].pos)
      /\ Usable(e, u[1], q.slots[1])
      /\ Len(u) # 1 => e = w
  <2>1. Leaves(b, w, u, q)
    BY <1>3, PreparedSwa
  <2> QED
    BY <2>1 DEF Leaves
<1> HIDE DEF T, e
<1>5. T[1].pos = SeqPosMax(e, T[1].seq) + 1
  <2>1. T[1].pos = u[1].pos /\ T[1].seq = s
    BY <1>1, <1>2
  <2>2. SeqPosMax(e, s) = SeqPosMax(w, s)
    BY <1>4 DEF Kept
  <2> QED
    BY <1>1, <2>1, <2>2
<1>6. BaseReady(b, T)
  <2>1. PICK cs : cs[0] = b /\ \A j \in 1 .. Len(u) : PlacedIn(BaseSize, FALSE, cs[j - 1], cs[j], u[j], p.slots[j])
    BY DEF Prepared
  <2>2. ASSUME NEW j \in 1 .. Len(T) PROVE PlacedInBase(cs[j - 1], cs[j], T[j])
    <3>1. PlacedIn(BaseSize, FALSE, cs[j - 1], cs[j], u[j], p.slots[j])
      BY <1>2, <2>1
    <3>2. T[j].seq = u[j].seq /\ T[j].pos = u[j].pos /\ T[j].n = u[j].n /\ T[j].slots[1] = p.slots[j]
      BY <1>2
    <3>3. PlacedIn(BaseSize, FALSE, cs[j - 1], cs[j], T[j], p.slots[j])
      BY <3>1, <3>2, SamePlaced
    <3> QED
      BY <3>2, <3>3 DEF PlacedInBase
  <2> QED
    BY <2>1, <2>2 DEF BaseReady
<1>7. SwaReady(e, T)
  <2>1. PICK cs : cs[0] = w /\ \A j \in 1 .. Len(u) : PlacedIn(SwaSize, TRUE, cs[j - 1], cs[j], u[j], q.slots[j])
    BY DEF Prepared
  <2>2. ASSUME NEW j \in 1 .. Len(T), NEW c, PlacedIn(SwaSize, TRUE, c, cs[j], u[j], q.slots[j])
        PROVE  PlacedInSwa(c, cs[j], T[j])
    <3>1. T[j].seq = u[j].seq /\ T[j].pos = u[j].pos /\ T[j].n = u[j].n /\ T[j].slots[2] = q.slots[j]
      BY <1>2
    <3>2. PlacedIn(SwaSize, TRUE, c, cs[j], T[j], q.slots[j])
      BY <2>2, <3>1, SamePlaced
    <3> QED
      BY <3>1, <3>2 DEF PlacedInSwa
  <2>3. CASE e = w
    <3>1. \A j \in 1 .. Len(T) : PlacedInSwa(cs[j - 1], cs[j], T[j])
      BY <1>2, <2>1, <2>2
    <3> QED
      BY <2>1, <2>3, <3>1 DEF SwaReady
  <2>4. CASE Len(u) = 1
    <3>1. PlacedIn(SwaSize, TRUE, w, cs[1], u[1], q.slots[1])
      BY <1>1, <2>1
    <3>2. PlacedIn(SwaSize, TRUE, e, cs[1], u[1], q.slots[1])
      <4>1. CacheOK(e, SwaSize, TRUE)
        BY <1>4 DEF Kept, IsSwa
      <4> QED
        BY <1>4, <3>1, <4>1 DEF PlacedIn
    <3>3. PlacedInSwa(e, cs[1], T[1])
      BY <1>1, <1>2, <2>2, <3>2
    <3> DEFINE ds == [j \in 0 .. 1 |-> IF j = 0 THEN e ELSE cs[1]]
    <3>4. ds[0] = e /\ ds[1] = cs[1]
      OBVIOUS
    <3> HIDE DEF ds
    <3>5. \A j \in 1 .. Len(T) : PlacedInSwa(ds[j - 1], ds[j], T[j])
      <4> TAKE j \in 1 .. Len(T)
      <4>1. j = 1 /\ j - 1 = 0
        BY <1>2, <2>4
      <4> QED
        BY <3>3, <3>4, <4>1
    <3> QED
      BY <3>4, <3>5 DEF SwaReady
  <2> QED
    BY <1>4, <2>3, <2>4
<1> QED
  BY <1>5, <1>6, <1>7 DEF Follows, T, e

(* Placing the first ubatch in what is left leaves no gap, if there was    *)
(* none.                                                                   *)
LEMMA PreparedClosed ==
  ASSUME NEW b, NEW w, IsBase(b), IsSwa(w), Agree(b, w), Once(b), Once(w), AllClosed(w),
         NEW u, Continues(u), Short(b, u), NEW s \in Seqs, NEW end,
         Consecutive(u, s, SeqPosMax(w, s) + 1, end), NEW p, NEW q,
         Prepared(BaseSize, FALSE, b, u, p), Prepared(SwaSize, TRUE, w, u, q), p.found, q.found
  PROVE  AllClosed(ApplyUbatch(q.cache, q.slots[1], u[1].seq, u[1].pos))
<1>1. Fits(b, w, u[1], p.slots[1], q.slots[1])
  BY FirstFound
<1>2. ApplyUbatch(q.cache, q.slots[1], u[1].seq, u[1].pos) = ApplyUbatch(w, q.slots[1], u[1].seq, u[1].pos)
  <2>1. Leaves(b, w, u, q)
    BY <1>1, PreparedSwa
  <2> QED
    BY <2>1 DEF Leaves
<1> DEFINE d == ApplyUbatch(b, p.slots[1], u[1].seq, u[1].pos)
           e == ApplyUbatch(w, q.slots[1], u[1].seq, u[1].pos)
           v == u[1]
           slot1 == p.slots[1]
           slot2 == q.slots[1]
<1>3. /\ Fits(b, w, v, slot1, slot2)
      /\ d = ApplyUbatch(b, slot1, v.seq, v.pos) /\ e = ApplyUbatch(w, slot2, v.seq, v.pos)
  BY <1>1
<1> HIDE DEF d, e, v, slot1, slot2
<1>4. AllClosed(e)
  BY <1>3, PutAgrees
<1> QED
  BY <1>2, <1>4 DEF e

(* What decode does to caches in which every sequence has what it looks    *)
(* at: the base cache is what it was, the windowed one is up to what was   *)
(* masked, and the ubatches can be placed.                                 *)
Accomplished(b, w, e, c) ==
  /\ Kept(w, e) /\ Agree(b, e)
  /\ c.pc = "prepared" =>
       /\ Follows(b, e, c.todo)
       /\ AllClosed(w) =>
            AllClosed(ApplyUbatch(e, c.todo[1].slots[2], c.todo[1].seq, c.todo[1].pos))

LEMMA DecodeAgrees ==
  ASSUME IInv, Agree(base, swa), Once(base), Once(swa), NEW s \in Seqs, NEW n \in Submitted,
         Decode(s, n), n <= UBatch \/ Used(base) = {}
  PROVE  base' = base /\ Accomplished(base, swa, swa', call')
<1>1. IsBase(base) /\ IsSwa(swa)
  BY DEF IInv
<1>2. PICK u, r : Decoded(s, n, u, r)
  BY <1>1, DecodeDoes
<1> DEFINE end == SeqPosMax(swa, s) + 1 + n
<1>3. /\ Continues(u) /\ Consecutive(u, s, SeqPosMax(swa, s) + 1, end) /\ Short(base, u)
      /\ Tried(base, swa, u, r)
      /\ base' = r.base /\ swa' = r.swa
      /\ call' = IF r.refused = "no" THEN [pc |-> "prepared", todo |-> Filled(s, u, r.slots), refused |-> "no"]
                 ELSE [pc |-> "idle", todo |-> <<>>, refused |-> r.refused]
  BY <1>2 DEF Decoded, Short
<1> HIDE DEF end
<1>4. r.base = base /\ Undone(SwaSize, TRUE, r.swa, swa)
  BY <1>3 DEF Tried
<1>5. CASE r.refused # "no"
  <2>1. r.swa = swa
    <3>1. CASE Len(u) = 1
      BY <1>3, <1>5, <3>1 DEF Tried
    <3>2. CASE Used(base) = {}
      BY <1>1, <1>4, <3>2, EmptyKept
    <3> QED
      BY <1>3, <3>1, <3>2 DEF Short
  <2>2. call'.pc = "idle"
    BY <1>3, <1>5
  <2>3. Kept(swa, swa)
    BY <1>1, KeptSame
  <2> QED
    BY <1>3, <1>4, <2>1, <2>2, <2>3 DEF Accomplished
<1>6. CASE r.refused = "no"
  <2>1. PICK o : Undone(SwaSize, TRUE, o, swa) /\ Accepted(base, o, u, r) /\ (Len(u) = 1 => o = swa)
    BY <1>3, <1>6 DEF Tried
  <2>2. o = swa
    <3>1. CASE Used(base) = {}
      BY <1>1, <2>1, <3>1, EmptyKept
    <3> QED
      BY <1>3, <2>1, <3>1 DEF Short
  <2>3. PICK p, q :
          /\ Prepared(BaseSize, FALSE, base, u, p) /\ Prepared(SwaSize, TRUE, swa, u, q)
          /\ p.found /\ q.found
          /\ r.base = p.cache /\ r.swa = q.cache /\ r.slots = <<p.slots, q.slots>>
    BY <2>1, <2>2 DEF Accepted
  <2> DEFINE T == Filled(s, u, <<p.slots, q.slots>>)
  <2>4. call'.pc = "prepared" /\ call'.todo = T
    BY <1>3, <1>6, <2>3
  <2>5. /\ Len(u) \in Nat /\ 1 \in 1 .. Len(u) /\ \A k \in 1 .. Len(u) : u[k].seq = s
    BY <1>3 DEF Consecutive
  <2>6. /\ \A k \in 1 .. Len(u) : /\ T[k].seq = u[k].seq /\ T[k].pos = u[k].pos /\ T[k].n = u[k].n
                                  /\ T[k].slots[1] = p.slots[k] /\ T[k].slots[2] = q.slots[k]
    BY <2>5, FilledIs
  <2>7. T[1].seq = u[1].seq /\ T[1].pos = u[1].pos /\ T[1].slots[2] = q.slots[1]
    BY <2>5, <2>6
  <2>8. Follows(base, q.cache, T)
    BY <1>1, <1>3, <2>3, PreparedFollows
  <2>9. Fits(base, swa, u[1], p.slots[1], q.slots[1])
    BY <1>1, <1>3, <2>3, FirstFound
  <2>10. Leaves(base, swa, u, q)
    BY <1>1, <1>3, <2>3, <2>9, PreparedSwa
  <2>11. AllClosed(swa) => AllClosed(ApplyUbatch(q.cache, q.slots[1], u[1].seq, u[1].pos))
    BY <1>1, <1>3, <2>3, PreparedClosed
  <2> HIDE DEF T
  <2>12. swa' = q.cache
    BY <1>3, <2>3
  <2> QED
    BY <1>3, <1>4, <2>4, <2>7, <2>8, <2>10, <2>11, <2>12 DEF Accomplished, Leaves
<1> QED
  BY <1>5, <1>6

-----------------------------------------------------------------------------
(* The invariant of MCSpec: every sequence finds what it looks at, the     *)
(* slots that were found fit, and while edits are allowed no sequence has  *)
(* a gap, once the ubatch that was prepared is placed.                     *)
Waiting == call.pc \in {"prepared", "place"} => Follows(base, swa, call.todo)

Computing ==
  call.pc = "compute" =>
    /\ Sees(base, swa, Ubatch.seq, Ubatch.pos + Ubatch.n - 1, Ubatch.pos)
    /\ Len(call.todo) # 1 => BaseReady(base, Tail(call.todo)) /\ SwaReady(swa, Tail(call.todo))

NoGaps ==
  edits < MaxEdits =>
    AllClosed(IF call.pc = "prepared" THEN ApplyUbatch(swa, Ubatch.slots[2], Ubatch.seq, Ubatch.pos)
              ELSE swa)

Coherent ==
  /\ IInv /\ Once(base) /\ Once(swa) /\ Agree(base, swa)
  /\ Waiting /\ Computing /\ NoGaps

LEMMA CoherentIdle ==
  ASSUME IInv', call'.pc = "idle", Once(base'), Once(swa'), Agree(base', swa'),
         edits' < MaxEdits => AllClosed(swa')
  PROVE  Coherent'
<1>1. Once(base)' /\ Once(swa)' /\ Agree(base, swa)'
  BY DEF Once, Agree, Sees
<1>2. Waiting' /\ Computing'
  BY DEF Waiting, Computing
<1>3. NoGaps'
  BY DEF NoGaps, AllClosed
<1> QED
  BY <1>1, <1>2, <1>3 DEF Coherent

LEMMA IntactIdle ==
  ASSUME IInv', call'.pc = "idle", Intact(base', swa')
  PROVE  Coherent'
BY CoherentIdle DEF Intact

LEMMA MCInitCoherent == MCInit => Coherent
<1> SUFFICES ASSUME MCInit PROVE Coherent
  OBVIOUS
<1>1. Init /\ IInv /\ call.pc = "idle"
  BY InitOK, IdleIs DEF MCInit, Init
<1>2. Intact(base, swa)
  BY <1>1, NewIntact DEF Init
<1> QED
  BY <1>1, <1>2 DEF Coherent, Intact, Waiting, Computing, NoGaps

LEMMA MCClearCoherent == ASSUME MCClear PROVE Coherent'
<1>1. Clear /\ IInv' /\ call'.pc = "idle"
  BY ClearOK, IdleIs DEF MCClear, Clear
<1>2. base' = NewCache(BaseSize, FALSE) /\ swa' = NewCache(SwaSize, TRUE)
  BY <1>1 DEF Clear
<1>3. Intact(base', swa')
  BY <1>2, NewIntact
<1> QED
  BY <1>1, <1>3, IntactIdle

LEMMA EditCoherent == ASSUME Coherent, Edit(Cut \/ ShareOrKeep) PROVE Coherent'
<1>1. edits < MaxEdits /\ (Cut \/ ShareOrKeep) /\ IInv
  BY DEF Edit, Coherent
<1>2. call.pc = "idle" /\ call' = Idle
  BY <1>1 DEF Cut, ShareOrKeep, CutSequence, ShareSequence, KeepSequence, Edits
<1>3. IInv' /\ call'.pc = "idle"
  BY <1>1, <1>2, EditOK, IdleIs DEF Cut, ShareOrKeep
<1>4. Intact(base, swa)
  BY <1>1, <1>2 DEF Coherent, NoGaps, Intact, IInv
<1>5. Intact(base', swa')
  <2>1. ASSUME NEW s \in Seqs, NEW p \in 0 .. MaxPos, CutSequence(s, p) PROVE Intact(base', swa')
    <3>1. p \in Nat
      BY Sizes
    <3>2. /\ p <= SeqPosMax(swa, s)
          /\ p = 0 \/ SeqPosMin(swa, s) <= (IF p < Window THEN 0 ELSE p - Window + 1)
          /\ base' = SeqRm(base, s, p) /\ swa' = SeqRm(swa, s, p)
      BY <2>1 DEF CutSequence, MayCut, Edits
    <3> QED
      BY <1>4, <3>1, <3>2, CutAgrees
  <2>2. ASSUME NEW s \in Seqs, NEW t \in Seqs \ {s}, ShareSequence(s, t) PROVE Intact(base', swa')
    <3>1. Positions(base, t) = {} /\ base' = SeqCp(base, s, t) /\ swa' = SeqCp(swa, s, t)
      BY <2>2 DEF ShareSequence, Edits
    <3> QED
      BY <1>4, <3>1, ShareAgrees
  <2>3. ASSUME NEW s \in Seqs, KeepSequence(s) PROVE Intact(base', swa')
    <3>1. base' = SeqKeep(base, s) /\ swa' = SeqKeep(swa, s)
      BY <2>3 DEF KeepSequence, Edits
    <3> QED
      BY <1>4, <3>1, KeepAgrees
  <2> QED
    BY <1>1, <2>1, <2>2, <2>3 DEF Cut, ShareOrKeep
<1> QED
  BY <1>3, <1>5, IntactIdle

LEMMA DecodeCoherent ==
  ASSUME Coherent, NEW s \in Seqs, NEW n \in Submitted, n <= UBatch \/ Used(base) = {}, Decode(s, n),
         edits' = IF call'.refused = "no" THEN edits ELSE MaxEdits
  PROVE  Coherent'
<1>1. IInv /\ Agree(base, swa) /\ Once(base) /\ Once(swa) /\ call.pc = "idle"
  BY DEF Coherent, Decode
<1>2. IInv'
  BY <1>1, DecodeOK
<1>3. base' = base /\ Accomplished(base, swa, swa', call')
  BY <1>1, DecodeAgrees
<1>4. Once(base') /\ Once(swa') /\ Agree(base', swa')
  BY <1>1, <1>3 DEF Accomplished, Kept
<1>5. call'.pc = "prepared" \/ (call'.pc = "idle" /\ call'.refused # "no")
  <2>1. IsBase(base) /\ IsSwa(swa)
    BY <1>1 DEF IInv
  <2>2. PICK u, r : Decoded(s, n, u, r)
    BY <2>1, DecodeDoes
  <2>3. call' = IF r.refused = "no" THEN [pc |-> "prepared", todo |-> Filled(s, u, r.slots), refused |-> "no"]
                ELSE [pc |-> "idle", todo |-> <<>>, refused |-> r.refused]
    BY <2>2 DEF Decoded
  <2> QED
    BY <2>3
<1>6. CASE call'.pc = "idle" /\ call'.refused # "no"
  <2>1. ~(edits' < MaxEdits)
    BY <1>6, EditsAssumption
  <2> QED
    BY <1>2, <1>4, <1>6, <2>1, CoherentIdle
<1>7. CASE call'.pc = "prepared"
  <2>1. Follows(base', swa', call'.todo)
    BY <1>3, <1>7 DEF Accomplished
  <2>2. ASSUME edits' < MaxEdits
        PROVE  AllClosed(ApplyUbatch(swa', call'.todo[1].slots[2], call'.todo[1].seq, call'.todo[1].pos))
    <3>1. edits < MaxEdits
      BY <2>2, EditsAssumption
    <3>2. AllClosed(swa)
      BY <1>1, <3>1 DEF Coherent, NoGaps
    <3> QED
      BY <1>3, <1>7, <3>2 DEF Accomplished
  <2>3. Ubatch' = call'.todo[1]
    <3>1. TodoOK(call'.todo)
      BY <1>2, <1>7 DEF IInv, CallOK
    <3> QED
      BY <3>1, HeadIs DEF Ubatch
  <2>4. Waiting'
    BY <2>1 DEF Waiting, Follows, BaseReady, SwaReady, PlacedInBase, PlacedInSwa
  <2>5. Computing'
    BY <1>7 DEF Computing
  <2>6. NoGaps'
    <3> SUFFICES ASSUME edits' < MaxEdits
                 PROVE  AllClosed(ApplyUbatch(swa, Ubatch.slots[2], Ubatch.seq, Ubatch.pos))'
      BY <1>7 DEF NoGaps
    <3> QED
      BY <2>2, <2>3
  <2> QED
    BY <1>2, <1>4, <2>4, <2>5, <2>6 DEF Coherent
<1> QED
  BY <1>5, <1>6, <1>7

LEMMA ApplyCoherent == ASSUME Coherent, Apply, UNCHANGED edits PROVE Coherent'
<1>1. IInv /\ IInv' /\ Agree(base, swa) /\ Once(base) /\ Once(swa) /\ IsBase(base) /\ IsSwa(swa)
  BY ApplyOK DEF Coherent, IInv
<1>2. call.pc \in {"prepared", "place"} /\ call.pc # "idle"
  BY DEF Apply
<1>3. TodoOK(call.todo) /\ Ubatch = call.todo[1] /\ Follows(base, swa, call.todo)
  BY <1>1, <1>2, AtHand DEF Coherent, Waiting
<1>4. /\ base' = ApplyUbatch(base, Ubatch.slots[1], Ubatch.seq, Ubatch.pos)
      /\ swa' = ApplyUbatch(swa, Ubatch.slots[2], Ubatch.seq, Ubatch.pos)
      /\ call' = [call EXCEPT !.pc = "compute"]
  BY DEF Apply
<1>5. call'.pc = "compute" /\ call'.todo = call.todo /\ Ubatch' = Ubatch
  BY <1>1, <1>4 DEF IInv, CallOK, Ubatch
<1>6. Fits(base, swa, Ubatch, Ubatch.slots[1], Ubatch.slots[2])
  BY <1>1, <1>3, FirstFits
<1>7. PICK u : u = Ubatch
  OBVIOUS
<1>8. /\ Once(base') /\ Once(swa') /\ Agree(base', swa')
      /\ Sees(base', swa', u.seq, u.pos + u.n - 1, u.pos)
      /\ AllClosed(swa) => AllClosed(swa')
  <2>1. PICK slot1, slot2 : slot1 = Ubatch.slots[1] /\ slot2 = Ubatch.slots[2]
    OBVIOUS
  <2>2. /\ Fits(base, swa, u, slot1, slot2)
        /\ base' = ApplyUbatch(base, slot1, u.seq, u.pos) /\ swa' = ApplyUbatch(swa, slot2, u.seq, u.pos)
    BY <1>4, <1>6, <1>7, <2>1
  <2> QED
    BY <1>1, <2>2, PutAgrees
<1>9. Len(call.todo) # 1 => BaseReady(base', Tail(call.todo)) /\ SwaReady(swa', Tail(call.todo))
  <2>1. Len(call.todo) # 1 => BaseReady(base', Tail(call.todo))
    BY <1>3, <1>4, BaseFirst DEF Follows
  <2>2. Len(call.todo) # 1 => SwaReady(swa', Tail(call.todo))
    BY <1>3, <1>4, SwaFirst DEF Follows
  <2> QED
    BY <2>1, <2>2
<1>10. Waiting'
  BY <1>5 DEF Waiting
<1>11. Computing'
  BY <1>5, <1>7, <1>8, <1>9 DEF Computing, Sees, BaseReady, SwaReady, PlacedInBase, PlacedInSwa
<1>12. NoGaps'
  <2>1. edits < MaxEdits => AllClosed(swa')
    <3>1. CASE call.pc = "prepared"
      BY <1>4, <3>1 DEF Coherent, NoGaps
    <3>2. CASE call.pc # "prepared"
      BY <1>8, <3>2 DEF Coherent, NoGaps
    <3> QED
      BY <3>1, <3>2
  <2> QED
    BY <1>5, <2>1 DEF NoGaps, AllClosed
<1>13. Once(base)' /\ Once(swa)' /\ Agree(base, swa)'
  BY <1>8 DEF Once, Agree, Sees
<1> QED
  BY <1>1, <1>10, <1>11, <1>12, <1>13 DEF Coherent

LEMMA ComputedCoherent == ASSUME Coherent, Computed, UNCHANGED edits PROVE Coherent'
<1>1. IInv /\ IInv' /\ Agree(base, swa) /\ Once(base) /\ Once(swa) /\ IsBase(base) /\ IsSwa(swa)
  BY ComputedOK DEF Coherent, IInv
<1>2. call.pc = "compute" /\ call.pc # "idle" /\ base' = base /\ swa' = swa
  BY DEF Computed
<1>3. TodoOK(call.todo) /\ Ubatch = call.todo[1]
  BY <1>1, <1>2, AtHand
<1>4. Once(base') /\ Once(swa') /\ Agree(base', swa')
  BY <1>1, <1>2
<1>5. edits' < MaxEdits => AllClosed(swa')
  BY <1>2 DEF Coherent, NoGaps
<1>6. CASE Len(call.todo) = 1
  <2>1. call'.pc = "idle"
    BY <1>6, IdleIs DEF Computed
  <2> QED
    BY <1>1, <1>4, <1>5, <2>1, CoherentIdle
<1>7. CASE Len(call.todo) # 1
  <2> DEFINE T == Tail(call.todo)
  <2>1. call'.pc = "place" /\ call'.todo = T
    BY <1>7 DEF Computed, Coherent, IInv, CallOK
  <2>2. BaseReady(base, T) /\ SwaReady(swa, T) /\ Sees(base, swa, Ubatch.seq, Ubatch.pos + Ubatch.n - 1, Ubatch.pos)
    BY <1>2, <1>7 DEF Coherent, Computing
  <2>3. T[1].seq = Ubatch.seq /\ T[1].pos = Ubatch.pos + Ubatch.n
    BY <1>3, <1>7, TailIs
  <2>4. Ubatch.pos \in Nat /\ Ubatch.n \in Nat \ {0}
    BY <1>3, HeadIs
  <2>5. SeqPosMax(swa, Ubatch.seq) = Ubatch.pos + Ubatch.n - 1
    <3>1. PICK t, a : t = Ubatch.pos + Ubatch.n - 1 /\ a = Ubatch.pos
      OBVIOUS
    <3>2. a \in Int /\ a <= t + 1
      BY <2>4, <3>1
    <3>3. Sees(base, swa, Ubatch.seq, t, a)
      BY <2>2, <3>1
    <3>4. SeqPosMax(swa, Ubatch.seq) = t
      BY <1>1, <3>2, <3>3, Tops
    <3> QED
      BY <3>1, <3>4
  <2> HIDE DEF T
  <2>6. T[1].pos = SeqPosMax(swa, T[1].seq) + 1
    BY <2>3, <2>4, <2>5
  <2>7. Follows(base', swa', call'.todo)
    BY <1>2, <2>1, <2>2, <2>6 DEF Follows
  <2>8. Waiting'
    BY <2>7 DEF Waiting, Follows, BaseReady, SwaReady, PlacedInBase, PlacedInSwa
  <2>9. Computing'
    BY <2>1 DEF Computing
  <2>10. NoGaps'
    BY <1>5, <2>1 DEF NoGaps, AllClosed
  <2>11. Once(base)' /\ Once(swa)' /\ Agree(base, swa)'
    BY <1>4 DEF Once, Agree, Sees
  <2> QED
    BY <1>1, <2>8, <2>9, <2>10, <2>11 DEF Coherent
<1> QED
  BY <1>6, <1>7

LEMMA OutputsFailCoherent == ASSUME Coherent, OutputsFail, edits' = MaxEdits PROVE Coherent'
<1>1. IInv' /\ call'.pc = "idle" /\ base' = base /\ swa' = swa
  BY OutputsFailOK, IdleIs DEF OutputsFail, Coherent
<1>2. ~(edits' < MaxEdits)
  BY EditsAssumption
<1> QED
  BY <1>1, <1>2, CoherentIdle DEF Coherent

(* The positions of the ubatch are removed, and what the tokens before it  *)
(* look at is still there.                                                 *)
LEMMA SeenBefore ==
  ASSUME NEW B, NEW W, NEW t, NEW p \in Nat, p <= t + 1, Seen(B, W, t, p)
  PROVE  Seen({q \in B : q < p}, {q \in W : q < p}, p - 1, (p - 1) + 1)
<1> DEFINE C == {q \in B : q < p}
           X == {q \in W : q < p}
<1>1. t \in -1 .. MaxPos /\ B = 0 .. t /\ W \subseteq 0 .. t /\ \A q \in 0 .. t : p - q < Window => q \in W
  BY DEF Seen
<1>2. t \in Int /\ t <= MaxPos /\ p - 1 \in -1 .. MaxPos
  BY <1>1, Sizes
<1>3. C = 0 .. p - 1
  BY <1>1, <1>2
<1>4. X \subseteq 0 .. p - 1
  <2> SUFFICES ASSUME NEW q \in X PROVE q \in 0 .. p - 1
    OBVIOUS
  <2>1. q \in 0 .. t /\ q < p
    BY <1>1
  <2> QED
    BY <2>1
<1>5. \A q \in 0 .. p - 1 : ((p - 1) + 1) - q < Window => q \in X
  BY <1>1, <1>2, Sizes
<1> HIDE DEF C, X
<1>6. Seen(C, X, p - 1, (p - 1) + 1)
  BY <1>2, <1>3, <1>4, <1>5 DEF Seen
<1> QED
  BY <1>6 DEF C, X

LEMMA RemovedAgrees ==
  ASSUME NEW b, NEW w, IsBase(b), IsSwa(w), Once(b), Once(w), Agree(b, w), NEW s \in Seqs,
         NEW t, NEW p \in Nat, p <= t + 1, Sees(b, w, s, t, p),
         NEW d, d = SeqRm(b, s, p), NEW e, e = SeqRm(w, s, p)
  PROVE  Once(d) /\ Once(e) /\ Agree(d, e)
<1>1. IsBase(d) /\ RmIs(b, d, s, p)
  BY RmBase
<1>2. IsSwa(e) /\ RmIs(w, e, s, p)
  BY RmSwa
<1>3. \A r \in Seqs : \E x \in Int : Sees(d, e, r, x, x + 1)
  <2> TAKE r \in Seqs
  <2>1. CASE r = s
    <3>1. Positions(d, r) = {q \in Positions(b, s) : q < p} /\ Positions(e, r) = {q \in Positions(w, s) : q < p}
      BY <1>1, <1>2, <2>1 DEF RmIs
    <3>2. Seen({q \in Positions(b, s) : q < p}, {q \in Positions(w, s) : q < p}, p - 1, (p - 1) + 1)
      BY SeenBefore DEF Sees
    <3>3. p - 1 \in Int
      OBVIOUS
    <3> QED
      BY <3>1, <3>2, <3>3 DEF Sees
  <2>2. CASE r # s
    <3>1. Positions(d, r) = Positions(b, r) /\ Positions(e, r) = Positions(w, r)
      BY <1>1, <1>2, <2>2 DEF RmIs
    <3>2. Sees(b, w, r, SeqPosMax(w, r), SeqPosMax(w, r) + 1) /\ SeqPosMax(w, r) \in Int
      BY SwaTop DEF Agree
    <3> QED
      BY <3>1, <3>2 DEF Sees
  <2> QED
    BY <2>1, <2>2
<1> QED
  BY <1>1, <1>2, <1>3, AgreeIf DEF RmIs

LEMMA ComputeFailsCoherent == ASSUME Coherent, ComputeFails, edits' = MaxEdits PROVE Coherent'
<1>1. IInv /\ IInv' /\ Agree(base, swa) /\ Once(base) /\ Once(swa) /\ IsBase(base) /\ IsSwa(swa)
  BY ComputeFailsOK DEF Coherent, IInv
<1>2. call.pc = "compute" /\ call.pc # "idle"
  BY DEF ComputeFails
<1>3. call'.pc = "idle" /\ base' = SeqRm(base, Ubatch.seq, Ubatch.pos) /\ swa' = SeqRm(swa, Ubatch.seq, Ubatch.pos)
  BY IdleIs DEF ComputeFails, Removes
<1>4. PICK s, p, t : s = Ubatch.seq /\ p = Ubatch.pos /\ t = Ubatch.pos + Ubatch.n - 1
  OBVIOUS
<1>5. s \in Seqs /\ p \in Nat /\ p <= t + 1
  <2>1. Ubatch.seq \in Seqs /\ Ubatch.pos \in Nat /\ Ubatch.n \in Nat \ {0}
    BY <1>1, <1>2, AtHand DEF Applying
  <2> QED
    BY <1>4, <2>1
<1>6. Sees(base, swa, s, t, p)
  BY <1>2, <1>4 DEF Coherent, Computing
<1>7. Once(base') /\ Once(swa') /\ Agree(base', swa')
  BY <1>1, <1>3, <1>4, <1>5, <1>6, RemovedAgrees
<1>8. ~(edits' < MaxEdits)
  BY EditsAssumption
<1> QED
  BY <1>1, <1>3, <1>7, <1>8, CoherentIdle

LEMMA CallCoherent == ASSUME Coherent, Call(Used(base) # {}) PROVE Coherent'
<1>1. ASSUME NEW s \in Seqs, NEW n \in Submitted, Used(base) # {} => n <= UBatch, Decode(s, n),
             edits' = IF call'.refused = "no" THEN edits ELSE MaxEdits
      PROVE  Coherent'
  BY <1>1, DecodeCoherent
<1>2. ASSUME Apply \/ Computed, UNCHANGED edits PROVE Coherent'
  BY <1>2, ApplyCoherent, ComputedCoherent
<1>3. ASSUME OutputsFail \/ ComputeFails, edits' = MaxEdits PROVE Coherent'
  BY <1>3, OutputsFailCoherent, ComputeFailsCoherent
<1> QED
  BY <1>1, <1>2, <1>3 DEF Call

LEMMA CoherentUnchanged == ASSUME Coherent, UNCHANGED <<vars, edits>> PROVE Coherent'
<1>1. base' = base /\ swa' = swa /\ call' = call /\ edits' = edits /\ UNCHANGED vars
  BY DEF vars
<1>2. IInv'
  BY <1>1, UnchangedOK DEF Coherent
<1>3. Once(base)' /\ Once(swa)' /\ Agree(base, swa)'
  BY <1>1 DEF Coherent, Once, Agree, Sees
<1>4. Waiting' /\ Computing'
  BY <1>1 DEF Coherent, Waiting, Computing, Ubatch, Follows, BaseReady, SwaReady, PlacedInBase, PlacedInSwa, Sees
<1>5. NoGaps'
  BY <1>1 DEF Coherent, NoGaps, Ubatch, AllClosed
<1> QED
  BY <1>2, <1>3, <1>4, <1>5 DEF Coherent

LEMMA CoherentInvariance == MCSpec => []Coherent
<1>1. Coherent /\ [MCNext]_<<vars, edits>> => Coherent'
  BY MCClearCoherent, EditCoherent, CallCoherent, CoherentUnchanged DEF MCNext
<1> QED
  BY MCInitCoherent, <1>1, PTL DEF MCSpec

-----------------------------------------------------------------------------
(* What follows from it *)

LEMMA OneCellEach ==
  ASSUME NEW z \in Nat, NEW b, NEW c, CacheOK(c, z, b), Once(c), NEW s
  PROVE  Cardinality(CellsOf(c, s)) = Cardinality(Positions(c, s))
<1> DEFINE S == CellsOf(c, s)
           P == Positions(c, s)
           f == [i \in S |-> c.cells[i].pos]
<1>1. IsFiniteSet(S)
  <2>1. S \in SUBSET Cells(c)
    BY DEF CellsOf
  <2> HIDE DEF S
  <2> QED
    BY <2>1, CellsFinite, FS_Subset
<1>2. f \in Surjection(S, P)
  BY DEF Surjection, Positions
<1>3. \A i, j \in S : f[i] = f[j] => i = j
  BY DEF Once, CellsOf
<1>4. f \in Injection(S, P)
  <2>1. f \in [S -> P]
    BY DEF Positions
  <2> HIDE DEF S, P, f
  <2> QED
    BY <1>3, <2>1 DEF Injection, IsInjective
<1> HIDE DEF S, P, f
<1>5. Cardinality(P) = Cardinality(S)
  BY <1>1, <1>2, <1>4, FS_Surjection
<1> QED
  BY <1>5 DEF S, P

LEMMA CoherentTops ==
  ASSUME Coherent, NEW s \in Seqs
  PROVE  /\ SeqPosMax(swa, s) \in Int /\ SeqPosMax(base, s) = SeqPosMax(swa, s)
         /\ Positions(swa, s) \subseteq Positions(base, s)
         /\ Sees(base, swa, s, SeqPosMax(swa, s), SeqPosMax(swa, s) + 1)
<1>1. PICK t : t = SeqPosMax(swa, s)
  OBVIOUS
<1>2. IsBase(base) /\ IsSwa(swa) /\ Sees(base, swa, s, t, t + 1)
  BY <1>1 DEF Coherent, IInv, Agree
<1>3. t \in Int /\ t + 1 \in Int /\ t + 1 <= t + 1
  BY <1>1, <1>2, SwaTop
<1>4. SeqPosMax(base, s) = t /\ Positions(swa, s) \subseteq Positions(base, s)
  BY <1>2, <1>3, Tops
<1> QED
  BY <1>1, <1>2, <1>3, <1>4

(* Each position of a sequence, from the first to the last, is in the base *)
(* cache, and in no two cells of either cache: what llama.h promises.      *)
THEOREM PositionsContiguous == MCSpec => []Contiguous
<1>1. Coherent => Contiguous
  <2> SUFFICES ASSUME Coherent, NEW s \in Seqs
               PROVE  /\ Positions(base, s) = 0 .. SeqPosMax(base, s)
                      /\ \A c \in {base, swa} : Cardinality(CellsOf(c, s)) = Cardinality(Positions(c, s))
    BY DEF Contiguous
  <2>1. Positions(base, s) = 0 .. SeqPosMax(base, s)
    BY CoherentTops DEF Sees, Seen
  <2>2. BaseSize \in Nat /\ SwaSize \in Nat
    BY SwaSizeIs
  <2>3. CacheOK(base, BaseSize, FALSE) /\ Once(base) /\ CacheOK(swa, SwaSize, TRUE) /\ Once(swa)
    BY DEF Coherent, IInv, IsBase, IsSwa
  <2>4. Cardinality(CellsOf(base, s)) = Cardinality(Positions(base, s))
    BY <2>2, <2>3, OneCellEach, ZenonT(30)
  <2>5. Cardinality(CellsOf(swa, s)) = Cardinality(Positions(swa, s))
    BY <2>2, <2>3, OneCellEach, ZenonT(30)
  <2> QED
    BY <2>1, <2>4, <2>5
<1> QED
  BY <1>1, CoherentInvariance, PTL

(* The base cache has every position that the windowed one has, and both   *)
(* end at the same one.                                                    *)
THEOREM BaseHoldsSwa == MCSpec => []BaseIsSuperset
<1>1. Coherent => BaseIsSuperset
  BY CoherentTops DEF BaseIsSuperset
<1> QED
  BY <1>1, CoherentInvariance, PTL

(* What a token at position a or after it looks at, of positions up to t.  *)
LEMMA SeenInView ==
  ASSUME NEW s, NEW t, NEW a \in Int, Sees(base, swa, s, t, a), NEW p \in Nat, a <= p, p <= t + 1
  PROVE  InView(s, p)
<1>1. /\ t \in -1 .. MaxPos /\ Positions(base, s) = 0 .. t
      /\ \A q \in 0 .. t : a - q < Window => q \in Positions(swa, s)
  BY DEF Sees, Seen
<1>2. t \in Int
  BY <1>1, Sizes
<1>3. 0 .. p - 1 \subseteq Positions(base, s)
  BY <1>1, <1>2
<1>4. ASSUME NEW q \in 0 .. p - 1, ~IsMasked(q, p) PROVE q \in Positions(swa, s)
  <2>1. p - q < Window
    BY <1>4, Sizes DEF IsMasked
  <2>2. a - q < Window /\ q \in 0 .. t
    BY <1>2, <2>1, Sizes
  <2> QED
    BY <1>1, <2>2
<1> QED
  BY <1>3, <1>4 DEF InView

(* Whatever cells were reused, the tokens computed now, and the next one   *)
(* of every sequence, find every position that they look at.               *)
THEOREM WindowIsSeen == MCSpec => []SeesWindow
<1>1. Coherent => SeesWindow
  <2> SUFFICES ASSUME Coherent PROVE SeesWindow
    OBVIOUS
  <2>1. ASSUME NEW s \in Seqs PROVE InView(s, SeqPosMax(swa, s) + 1)
    <3>1. PICK t, p : t = SeqPosMax(swa, s) /\ p = SeqPosMax(swa, s) + 1
      OBVIOUS
    <3>2. t \in Int /\ Sees(base, swa, s, t, p)
      BY <3>1, CoherentTops
    <3>3. t \in -1 .. MaxPos
      BY <3>2 DEF Sees, Seen
    <3>4. p \in Nat /\ p \in Int /\ p <= p /\ p <= t + 1
      BY <3>1, <3>2, <3>3
    <3>5. InView(s, p)
      BY <3>2, <3>4, SeenInView
    <3> QED
      BY <3>1, <3>5
  <2>2. ASSUME call.pc = "compute", NEW j \in 0 .. Ubatch.n - 1 PROVE InView(Ubatch.seq, Ubatch.pos + j)
    <3>1. PICK t, a, p : t = Ubatch.pos + Ubatch.n - 1 /\ a = Ubatch.pos /\ p = Ubatch.pos + j
      OBVIOUS
    <3>2. Ubatch.pos \in Nat /\ Ubatch.n \in Nat \ {0}
      BY <2>2, AtHand DEF Coherent, Applying
    <3>3. a \in Int /\ p \in Nat /\ a <= p /\ p <= t + 1
      BY <3>1, <3>2
    <3>4. Sees(base, swa, Ubatch.seq, t, a)
      BY <2>2, <3>1 DEF Coherent, Computing
    <3>5. InView(Ubatch.seq, p)
      BY <3>3, <3>4, SeenInView
    <3> QED
      BY <3>1, <3>5
  <2> QED
    BY <2>1, <2>2 DEF SeesWindow
<1> QED
  BY <1>1, CoherentInvariance, PTL

(* The slots found while preparing can still be used when their ubatch is  *)
(* placed: the assertions of apply_ubatch.                                 *)
THEOREM SlotsAreFree == MCSpec => []SlotsStayFree
<1>1. Coherent => SlotsStayFree
  <2> SUFFICES ASSUME Coherent, call.pc \in {"prepared", "place"}
               PROVE  /\ \A i \in Range(Ubatch.slots[1]) : CanUse(base, i)
                      /\ \A i \in Range(Ubatch.slots[2]) : CanUse(swa, i)
    BY DEF SlotsStayFree
  <2>1. IInv /\ IsBase(base) /\ IsSwa(swa) /\ Follows(base, swa, call.todo)
    BY DEF Coherent, Waiting, IInv
  <2>2. TodoOK(call.todo) /\ Ubatch = call.todo[1]
    BY <2>1, AtHand
  <2>3. Fits(base, swa, Ubatch, Ubatch.slots[1], Ubatch.slots[2])
    BY <2>1, <2>2, FirstFits
  <2> QED
    BY <2>3 DEF Fits, Usable
<1> QED
  BY <1>1, CoherentInvariance, PTL

(* What PreparingUndone says of a step.                                    *)
Restores ==
  call.pc = "idle" /\ (call'.pc = "prepared" \/ call'.refused # "no") =>
    base' = base /\ swa'.head = swa.head /\ InSight(swa') = InSight(swa)

LEMMA EditPreparesNothing ==
  ASSUME Clear \/ Cut \/ ShareOrKeep
  PROVE  call'.pc = "idle" /\ call'.refused = "no"
<1>1. Idle.pc = "idle" /\ Idle.refused = "no"
  BY DEF Idle
<1>2. call' = Idle
  BY DEF Clear, Cut, ShareOrKeep, CutSequence, ShareSequence, KeepSequence, Edits
<1> QED
  BY <1>1, <1>2

LEMMA NextRestores == ASSUME Coherent, [MCNext]_<<vars, edits>> PROVE [Restores]_vars
<1>1. CASE MCClear \/ Edit(Cut \/ ShareOrKeep)
  <2>1. call'.pc = "idle" /\ call'.refused = "no"
    BY <1>1, EditPreparesNothing DEF MCClear, Edit
  <2> QED
    BY <2>1 DEF Restores
<1>2. ASSUME NEW s \in Seqs, NEW n \in Submitted, Used(base) # {} => n <= UBatch, Decode(s, n)
      PROVE  Restores
  <2>1. IInv /\ Agree(base, swa) /\ Once(base) /\ Once(swa) /\ (n <= UBatch \/ Used(base) = {})
    BY <1>2 DEF Coherent
  <2>2. base' = base /\ Accomplished(base, swa, swa', call')
    BY <1>2, <2>1, DecodeAgrees
  <2> QED
    BY <2>2 DEF Restores, Accomplished, Kept
<1>3. CASE Apply \/ Computed \/ OutputsFail \/ ComputeFails
  <2>1. call.pc # "idle"
    BY <1>3 DEF Apply, Computed, OutputsFail, ComputeFails
  <2> QED
    BY <2>1 DEF Restores
<1>4. CASE UNCHANGED <<vars, edits>>
  BY <1>4
<1> QED
  BY <1>1, <1>2, <1>3, <1>4 DEF MCNext, Call

(* Finding slots, with success or without, changes nothing that a sequence *)
(* still looks at, as long as a call submits one ubatch or finds the       *)
(* caches empty: the cells are restored.                                   *)
THEOREM PreparingRestores == MCSpec => PreparingUndone
<1>1. Coherent /\ [MCNext]_<<vars, edits>> => [Restores]_vars
  BY NextRestores
<1>2. MCSpec => [][Restores]_vars
  BY CoherentInvariance, <1>1, PTL DEF MCSpec
<1> QED
  BY <1>2 DEF PreparingUndone, Restores

-----------------------------------------------------------------------------
(* Room in the windowed cache, when no two sequences share a cell of it:   *)
(* each cell that cannot be used is that of one sequence and of one of the *)
(* positions that the sequence still looks at.                             *)
Unshared(w) == \A i \in Cells(w) : \A s, t \in w.cells[i].seqs : s = t

(* Sequences that share a cell of the base cache share one of the windowed *)
(* cache, or one of them has none there.                                   *)
At(w, j, s, p) == s \in w.cells[j].seqs /\ w.cells[j].pos = p

Aligned(b, w) ==
  \A i \in Cells(b) : \A s, t \in b.cells[i].seqs : \A j, k \in Cells(w) :
    At(w, j, s, b.cells[i].pos) /\ At(w, k, t, b.cells[i].pos) => j = k

Free(c) == {i \in Cells(c) : CanUse(c, i)}
Bound(c) == {i \in Cells(c) : ~CanUse(c, i)}

LEMMA SlotIfFree ==
  ASSUME NEW c, NEW n \in Nat \ {0}
  PROVE  FindSlot(c, n) = <<>> <=> Cardinality(Free(c)) < n
<1> DEFINE size == Cardinality(Cells(c))
           from == IF c.head > Cardinality(Used(c)) + 2 * n THEN 0 ELSE c.head
           free == {i \in Cells(c) : CanUse(c, i)}
           Rank(i) == IF i >= from THEN i - from ELSE i + size - from
           Before(i) == {j \in free : Rank(j) < Rank(i)}
           slot == [k \in 1 .. n |-> CHOOSE i \in free : Cardinality(Before(i)) = k - 1]
<1>1. FindSlot(c, n) = IF Cardinality(free) < n THEN <<>> ELSE slot
  BY DEF FindSlot
<1>2. DOMAIN slot = 1 .. n
  OBVIOUS
<1>3. free = Free(c)
  BY DEF Free
<1> HIDE DEF slot, free
<1>4. slot # <<>>
  <2>1. DOMAIN <<>> = 1 .. 0 /\ 1 \in 1 .. n /\ 1 \notin 1 .. 0
    OBVIOUS
  <2> QED
    BY <1>2, <2>1
<1> QED
  BY <1>1, <1>3, <1>4

LEMMA FreeAndBound ==
  ASSUME NEW z \in Nat, NEW b, NEW c, CacheOK(c, z, b)
  PROVE  /\ Cardinality(Free(c)) \in Nat /\ Cardinality(Bound(c)) \in Nat
         /\ IsFiniteSet(Bound(c))
         /\ Cardinality(Free(c)) = z - Cardinality(Bound(c))
<1>1. IsFiniteSet(Cells(c)) /\ Cardinality(Cells(c)) = z
  BY CellsFinite
<1>2. Free(c) = Cells(c) \ Bound(c) /\ Cells(c) \cap Bound(c) = Bound(c)
      /\ Bound(c) \in SUBSET Cells(c) /\ Free(c) \in SUBSET Cells(c)
  BY DEF Free, Bound
<1>3. Cardinality(Cells(c) \ Bound(c)) = Cardinality(Cells(c)) - Cardinality(Cells(c) \cap Bound(c))
  BY <1>1, FS_Difference
<1>4. IsFiniteSet(Bound(c)) /\ IsFiniteSet(Free(c))
  BY <1>1, <1>2, FS_Subset
<1>5. Cardinality(Free(c)) \in Nat /\ Cardinality(Bound(c)) \in Nat
  BY <1>4, FS_CardinalityType
<1> QED
  BY <1>1, <1>2, <1>3, <1>4, <1>5

(* The sequence of a cell that cannot be used, and how far back it is.     *)
LEMMA BoundTo ==
  ASSUME NEW w, IsSwa(w), Unshared(w), NEW i \in Bound(w)
  PROVE  \E s \in Seqs : /\ i \in Cells(w) /\ w.cells[i].seqs = {s}
                         /\ SeqPosMax(w, s) \in Int /\ w.cells[i].pos \in Int
                         /\ SeqPosMax(w, s) - w.cells[i].pos \in 0 .. Window - 1
                         /\ w.cells[i].pos \in Positions(w, s)
<1>1. i \in Cells(w) /\ ~Empty(w, i) /\ w.swa = TRUE
      /\ ~ \E s \in Seqs : w.cells[i].seqs = {s} /\ IsMasked(w.cells[i].pos, SeqPosMax(w, s) + 1)
  BY SwaIs DEF Bound, CanUse
<1>2. w.cells[i].seqs # {} /\ w.cells[i].seqs \subseteq Seqs
  BY <1>1, SwaIs DEF Empty
<1>3. PICK s \in Seqs : s \in w.cells[i].seqs
  BY <1>2
<1>4. w.cells[i].seqs = {s}
  BY <1>1, <1>3 DEF Unshared
<1>5. ~IsMasked(w.cells[i].pos, SeqPosMax(w, s) + 1)
  BY <1>1, <1>4
<1>6. w.cells[i].pos \in Positions(w, s)
  BY <1>1, <1>3 DEF Positions, CellsOf
<1>7. SeqPosMax(w, s) \in -1 .. MaxPos /\ Positions(w, s) \subseteq 0 .. SeqPosMax(w, s)
  BY PositionsAre DEF IsSwa
<1>8. w.cells[i].pos \in 0 .. SeqPosMax(w, s) /\ SeqPosMax(w, s) \in Int
  BY <1>6, <1>7, Sizes
<1>9. ~((SeqPosMax(w, s) + 1) - w.cells[i].pos >= Window)
  BY <1>5 DEF IsMasked
<1>10. SeqPosMax(w, s) - w.cells[i].pos \in 0 .. Window - 1
  BY <1>8, <1>9, Sizes
<1> QED
  BY <1>1, <1>4, <1>6, <1>8, <1>10

LEMMA BoundBySize ==
  ASSUME NEW w, IsSwa(w), Once(w), Unshared(w)
  PROVE  Cardinality(Bound(w)) <= Cardinality(Seqs) * Window
<1> DEFINE X == Bound(w)
           Y == Seqs \X (0 .. Window - 1)
           Of(i, s) == /\ s \in Seqs /\ i \in Cells(w) /\ w.cells[i].seqs = {s}
                       /\ SeqPosMax(w, s) \in Int /\ w.cells[i].pos \in Int
                       /\ SeqPosMax(w, s) - w.cells[i].pos \in 0 .. Window - 1
           Owner(i) == CHOOSE s : Of(i, s)
           Back(i) == SeqPosMax(w, Owner(i)) - w.cells[i].pos
           f == [i \in X |-> <<Owner(i), Back(i)>>]
<1>1. \A i \in X : Of(i, Owner(i))
  <2> TAKE i \in X
  <2>1. \E s : Of(i, s)
    BY BoundTo
  <2> HIDE DEF Of
  <2> QED
    BY <2>1
<1> HIDE DEF Owner
<1>2. f \in [X -> Y]
  BY <1>1
<1>3. ASSUME NEW i \in X, NEW j \in X, f[i] = f[j] PROVE i = j
  <2>1. Owner(i) = Owner(j) /\ Back(i) = Back(j)
    BY <1>3
  <2>2. Of(i, Owner(i)) /\ Of(j, Owner(j))
    BY <1>1
  <2>3. w.cells[i].pos = w.cells[j].pos
    BY <2>1, <2>2
  <2> QED
    BY <2>1, <2>2, <2>3 DEF Once
<1> HIDE DEF f, X
<1>4. f \in Injection(X, Y)
  BY <1>2, <1>3, Fun_IsInj
<1>5. IsFiniteSet(0 .. Window - 1) /\ Cardinality(0 .. Window - 1) = Window
  <2>1. 0 \in Int /\ Window - 1 \in Int /\ Window \in Nat \ {0}
    BY Sizes
  <2>2. IsFiniteSet(0 .. Window - 1) /\ Cardinality(0 .. Window - 1) = IF 0 > Window - 1 THEN 0 ELSE (Window - 1) - 0 + 1
    BY <2>1, FS_Interval
  <2> QED
    BY <2>1, <2>2
<1>6. IsFiniteSet(Y) /\ Cardinality(Y) = Cardinality(Seqs) * Cardinality(0 .. Window - 1)
  BY <1>5, CacheAssumption, FS_Product
<1> HIDE DEF Y
<1>7. Cardinality(X) <= Cardinality(Y)
  BY <1>4, <1>6, FS_Injection
<1> QED
  BY <1>5, <1>6, <1>7 DEF X

LEMMA BoundByBase ==
  ASSUME NEW b, NEW w, IsBase(b), IsSwa(w), Agree(b, w), Unshared(w), Aligned(b, w)
  PROVE  Cardinality(Bound(w)) <= Cardinality(Bound(b))
<1> DEFINE X == Bound(w)
           Y == Bound(b)
           Of(i, s) == i \in Cells(w) /\ s \in w.cells[i].seqs
           In(j, i) == j \in Y /\ \E s : Of(i, s) /\ At(b, j, s, w.cells[i].pos)
           Twin(i) == CHOOSE j : In(j, i)
           f == [i \in X |-> Twin(i)]
<1>1. \A i \in X : In(Twin(i), i)
  <2> TAKE i \in X
  <2>1. PICK s \in Seqs : i \in Cells(w) /\ w.cells[i].seqs = {s} /\ w.cells[i].pos \in Positions(w, s)
    BY BoundTo
  <2>2. Sees(b, w, s, SeqPosMax(w, s), SeqPosMax(w, s) + 1) /\ SeqPosMax(w, s) \in Int
    BY SwaTop DEF Agree
  <2>3. SeqPosMax(w, s) + 1 \in Int /\ SeqPosMax(w, s) + 1 <= SeqPosMax(w, s) + 1
    BY <2>2
  <2>4. w.cells[i].pos \in Positions(b, s)
    BY <2>1, <2>2, <2>3, Tops
  <2>5. PICK j \in Cells(b) : s \in b.cells[j].seqs /\ b.cells[j].pos = w.cells[i].pos
    BY <2>4 DEF Positions, CellsOf
  <2>6. b.swa = FALSE /\ ~Empty(b, j)
    BY <2>5 DEF IsBase, CacheOK
  <2>7. j \in Y
    BY <2>6 DEF Bound, CanUse
  <2>8. Of(i, s) /\ At(b, j, s, w.cells[i].pos)
    BY <2>1, <2>5 DEF At
  <2>9. In(j, i)
    BY <2>7, <2>8
  <2> HIDE DEF In
  <2> QED
    BY <2>9
<1> HIDE DEF Twin
<1>2. f \in [X -> Y]
  BY <1>1
<1>3. ASSUME NEW i \in X, NEW k \in X, f[i] = f[k] PROVE i = k
  <2>1. PICK s : Of(i, s) /\ At(b, Twin(i), s, w.cells[i].pos)
    BY <1>1
  <2>2. PICK t : Of(k, t) /\ At(b, Twin(i), t, w.cells[k].pos)
    BY <1>1, <1>3
  <2>3. Twin(i) \in Cells(b)
    BY <1>1 DEF Bound
  <2>4. At(w, i, s, b.cells[Twin(i)].pos) /\ At(w, k, t, b.cells[Twin(i)].pos)
        /\ s \in b.cells[Twin(i)].seqs /\ t \in b.cells[Twin(i)].seqs
    BY <2>1, <2>2 DEF At
  <2> QED
    BY <2>1, <2>2, <2>3, <2>4 DEF Aligned
<1> HIDE DEF f, X, Y
<1>4. f \in Injection(X, Y)
  BY <1>2, <1>3, Fun_IsInj
<1>5. IsFiniteSet(Y)
  BY SwaSizeIs, FreeAndBound DEF IsBase, Y
<1> QED
  BY <1>4, <1>5, FS_Injection DEF X, Y

(* When the base cache has room for a ubatch, the windowed one has too.    *)
LEMMA RoomFor ==
  ASSUME NEW b, NEW w, IsBase(b), IsSwa(w), Agree(b, w), Once(w), Aligned(b, w), Unshared(w),
         NEW n \in 1 .. UBatch, FindSlot(b, n) # <<>>
  PROVE  FindSlot(w, n) # <<>>
<1>1. n \in Nat \ {0} /\ n <= UBatch /\ BaseSize \in Nat /\ SwaSize \in Nat
  BY Sizes, SwaSizeIs
<1>2. /\ Cardinality(Free(b)) \in Nat /\ Cardinality(Bound(b)) \in Nat
      /\ Cardinality(Free(b)) = BaseSize - Cardinality(Bound(b))
  BY <1>1, FreeAndBound DEF IsBase
<1>3. /\ Cardinality(Free(w)) \in Nat /\ Cardinality(Bound(w)) \in Nat
      /\ Cardinality(Free(w)) = SwaSize - Cardinality(Bound(w))
  BY <1>1, FreeAndBound DEF IsSwa
<1>4. ~(Cardinality(Free(b)) < n)
  BY <1>1, SlotIfFree
<1>5. Cardinality(Bound(w)) <= Cardinality(Seqs) * Window
  BY BoundBySize
<1>6. Cardinality(Bound(w)) <= Cardinality(Bound(b))
  BY BoundByBase
<1> DEFINE x == Cardinality(Seqs) * Window + UBatch
<1>7. SwaSize = BaseSize \/ SwaSize = x
  <2>1. Cardinality(Seqs) * Window \in Nat
    BY CacheAssumption, FS_CardinalityType, Sizes, Products
  <2>2. x \in Int /\ BaseSize \in Int
    BY <2>1, Sizes
  <2> HIDE DEF x
  <2> QED
    BY <2>2, MinTwo DEF SwaSize, x
<1>8. ~(Cardinality(Free(w)) < n)
  <2>1. CASE SwaSize = BaseSize
    BY <1>1, <1>2, <1>3, <1>4, <1>6, <2>1
  <2>2. CASE SwaSize = x
    <3>1. Cardinality(Seqs) * Window \in Nat /\ UBatch \in Nat
      BY CacheAssumption, FS_CardinalityType, Sizes, Products
    <3> QED
      BY <1>1, <1>3, <1>5, <2>2, <3>1
  <2> QED
    BY <1>7, <2>1, <2>2
<1> QED
  BY <1>1, <1>8, SlotIfFree

(* What keeps the caches aligned.                                          *)
LEMMA AlignedPart ==
  ASSUME NEW b, NEW w, Aligned(b, w), NEW d, NEW e, Part(d, b), Part(e, w),
         Cells(d) = Cells(b), Cells(e) = Cells(w)
  PROVE  Aligned(d, e)
<1> SUFFICES ASSUME NEW i \in Cells(d), NEW s \in d.cells[i].seqs, NEW t \in d.cells[i].seqs,
                    NEW j \in Cells(e), NEW k \in Cells(e),
                    At(e, j, s, d.cells[i].pos), At(e, k, t, d.cells[i].pos)
             PROVE  j = k
  BY DEF Aligned
<1>1. s \in b.cells[i].seqs /\ t \in b.cells[i].seqs /\ d.cells[i].pos = b.cells[i].pos
  BY DEF Part
<1>2. At(w, j, s, b.cells[i].pos) /\ At(w, k, t, b.cells[i].pos)
  BY <1>1 DEF Part, At
<1> QED
  BY <1>1, <1>2 DEF Aligned

(* A sequence that has nothing is given the cells of another.              *)
SharedIn(c, d, s, t) ==
  /\ Cells(d) = Cells(c)
  /\ \A i \in Cells(c) : \A x \in d.cells[i].seqs :
       /\ x \in c.cells[i].seqs \/ (x = t /\ s \in c.cells[i].seqs)
       /\ d.cells[i].pos = c.cells[i].pos

LEMMA CellsShared ==
  ASSUME NEW z \in Nat, NEW b, NEW c, CacheOK(c, z, b), NEW s, NEW t \in Seqs, NEW d, d = SeqCp(c, s, t)
  PROVE  SharedIn(c, d, s, t)
<1>1. /\ CacheOK(d, z, b)
      /\ \A i \in Cells(c) : Holds(d, i, c.cells[i].pos, c.cells[i].seqs \cup {u \in {t} : s \in c.cells[i].seqs})
  BY SeqCpIs, ZenonT(60)
<1>2. Cells(c) = Cells(d)
  BY <1>1, CacheIs
<1> QED
  BY <1>1, <1>2 DEF SharedIn, Holds

LEMMA BaseShared ==
  ASSUME NEW c, IsBase(c), NEW s, NEW t \in Seqs, NEW d, d = SeqCp(c, s, t)
  PROVE  SharedIn(c, d, s, t)
BY CellsShared, SwaSizeIs DEF IsBase

LEMMA SwaShared ==
  ASSUME NEW c, IsSwa(c), NEW s, NEW t \in Seqs, NEW d, d = SeqCp(c, s, t)
  PROVE  SharedIn(c, d, s, t)
BY CellsShared, SwaSizeIs DEF IsSwa

LEMMA AlignedCp ==
  ASSUME NEW b, NEW w, IsBase(b), IsSwa(w), Once(w), Aligned(b, w), NEW s0 \in Seqs, NEW t1 \in Seqs, t1 # s0,
         Positions(b, t1) = {}, Positions(w, t1) = {},
         NEW d, d = SeqCp(b, s0, t1), NEW e, e = SeqCp(w, s0, t1)
  PROVE  Aligned(d, e)
<1> DEFINE Or(t) == IF t = t1 THEN s0 ELSE t
<1>1. SharedIn(b, d, s0, t1) /\ SharedIn(w, e, s0, t1)
  BY BaseShared, SwaShared
<1>2. /\ \A i \in Cells(b) : t1 \notin b.cells[i].seqs
      /\ \A i \in Cells(w) : t1 \notin w.cells[i].seqs
  BY DEF Positions, CellsOf
<1>3. Cells(d) = Cells(b) /\ Cells(e) = Cells(w)
  BY <1>1 DEF SharedIn
<1>5. ASSUME NEW i \in Cells(b), NEW t \in d.cells[i].seqs
      PROVE  Or(t) \in b.cells[i].seqs /\ d.cells[i].pos = b.cells[i].pos
  BY <1>1, <1>2 DEF SharedIn
<1>6. ASSUME NEW i \in Cells(w), NEW t, NEW p, At(e, i, t, p) PROVE At(w, i, Or(t), p)
  BY <1>1, <1>2, <1>6 DEF SharedIn, At
<1> SUFFICES ASSUME NEW i \in Cells(d), NEW s \in d.cells[i].seqs, NEW t \in d.cells[i].seqs,
                    NEW j \in Cells(e), NEW k \in Cells(e),
                    At(e, j, s, d.cells[i].pos), At(e, k, t, d.cells[i].pos)
             PROVE  j = k
  BY DEF Aligned
<1> HIDE DEF Or
<1>7. /\ Or(s) \in b.cells[i].seqs /\ Or(t) \in b.cells[i].seqs
      /\ At(w, j, Or(s), b.cells[i].pos) /\ At(w, k, Or(t), b.cells[i].pos)
  BY <1>3, <1>5, <1>6
<1> QED
  BY <1>3, <1>7 DEF Aligned

(* What is in a cell after a ubatch was placed: one of its tokens, or part *)
(* of what was there.                                                      *)
NewOrOld(c, d, s, p) ==
  /\ Cells(d) = Cells(c)
  /\ \A i \in Cells(c) :
       \/ d.cells[i].seqs = {}
       \/ d.cells[i].seqs = {s} /\ d.cells[i].pos \in Int /\ d.cells[i].pos >= p
       \/ d.cells[i].seqs \subseteq c.cells[i].seqs /\ d.cells[i].pos = c.cells[i].pos

LEMMA NewOrOldPut ==
  ASSUME NEW z \in Nat, NEW b, NEW c, CacheOK(c, z, b), NEW slot, NEW n, NEW s, NEW p,
         Applying(c, slot, n, s, p), NEW d, d = ApplyUbatch(c, slot, s, p)
  PROVE  NewOrOld(c, d, s, p)
<1>1. n \in Nat \ {0} /\ IsSlot(slot, Cells(c), n) /\ p \in Nat
  BY DEF Applying
<1>2. /\ CacheOK(d, z, b)
      /\ \A i \in Cells(c) \ Range(slot) :
           Holds(d, i, c.cells[i].pos, {t \in c.cells[i].seqs : c.cells[i].pos > Lost(c, slot, t)})
      /\ \A k \in 1 .. n : Holds(d, slot[k], p + k - 1, {t \in {s} : p + k - 1 > Lost(c, slot, t)})
  BY Applied
<1>3. Cells(d) = Cells(c)
  BY <1>2, CacheIs
<1>4. ASSUME NEW i \in Cells(c), d.cells[i].seqs # {}
      PROVE  \/ d.cells[i].seqs = {s} /\ d.cells[i].pos \in Int /\ d.cells[i].pos >= p
             \/ d.cells[i].seqs \subseteq c.cells[i].seqs /\ d.cells[i].pos = c.cells[i].pos
  <2>1. CASE i \in Range(slot)
    <3>1. Index(slot, i) \in 1 .. n /\ slot[Index(slot, i)] = i
      BY <1>1, <2>1, SlotIs
    <3> DEFINE k == Index(slot, i)
    <3> HIDE DEF k
    <3>2. k \in 1 .. n /\ Holds(d, i, p + k - 1, {t \in {s} : p + k - 1 > Lost(c, slot, t)})
      BY <1>2, <3>1 DEF k
    <3>3. d.cells[i].seqs = {s} /\ d.cells[i].pos = p + k - 1
      BY <1>4, <3>2 DEF Holds
    <3> QED
      BY <1>1, <3>2, <3>3
  <2>2. CASE i \notin Range(slot)
    BY <1>2, <1>4, <2>2 DEF Holds
  <2> QED
    BY <2>1, <2>2
<1> QED
  BY <1>3, <1>4 DEF NewOrOld

LEMMA BaseNewOrOld ==
  ASSUME NEW c, IsBase(c), NEW slot, NEW n, NEW s, NEW p, Applying(c, slot, n, s, p),
         NEW d, d = ApplyUbatch(c, slot, s, p)
  PROVE  NewOrOld(c, d, s, p)
BY NewOrOldPut, SwaSizeIs DEF IsBase

LEMMA SwaNewOrOld ==
  ASSUME NEW c, IsSwa(c), NEW slot, NEW n, NEW s, NEW p, Applying(c, slot, n, s, p),
         NEW d, d = ApplyUbatch(c, slot, s, p)
  PROVE  NewOrOld(c, d, s, p)
BY NewOrOldPut, SwaSizeIs DEF IsSwa

LEMMA PutAligned ==
  ASSUME NEW b, NEW w, IsBase(b), IsSwa(w), Agree(b, w), Once(b), Once(w), Aligned(b, w),
         NEW u, NEW slot1, NEW slot2, Fits(b, w, u, slot1, slot2),
         NEW d, d = ApplyUbatch(b, slot1, u.seq, u.pos),
         NEW e, e = ApplyUbatch(w, slot2, u.seq, u.pos), Once(e)
  PROVE  Aligned(d, e)
<1>1. NewOrOld(b, d, u.seq, u.pos) /\ NewOrOld(w, e, u.seq, u.pos)
  BY BaseNewOrOld, SwaNewOrOld DEF Fits
<1>2. u.seq \in Seqs /\ u.pos = SeqPosMax(w, u.seq) + 1
  BY DEF Fits, Applying
<1>3. \A q \in Positions(b, u.seq) : q \in Int /\ q < u.pos
  <2>1. SeqPosMax(w, u.seq) \in Int
        /\ Seen(Positions(b, u.seq), Positions(w, u.seq), SeqPosMax(w, u.seq), SeqPosMax(w, u.seq) + 1)
    BY <1>2, SwaTop DEF Agree, Sees
  <2> QED
    BY <1>2, <2>1 DEF Seen
<1> SUFFICES ASSUME NEW i \in Cells(d), NEW s \in d.cells[i].seqs, NEW t \in d.cells[i].seqs, s # t,
                    NEW j \in Cells(e), NEW k \in Cells(e),
                    At(e, j, s, d.cells[i].pos), At(e, k, t, d.cells[i].pos)
             PROVE  j = k
  BY DEF Aligned, Once, At
<1>4. s \in b.cells[i].seqs /\ t \in b.cells[i].seqs /\ d.cells[i].pos = b.cells[i].pos /\ i \in Cells(b)
  BY <1>1 DEF NewOrOld
<1>5. ASSUME NEW x \in b.cells[i].seqs, NEW l \in Cells(e), At(e, l, x, b.cells[i].pos)
      PROVE  l \in Cells(w) /\ At(w, l, x, b.cells[i].pos)
  <2>1. b.cells[i].pos \in Positions(b, x)
    BY <1>4 DEF Positions, CellsOf
  <2>2. x \in e.cells[l].seqs /\ e.cells[l].pos = b.cells[i].pos
    BY <1>5 DEF At
  <2>3. ~(e.cells[l].seqs = {u.seq} /\ e.cells[l].pos \in Int /\ e.cells[l].pos >= u.pos)
    <3> SUFFICES ASSUME e.cells[l].seqs = {u.seq}, e.cells[l].pos >= u.pos PROVE FALSE
      OBVIOUS
    <3>1. x = u.seq
      BY <2>2
    <3>2. b.cells[i].pos \in Int /\ b.cells[i].pos < u.pos
      BY <1>3, <2>1, <3>1
    <3>3. u.pos \in Int
      BY <1>2, SwaTop
    <3> QED
      BY <2>2, <3>2, <3>3
  <2>4. e.cells[l].seqs \subseteq w.cells[l].seqs /\ e.cells[l].pos = w.cells[l].pos /\ l \in Cells(w)
    BY <1>1, <2>2, <2>3 DEF NewOrOld
  <2> QED
    BY <2>2, <2>4 DEF At
<1> QED
  BY <1>4, <1>5 DEF Aligned

LEMMA PutUnshared ==
  ASSUME NEW w, IsSwa(w), Unshared(w), NEW slot, NEW n, NEW s, NEW p, Applying(w, slot, n, s, p),
         NEW e, e = ApplyUbatch(w, slot, s, p)
  PROVE  Unshared(e)
<1>1. NewOrOld(w, e, s, p)
  BY SwaNewOrOld
<1> QED
  BY <1>1 DEF Unshared, NewOrOld

(* When prepare finds no slot, there is none for the ubatch after those    *)
(* that it could place.                                                    *)
Misses(z, b, c, u, cs, slots, q) ==
  /\ q \in 0 .. Len(u) - 1 /\ cs[0] = c
  /\ \A j \in 1 .. q : PlacedIn(z, b, cs[j - 1], cs[j], u[j], slots[j])
  /\ FindSlot(cs[q], u[q + 1].n) = <<>>

LEMMA NotPlaced ==
  ASSUME NEW r, NEW v, r.found = TRUE, Place(r, v).found = FALSE,
         r = [cache |-> r.cache, found |-> r.found, slots |-> r.slots, saved |-> r.saved]
  PROVE  FindSlot(r.cache, v.n) = <<>>
<1> DEFINE slot == FindSlot(r.cache, v.n)
           t == [cache |-> ApplyUbatch(r.cache, slot, v.seq, v.pos), found |-> r.found,
                 slots |-> Append(r.slots, slot), saved |-> Append(r.saved, Save(r.cache, slot))]
<1> SUFFICES ASSUME slot # <<>> PROVE FALSE
  OBVIOUS
<1>1. Place(r, v) = [r EXCEPT !.cache = ApplyUbatch(@, slot, v.seq, v.pos),
                              !.slots = Append(@, slot), !.saved = Append(@, Save(r.cache, slot))]
  BY DEF Place
<1> HIDE DEF slot
<1>2. Place(r, v) = t
  BY <1>1
<1>3. t.found = r.found
  OBVIOUS
<1> QED
  BY <1>2, <1>3

LEMMA MissedIs ==
  ASSUME NEW z \in Nat, NEW b, NEW c, CacheOK(c, z, b), NEW u, Continues(u), ~Prepare(c, u).found
  PROVE  \E cs, slots, q : Misses(z, b, c, u, cs, slots, q)
<1> DEFINE m == Len(u)
<1>1. m \in Nat
  BY DEF Continues
<1>2. PICK h : Steps(FALSE, Start(c), u, h, m) /\ Prepare(c, u) = TakeBack(h[m])
  BY <1>1, PrepareIs
<1>3. h[0] = Start(c) /\ \A k \in 0 .. m : Placed(z, b, u, h, k)
  BY <1>2, PlacedAll
<1>4. \A k \in 0 .. m - 1 : h[k + 1] = Place(h[k], u[k + 1])
  <2>1. \A k \in 0 .. m : h[k] = IF k = 0 THEN Start(c) ELSE Place(h[k - 1], u[k])
    BY <1>2 DEF Steps, Step
  <2>2. \A k \in 0 .. m - 1 : k + 1 \in 0 .. m /\ k + 1 # 0 /\ k + 1 - 1 = k
    BY <1>1
  <2> HIDE DEF m
  <2> QED
    BY <2>1, <2>2
<1>5. ~h[m].found
  <2> DEFINE r == h[m]
  <2>1. m \in 0 .. m
    BY <1>1
  <2>2. Placed(z, b, u, h, m)
    BY <1>3, <2>1
  <2>3. /\ r = [cache |-> r.cache, found |-> r.found, slots |-> r.slots, saved |-> r.saved]
        /\ Len(r.saved) \in Nat
    BY <1>1, <2>2 DEF Placed
  <2>4. PICK g : TakeBack(r) = [r EXCEPT !.cache = g]
    BY <2>3, TakeBackIs
  <2> HIDE DEF r, m
  <2>5. TakeBack(r) = [cache |-> g, found |-> r.found, slots |-> r.slots, saved |-> r.saved]
    BY <2>3, <2>4
  <2>6. TakeBack(r).found = r.found
    BY <2>5
  <2> QED
    BY <1>2, <2>6 DEF r
<1> DEFINE F == {k \in 0 .. m : ~h[k].found}
<1>6. F \in SUBSET Nat /\ F # {}
  BY <1>1, <1>5
<1>7. PICK k \in F : \A j \in F : k <= j
  BY <1>6, Least
<1>8. k # 0
  BY <1>3, <1>7 DEF Start
<1> DEFINE q == k - 1
<1>9. q \in 0 .. m - 1 /\ q \in 0 .. m /\ q + 1 = k /\ q \notin F
  BY <1>1, <1>7, <1>8
<1>10. ~h[k].found /\ h[q].found
  BY <1>7, <1>9
<1> HIDE DEF F, q, m
<1>11. /\ CacheOK(h[q].cache, z, b)
       /\ h[q].found \in BOOLEAN
       /\ h[q] = [cache |-> h[q].cache, found |-> h[q].found, slots |-> h[q].slots, saved |-> h[q].saved]
       /\ Len(h[q].slots) = q
       /\ \A j \in 1 .. q : PlacedOne(h[j - 1].cache, h[j].cache, u[j], h[q].slots[j], h[q].saved[j])
  <2>1. Placed(z, b, u, h, q)
    BY <1>3, <1>9
  <2>2. /\ CacheOK(h[q].cache, z, b)
        /\ h[q].found \in BOOLEAN
        /\ h[q] = [cache |-> h[q].cache, found |-> h[q].found, slots |-> h[q].slots, saved |-> h[q].saved]
        /\ h[q].found <=> Len(h[q].slots) = q
        /\ \A j \in 1 .. Len(h[q].slots) :
             PlacedOne(h[j - 1].cache, h[j].cache, u[j], h[q].slots[j], h[q].saved[j])
    BY <2>1 DEF Placed
  <2> QED
    BY <1>10, <2>2
<1>12. h[k] = Place(h[q], u[k]) /\ h[k].found \in BOOLEAN
  <2>1. k \in 0 .. m
    BY <1>1, <1>9
  <2>2. Placed(z, b, u, h, k)
    BY <1>3, <2>1
  <2> QED
    BY <1>4, <1>9, <2>2 DEF Placed
<1>13. FindSlot(h[q].cache, u[q + 1].n) = <<>>
  <2>1. h[q].found = TRUE /\ Place(h[q], u[k]).found = FALSE
    BY <1>10, <1>11, <1>12
  <2>2. h[q] = [cache |-> h[q].cache, found |-> h[q].found, slots |-> h[q].slots, saved |-> h[q].saved]
    BY <1>11
  <2>3. FindSlot(h[q].cache, u[k].n) = <<>>
    BY <2>1, <2>2, NotPlaced
  <2> QED
    BY <1>9, <2>3
<1> DEFINE cs == [j \in 0 .. m |-> h[j].cache]
<1>14. \A j \in 0 .. m : cs[j] = h[j].cache
  OBVIOUS
<1> HIDE DEF cs
<1>15. ASSUME NEW j \in 1 .. q PROVE PlacedIn(z, b, cs[j - 1], cs[j], u[j], h[q].slots[j])
  <2>1. j \in 0 .. m /\ j - 1 \in 0 .. m /\ j \in 1 .. m
    BY <1>1, <1>9
  <2>2. Placed(z, b, u, h, j) /\ Placed(z, b, u, h, j - 1)
    BY <1>3, <2>1
  <2>3. CacheOK(h[j].cache, z, b) /\ CacheOK(h[j - 1].cache, z, b)
    BY <2>2 DEF Placed
  <2>4. u[j].n \in Nat \ {0}
    BY <2>1 DEF Continues, m
  <2>5. PlacedOne(h[j - 1].cache, h[j].cache, u[j], h[q].slots[j], h[q].saved[j])
    BY <1>11
  <2>6. PlacedIn(z, b, h[j - 1].cache, h[j].cache, u[j], h[q].slots[j])
    BY <2>3, <2>4, <2>5, UsableFound
  <2> QED
    BY <1>14, <2>1, <2>6
<1>16. cs[0] = c /\ cs[q] = h[q].cache
  BY <1>1, <1>3, <1>9, <1>14 DEF Start
<1>17. Misses(z, b, c, u, cs, h[q].slots, q)
  BY <1>9, <1>13, <1>15, <1>16 DEF Misses, m
<1> QED
  BY <1>17

LEMMA UsableRoom ==
  ASSUME NEW z \in Nat, NEW b, NEW c, CacheOK(c, z, b), NEW u, NEW slot, Usable(c, u, slot)
  PROVE  FindSlot(c, u.n) # <<>>
<1> DEFINE n == u.n
           F == Free(c)
<1>1. n \in Nat \ {0} /\ IsSlot(slot, Cells(c), n) /\ \A i \in Range(slot) : i \in Cells(c) /\ CanUse(c, i)
  BY DEF Usable
<1>2. /\ slot \in [1 .. n -> Cells(c)]
      /\ \A j, k \in 1 .. n : slot[j] = slot[k] => j = k
      /\ \A k \in 1 .. n : slot[k] \in Range(slot)
  BY <1>1, SlotIs DEF IsSlot
<1>3. IsFiniteSet(F) /\ Cardinality(F) \in Nat
  <2>1. IsFiniteSet(Cells(c)) /\ F \in SUBSET Cells(c)
    BY CellsFinite DEF Free
  <2> QED
    BY <2>1, FS_Subset, FS_CardinalityType
<1>4. slot \in [1 .. n -> F]
  BY <1>1, <1>2 DEF Free
<1> HIDE DEF n, F
<1>5. slot \in Injection(1 .. n, F)
  BY <1>2, <1>4, Fun_IsInj
<1>6. Cardinality(1 .. n) <= Cardinality(F)
  BY <1>3, <1>5, FS_Injection
<1>7. Cardinality(1 .. n) = n
  BY <1>1, FS_Interval
<1>8. ~(Cardinality(F) < n)
  BY <1>1, <1>3, <1>6, <1>7
<1> QED
  BY <1>1, <1>8, SlotIfFree DEF n, F

(* While ubatches that continue a sequence find slots in the base cache,   *)
(* they find slots in the windowed one.                                    *)
Roomy(b, w) ==
  /\ IsBase(b) /\ IsSwa(w) /\ Once(b) /\ Once(w) /\ Agree(b, w)
  /\ Aligned(b, w) /\ Unshared(w)

InBase(b, d, u, slot) == PlacedIn(BaseSize, FALSE, b, d, u, slot)
InSwa(w, e, u, slot)  == PlacedIn(SwaSize, TRUE, w, e, u, slot)

LEMMA PlacedRoomy ==
  ASSUME NEW b, NEW w, Roomy(b, w), NEW u, NEW slot1, NEW slot2, NEW d, NEW e,
         InBase(b, d, u, slot1), InSwa(w, e, u, slot2),
         u.seq \in Seqs, u.pos \in Nat, u.pos + u.n - 1 <= MaxPos, u.pos = SeqPosMax(w, u.seq) + 1
  PROVE  Roomy(d, e) /\ SeqPosMax(e, u.seq) = u.pos + u.n - 1
<1>1. /\ IsBase(b) /\ IsSwa(w) /\ Once(b) /\ Once(w) /\ Agree(b, w) /\ Aligned(b, w) /\ Unshared(w)
  BY DEF Roomy
<1>2. /\ Usable(b, u, slot1) /\ d = ApplyUbatch(b, slot1, u.seq, u.pos)
      /\ Usable(w, u, slot2) /\ e = ApplyUbatch(w, slot2, u.seq, u.pos)
  BY DEF PlacedIn, InBase, InSwa
<1>3. Applying(b, slot1, u.n, u.seq, u.pos) /\ Applying(w, slot2, u.n, u.seq, u.pos)
  BY <1>2 DEF Applying, Usable
<1>4. Fits(b, w, u, slot1, slot2)
  BY <1>2, <1>3 DEF Fits
<1>5. /\ IsBase(d) /\ IsSwa(e) /\ Once(d) /\ Once(e) /\ Agree(d, e)
      /\ SeqPosMax(e, u.seq) = u.pos + u.n - 1
  BY <1>1, <1>2, <1>4, PutAgrees
<1>6. Aligned(d, e)
  BY <1>1, <1>2, <1>4, <1>5, PutAligned
<1>7. Unshared(e)
  BY <1>1, <1>2, <1>3, PutUnshared
<1> QED
  BY <1>5, <1>6, <1>7 DEF Roomy

LEMMA NothingMissed ==
  ASSUME NEW b, NEW w, Roomy(b, w), NEW u, Continues(u), NEW s \in Seqs, NEW end,
         Consecutive(u, s, SeqPosMax(w, s) + 1, end),
         NEW p, Prepared(BaseSize, FALSE, b, u, p), p.found,
         NEW ds, NEW slots, NEW q, Misses(SwaSize, TRUE, w, u, ds, slots, q)
  PROVE  FALSE
<1> DEFINE m == Len(u)
<1>1. /\ m \in Nat \ {0} /\ u[1].pos = SeqPosMax(w, s) + 1
      /\ \A k \in 1 .. m :
           /\ u[k].seq = s /\ u[k].n \in 1 .. UBatch /\ u[k].pos \in Nat /\ u[k].pos + u[k].n - 1 <= MaxPos
           /\ k < m => u[k + 1].pos = u[k].pos + u[k].n
  BY DEF Consecutive, Continues
<1>2. PICK cs : cs[0] = b /\ \A j \in 1 .. m : PlacedIn(BaseSize, FALSE, cs[j - 1], cs[j], u[j], p.slots[j])
  BY DEF Prepared
<1>3. /\ q \in 0 .. m - 1 /\ ds[0] = w
      /\ \A j \in 1 .. q : PlacedIn(SwaSize, TRUE, ds[j - 1], ds[j], u[j], slots[j])
      /\ FindSlot(ds[q], u[q + 1].n) = <<>>
  BY DEF Misses
<1> DEFINE Good(k) == Roomy(cs[k], ds[k]) /\ u[k + 1].pos = SeqPosMax(ds[k], s) + 1
           S == {k \in 0 .. q : Good(k)}
<1> HIDE DEF m
<1>4. q \in Nat /\ 0 \in 0 .. q /\ q \in 0 .. q /\ q + 1 \in 1 .. m /\ q + 1 - 1 = q
  BY <1>1, <1>3
<1>5. 0 \in S
  <2>1. 0 + 1 = 1 /\ cs[0] = b /\ ds[0] = w
    BY <1>2, <1>3
  <2>2. Good(0)
    BY <1>1, <2>1
  <2> QED
    BY <1>4, <2>2
<1>6. \A k \in 0 .. q - 1 : k \in S => k + 1 \in S
  <2> TAKE k \in 0 .. q - 1
  <2> HAVE k \in S
  <2> DEFINE j == k + 1
  <2>1. j \in 0 .. q /\ j \in 1 .. q /\ j \in 1 .. m /\ j - 1 = k /\ j < m
    BY <1>1, <1>3, <1>4
  <2>2. Roomy(cs[k], ds[k]) /\ u[j].pos = SeqPosMax(ds[k], s) + 1
    OBVIOUS
  <2> HIDE DEF j
  <2>3. InBase(cs[k], cs[j], u[j], p.slots[j])
    BY <1>2, <2>1 DEF InBase
  <2>4. InSwa(ds[k], ds[j], u[j], slots[j])
    BY <1>3, <2>1 DEF InSwa
  <2>5. /\ u[j].seq = s /\ u[j].n \in 1 .. UBatch /\ u[j].pos \in Nat /\ u[j].pos + u[j].n - 1 <= MaxPos
        /\ u[j + 1].pos = u[j].pos + u[j].n
    BY <1>1, <2>1
  <2>6. Roomy(cs[j], ds[j]) /\ SeqPosMax(ds[j], s) = u[j].pos + u[j].n - 1
    BY <2>2, <2>3, <2>4, <2>5, PlacedRoomy
  <2>7. u[j + 1].pos = SeqPosMax(ds[j], s) + 1
    BY <2>5, <2>6, Sizes
  <2>8. Good(j)
    BY <2>6, <2>7
  <2> HIDE DEF Good
  <2> QED
    BY <2>1, <2>8 DEF j
<1> HIDE DEF S
<1>7. 0 .. q \subseteq S
  BY <1>4, <1>5, <1>6, UpTo
<1>8. Good(q)
  BY <1>4, <1>7 DEF S
<1>9. PlacedIn(BaseSize, FALSE, cs[q], cs[q + 1], u[q + 1], p.slots[q + 1])
  <2> DEFINE k == q + 1
  <2>1. k \in 1 .. m /\ k - 1 = q
    BY <1>4
  <2> HIDE DEF k
  <2>2. PlacedIn(BaseSize, FALSE, cs[q], cs[k], u[k], p.slots[k])
    BY <1>2, <2>1
  <2> QED
    BY <2>2 DEF k
<1>10. CacheOK(cs[q], BaseSize, FALSE) /\ Usable(cs[q], u[q + 1], p.slots[q + 1])
  BY <1>9 DEF PlacedIn
<1>11. FindSlot(cs[q], u[q + 1].n) # <<>>
  BY <1>10, UsableRoom, SwaSizeIs
<1>12. u[q + 1].n \in 1 .. UBatch
  BY <1>1, <1>4
<1>13. FindSlot(ds[q], u[q + 1].n) # <<>>
  BY <1>8, <1>11, <1>12, RoomFor DEF Roomy
<1> QED
  BY <1>3, <1>13

LEMMA TryFindsSwa ==
  ASSUME NEW b, NEW w, Roomy(b, w), NEW u, Continues(u), NEW s \in Seqs, NEW end,
         Consecutive(u, s, SeqPosMax(w, s) + 1, end)
  PROVE  Try(b, w, u).refused # "swa"
<1> DEFINE p == Prepare(b, u)
           q == Prepare(w, u)
           t == Try(b, w, u)
<1> SUFFICES ASSUME t.refused = "swa" PROVE FALSE
  OBVIOUS
<1>1. BaseSize \in Nat /\ SwaSize \in Nat /\ IsBase(b) /\ IsSwa(w)
  BY SwaSizeIs DEF Roomy
<1>2. Prepared(BaseSize, FALSE, b, u, p)
  BY <1>1, PrepareDoes DEF IsBase
<1>3. t = IF p.found
          THEN [refused |-> IF q.found THEN "no" ELSE "swa", base |-> p.cache,
                swa |-> q.cache, slots |-> <<p.slots, q.slots>>]
          ELSE [refused |-> "base", base |-> p.cache, swa |-> w]
  BY DEF Try
<1> HIDE DEF p, t
<1>4. p.found /\ ~q.found
  <2> HIDE DEF q
  <2> QED
    BY <1>3
<1>5. \E cs, slots, k : Misses(SwaSize, TRUE, w, u, cs, slots, k)
  BY <1>1, <1>4, MissedIs DEF IsSwa
<1> QED
  BY <1>2, <1>4, <1>5, NothingMissed

LEMMA RefusedByBase ==
  ASSUME NEW b, NEW w, Roomy(b, w), NEW u, Continues(u), Short(b, u), NEW s \in Seqs, NEW end,
         Consecutive(u, s, SeqPosMax(w, s) + 1, end)
  PROVE  InitBatch(b, w, u).refused # "swa"
<1> DEFINE first == Try(b, w, u)
           second == Try(first.base, first.swa, u)
           r == InitBatch(b, w, u)
<1>1. IsBase(b) /\ IsSwa(w) /\ Agree(b, w)
  BY DEF Roomy
<1>2. r = IF first.refused = "no" THEN first ELSE second
  BY DEF InitBatch
<1>3. Tried(b, w, u, first)
  BY <1>1, TryIs
<1>4. first.refused # "swa"
  BY TryFindsSwa
<1>5. CASE first.refused = "no"
  BY <1>2, <1>5
<1>6. CASE first.refused # "no"
  <2>1. first.base = b /\ Undone(SwaSize, TRUE, first.swa, w) /\ (Len(u) = 1 => first.swa = w)
    BY <1>3, <1>6 DEF Tried
  <2>2. first.swa = w
    <3> HIDE DEF first
    <3>1. CASE Used(b) = {}
      BY <1>1, <2>1, <3>1, EmptyKept
    <3> QED
      BY <2>1, <3>1 DEF Short
  <2>3. second.refused # "swa"
    BY <2>1, <2>2, TryFindsSwa
  <2> HIDE DEF first, second, r
  <2> QED
    BY <1>2, <1>6, <2>3 DEF r
<1> QED
  BY <1>5, <1>6

-----------------------------------------------------------------------------
(* The invariant for it: the caches stay aligned, and a call that the      *)
(* windowed cache refused found cells of it shared.                        *)
Left(c, d) == Cells(d) = Cells(c) /\ Part(d, c)

LEMMA RmLeft ==
  ASSUME NEW z \in Nat, NEW b, NEW c, CacheOK(c, z, b), NEW s, NEW p \in Nat, NEW d, d = SeqRm(c, s, p)
  PROVE  Left(c, d)
<1>1. /\ CacheOK(d, z, b)
      /\ \A i \in Cells(c) :
           Holds(d, i, c.cells[i].pos, {t \in c.cells[i].seqs : t = s => c.cells[i].pos < p})
  BY SeqRmIs, ZenonT(60)
<1>2. Cells(d) = Cells(c)
  BY <1>1, CacheIs
<1> QED
  BY <1>1, <1>2 DEF Left, Part, Holds

LEMMA KeepLeft ==
  ASSUME NEW z \in Nat, NEW b, NEW c, CacheOK(c, z, b), NEW s \in Seqs, NEW d, d = SeqKeep(c, s)
  PROVE  Left(c, d)
<1>1. /\ CacheOK(d, z, b)
      /\ \A i \in Cells(c) : Holds(d, i, c.cells[i].pos, {t \in c.cells[i].seqs : t = s})
  BY SeqKeepIs, ZenonT(60)
<1>2. Cells(d) = Cells(c)
  BY <1>1, CacheIs
<1> QED
  BY <1>1, <1>2 DEF Left, Part, Holds

LEMMA BaseLeft ==
  ASSUME NEW c, IsBase(c), NEW s \in Seqs
  PROVE  Left(c, SeqKeep(c, s)) /\ \A p \in Nat : Left(c, SeqRm(c, s, p))
BY RmLeft, KeepLeft, SwaSizeIs DEF IsBase

LEMMA SwaLeft ==
  ASSUME NEW c, IsSwa(c), NEW s \in Seqs
  PROVE  Left(c, SeqKeep(c, s)) /\ \A p \in Nat : Left(c, SeqRm(c, s, p))
BY RmLeft, KeepLeft, SwaSizeIs DEF IsSwa

LEMMA AlignedLeft ==
  ASSUME NEW b, NEW w, Aligned(b, w), NEW d, NEW e, Left(b, d), Left(w, e)
  PROVE  Aligned(d, e)
BY AlignedPart DEF Left

LEMMA NewAligned == Aligned(NewCache(BaseSize, FALSE), NewCache(SwaSize, TRUE))
BY DEF Aligned, NewCache, NoCell, Cells

Admits ==
  /\ Coherent /\ Aligned(base, swa)
  /\ call.pc # "idle" => call.refused = "no"
  /\ call.refused = "swa" => ~Unshared(swa)

LEMMA AdmitsIf ==
  ASSUME Coherent', Aligned(base', swa'), call'.refused = "no"
  PROVE  Admits'
<1>1. Aligned(base, swa)'
  BY DEF Aligned, At
<1> QED
  BY <1>1 DEF Admits

LEMMA EditAdmits == ASSUME Admits, Coherent', Edit(Cut \/ ShareOrKeep) PROVE Admits'
<1>1. /\ IsBase(base) /\ IsSwa(swa) /\ Once(swa) /\ Aligned(base, swa) /\ Agree(base, swa)
  BY DEF Admits, Coherent, IInv
<1>2. call' = Idle /\ Idle.refused = "no"
  BY DEF Edit, Cut, ShareOrKeep, CutSequence, ShareSequence, KeepSequence, Edits, Idle
<1>3. Cut \/ ShareOrKeep
  BY DEF Edit
<1>4. ASSUME NEW s \in Seqs, NEW p \in 0 .. MaxPos, CutSequence(s, p) PROVE Aligned(base', swa')
  <2>1. base' = SeqRm(base, s, p) /\ swa' = SeqRm(swa, s, p) /\ p \in Nat
    BY <1>4, Sizes DEF CutSequence, Edits
  <2>2. Left(base, base') /\ Left(swa, swa')
    BY <1>1, <2>1, BaseLeft, SwaLeft
  <2> QED
    BY <1>1, <2>2, AlignedLeft
<1>5. ASSUME NEW s \in Seqs, KeepSequence(s) PROVE Aligned(base', swa')
  <2>1. base' = SeqKeep(base, s) /\ swa' = SeqKeep(swa, s)
    BY <1>5 DEF KeepSequence, Edits
  <2>2. Left(base, base') /\ Left(swa, swa')
    BY <1>1, <2>1, BaseLeft, SwaLeft
  <2> QED
    BY <1>1, <2>2, AlignedLeft
<1>6. ASSUME NEW s \in Seqs, NEW t \in Seqs \ {s}, ShareSequence(s, t) PROVE Aligned(base', swa')
  <2>1. base' = SeqCp(base, s, t) /\ swa' = SeqCp(swa, s, t) /\ Positions(base, t) = {}
    BY <1>6 DEF ShareSequence, Edits
  <2>2. Positions(swa, t) = {}
    <3>1. Sees(base, swa, t, SeqPosMax(swa, t), SeqPosMax(swa, t) + 1) /\ SeqPosMax(swa, t) \in Int
      BY <1>1, SwaTop DEF Agree
    <3>2. SeqPosMax(swa, t) + 1 \in Int /\ SeqPosMax(swa, t) + 1 <= SeqPosMax(swa, t) + 1
      BY <3>1
    <3>3. Positions(swa, t) \subseteq Positions(base, t)
      BY <1>1, <3>1, <3>2, Tops
    <3> QED
      BY <2>1, <3>3
  <2> QED
    BY <1>1, <2>1, <2>2, AlignedCp
<1>7. Aligned(base', swa')
  BY <1>3, <1>4, <1>5, <1>6 DEF Cut, ShareOrKeep
<1> QED
  BY <1>2, <1>7, AdmitsIf

LEMMA DecodeAdmits ==
  ASSUME Admits, Coherent', NEW s \in Seqs, NEW n \in Submitted, Decode(s, n), n <= UBatch \/ Used(base) = {}
  PROVE  Admits'
<1>1. /\ IsBase(base) /\ IsSwa(swa) /\ Once(base) /\ Once(swa) /\ Aligned(base, swa) /\ Agree(base, swa)
  BY DEF Admits, Coherent, IInv
<1>2. PICK u, r : Decoded(s, n, u, r)
  BY <1>1, DecodeDoes
<1>3. /\ u = Split(s, SeqPosMax(swa, s) + 1, n)
      /\ Continues(u) /\ Consecutive(u, s, SeqPosMax(swa, s) + 1, SeqPosMax(swa, s) + 1 + n)
      /\ Short(base, u) /\ Tried(base, swa, u, r)
      /\ base' = r.base /\ swa' = r.swa
      /\ call' = IF r.refused = "no" THEN [pc |-> "prepared", todo |-> Filled(s, u, r.slots), refused |-> "no"]
                 ELSE [pc |-> "idle", todo |-> <<>>, refused |-> r.refused]
  BY <1>2 DEF Decoded, Short
<1>4. r.base = base /\ Undone(SwaSize, TRUE, r.swa, swa)
  BY <1>3 DEF Tried
<1>5. Aligned(base', swa')
  <2>1. Left(swa, swa')
    <3>1. IsSwa(swa') /\ Part(swa', swa)
      BY <1>3, <1>4 DEF Undone, IsSwa
    <3>2. Cells(swa') = 0 .. SwaSize - 1 /\ Cells(swa) = 0 .. SwaSize - 1
      BY <1>1, <3>1, CacheIs DEF IsSwa
    <3> QED
      BY <3>1, <3>2 DEF Left
  <2>2. Left(base, base')
    BY <1>3, <1>4, PartSame DEF Left
  <2> QED
    BY <1>1, <2>1, <2>2, AlignedLeft
<1>6. CASE r.refused = "no"
  BY <1>3, <1>5, <1>6, AdmitsIf
<1>7. CASE r.refused # "no"
  <2>1. call'.pc = "idle" /\ call'.refused = r.refused
    BY <1>3, <1>7
  <2>2. swa' = swa
    <3>1. CASE Len(u) = 1
      BY <1>3, <1>7, <3>1 DEF Tried
    <3>2. CASE Used(base) = {}
      BY <1>1, <1>3, <1>4, <3>2, EmptyKept
    <3> QED
      BY <1>3, <3>1, <3>2 DEF Short
  <2>3. ASSUME Unshared(swa) PROVE call'.refused # "swa"
    <3> DEFINE v == Split(s, SeqPosMax(swa, s) + 1, n)
               t == InitBatch(base, swa, v)
    <3>1. call' = IF t.refused # "no" THEN [Idle EXCEPT !.refused = t.refused]
                  ELSE [Idle EXCEPT !.pc = "prepared", !.todo = [k \in DOMAIN v |->
                         [seq |-> s, pos |-> v[k].pos, n |-> v[k].n,
                          slots |-> <<t.slots[1][k], t.slots[2][k]>>]]]
      BY DEF Decode
    <3>2. t.refused # "swa"
      <4>1. Roomy(base, swa)
        BY <1>1, <2>3 DEF Roomy
      <4>2. InitBatch(base, swa, u).refused # "swa"
        BY <1>3, <4>1, RefusedByBase
      <4> QED
        BY <1>3, <4>2
    <3> HIDE DEF t, v
    <3>3. CASE t.refused # "no"
      <4>1. call' = [Idle EXCEPT !.refused = t.refused]
        BY <3>1, <3>3
      <4>2. call' = [pc |-> "idle", todo |-> <<>>, refused |-> t.refused]
        BY <4>1, IdleWith
      <4> QED
        BY <3>2, <4>2
    <3>4. CASE t.refused = "no"
      <4> DEFINE T == [k \in DOMAIN v |-> [seq |-> s, pos |-> v[k].pos, n |-> v[k].n,
                                           slots |-> <<t.slots[1][k], t.slots[2][k]>>]]
      <4>1. call' = [Idle EXCEPT !.pc = "prepared", !.todo = T]
        BY <3>1, <3>4
      <4> HIDE DEF T
      <4>2. call' = [pc |-> "prepared", todo |-> T, refused |-> "no"]
        BY <4>1, IdleWith
      <4> QED
        BY <4>2
    <3> QED
      BY <3>3, <3>4
  <2>4. Aligned(base, swa)'
    BY <1>5 DEF Aligned, At
  <2>5. (call.refused = "swa" => ~Unshared(swa))'
    BY <2>2, <2>3 DEF Unshared
  <2> QED
    BY <2>1, <2>4, <2>5 DEF Admits
<1> QED
  BY <1>6, <1>7

LEMMA ApplyAdmits == ASSUME Admits, Coherent', Apply PROVE Admits'
<1>1. /\ IInv /\ IsBase(base) /\ IsSwa(swa) /\ Once(base) /\ Once(swa)
      /\ Aligned(base, swa) /\ Agree(base, swa)
  BY DEF Admits, Coherent, IInv
<1>2. call.pc \in {"prepared", "place"} /\ call.pc # "idle" /\ call.refused = "no"
  BY DEF Apply, Admits
<1>3. TodoOK(call.todo) /\ Ubatch = call.todo[1] /\ Follows(base, swa, call.todo)
  BY <1>1, <1>2, AtHand DEF Admits, Coherent, Waiting
<1>4. PICK v, slot1, slot2 : v = Ubatch /\ slot1 = Ubatch.slots[1] /\ slot2 = Ubatch.slots[2]
  OBVIOUS
<1>5. Fits(base, swa, v, slot1, slot2)
  BY <1>1, <1>3, <1>4, FirstFits
<1>6. base' = ApplyUbatch(base, slot1, v.seq, v.pos) /\ swa' = ApplyUbatch(swa, slot2, v.seq, v.pos)
  BY <1>4 DEF Apply
<1>7. Once(swa')
  BY DEF Coherent, Once
<1>8. Aligned(base', swa')
  BY <1>1, <1>5, <1>6, <1>7, PutAligned
<1>9. call'.refused = call.refused
  BY <1>1 DEF Apply, IInv, CallOK
<1> QED
  BY <1>2, <1>8, <1>9, AdmitsIf

LEMMA ComputedAdmits == ASSUME Admits, Coherent', Computed \/ OutputsFail PROVE Admits'
<1>1. base' = base /\ swa' = swa /\ call.pc # "idle" /\ call.refused = "no" /\ Aligned(base, swa)
  BY DEF Computed, OutputsFail, Admits
<1>2. Idle.refused = "no" /\ CallOK
  BY DEF Idle, Admits, Coherent, IInv
<1>3. call'.refused = "no"
  BY <1>1, <1>2 DEF Computed, OutputsFail, CallOK
<1> QED
  BY <1>1, <1>3, AdmitsIf

LEMMA ComputeFailsAdmits == ASSUME Admits, Coherent', ComputeFails PROVE Admits'
<1>1. /\ IInv /\ IsBase(base) /\ IsSwa(swa) /\ Aligned(base, swa)
      /\ call.pc = "compute" /\ call.pc # "idle"
  BY DEF Admits, Coherent, IInv, ComputeFails
<1>2. PICK s, p : s = Ubatch.seq /\ p = Ubatch.pos
  OBVIOUS
<1>3. s \in Seqs /\ p \in Nat
  BY <1>1, <1>2, AtHand DEF Applying
<1>4. base' = SeqRm(base, s, p) /\ swa' = SeqRm(swa, s, p) /\ call' = Idle
  BY <1>2 DEF ComputeFails, Removes
<1>5. Left(base, base') /\ Left(swa, swa')
  BY <1>1, <1>3, <1>4, BaseLeft, SwaLeft
<1>6. Aligned(base', swa') /\ call'.refused = "no"
  BY <1>1, <1>4, <1>5, AlignedLeft DEF Idle
<1> QED
  BY <1>6, AdmitsIf

LEMMA NextAdmits == ASSUME Admits, Coherent', [MCNext]_<<vars, edits>> PROVE Admits'
<1>1. ASSUME MCClear PROVE Admits'
  <2>1. Aligned(base', swa') /\ call'.refused = "no"
    BY <1>1, NewAligned DEF MCClear, Clear, Idle
  <2> QED
    BY <2>1, AdmitsIf
<1>2. ASSUME Edit(Cut \/ ShareOrKeep) PROVE Admits'
  BY <1>2, EditAdmits
<1>3. ASSUME Call(Used(base) # {}) PROVE Admits'
  <2>1. ASSUME NEW s \in Seqs, NEW n \in Submitted, Used(base) # {} => n <= UBatch, Decode(s, n)
        PROVE  Admits'
    BY <2>1, DecodeAdmits
  <2>2. ASSUME Apply PROVE Admits'
    BY <2>2, ApplyAdmits
  <2>3. ASSUME Computed \/ OutputsFail PROVE Admits'
    BY <2>3, ComputedAdmits
  <2>4. ASSUME ComputeFails PROVE Admits'
    BY <2>4, ComputeFailsAdmits
  <2> QED
    BY <1>3, <2>1, <2>2, <2>3, <2>4 DEF Call
<1>4. ASSUME UNCHANGED <<vars, edits>> PROVE Admits'
  BY <1>4 DEF vars, Admits, Aligned, At, Unshared
<1> QED
  BY <1>1, <1>2, <1>3, <1>4 DEF MCNext

LEMMA MCInitAdmits == MCInit => Admits
<1> SUFFICES ASSUME MCInit PROVE Admits
  OBVIOUS
<1>1. Aligned(base, swa) /\ call.refused = "no"
  BY NewAligned DEF MCInit, Init, Idle
<1> QED
  BY <1>1, MCInitCoherent DEF Admits

LEMMA SharedIf == ASSUME IsSwa(swa), ~Unshared(swa) PROVE Shared
<1>1. PICK i \in Cells(swa) : \E s, t \in swa.cells[i].seqs : s # t
  BY DEF Unshared
<1>2. PICK s \in swa.cells[i].seqs, t \in swa.cells[i].seqs : s # t
  BY <1>1
<1>3. swa.cells[i].seqs \in SUBSET Seqs
  BY SwaIs
<1>4. IsFiniteSet(swa.cells[i].seqs)
  BY <1>3, CacheAssumption, FS_Subset
<1>5. {s, t} \in SUBSET swa.cells[i].seqs
  BY <1>2
<1>6. Cardinality({s, t}) <= Cardinality(swa.cells[i].seqs)
  BY <1>4, <1>5, FS_Subset
<1>7. Cardinality({s, t}) = 2
  <2>1. IsFiniteSet({s}) /\ Cardinality({s}) = 1
    BY FS_Singleton
  <2>2. t \notin {s} /\ {s} \cup {t} = {s, t}
    BY <1>2
  <2>3. Cardinality({s} \cup {t}) = Cardinality({s}) + 1
    BY <2>1, <2>2, FS_AddElement
  <2> QED
    BY <2>1, <2>2, <2>3
<1>8. Cardinality(swa.cells[i].seqs) \in Nat
  BY <1>4, FS_CardinalityType
<1>9. Cardinality(swa.cells[i].seqs) > 1
  BY <1>6, <1>7, <1>8
<1> QED
  BY <1>9 DEF Shared

(* The windowed cache, the smaller one, is large enough: it refuses a      *)
(* batch that the base cache has room for only when sequences share cells  *)
(* of it, which keep out of reuse what none of them looks at any longer    *)
(* (the size chosen in llama_kv_cache_iswa, and the cells that find_slot   *)
(* lets a ubatch reuse).                                                   *)
THEOREM WindowedCacheHasRoom == MCSpec => []RoomInSwa
<1>1. Coherent /\ Coherent' /\ Admits /\ [MCNext]_<<vars, edits>> => Admits'
  BY NextAdmits
<1>2. MCSpec => []Admits
  BY MCInitAdmits, CoherentInvariance, <1>1, PTL DEF MCSpec
<1>3. Admits => RoomInSwa
  <2> SUFFICES ASSUME Admits, call.refused = "swa" PROVE Shared
    BY DEF RoomInSwa
  <2>1. IsSwa(swa) /\ ~Unshared(swa)
    BY DEF Admits, Coherent, IInv
  <2> QED
    BY <2>1, SharedIf
<1> QED
  BY <1>2, <1>3, PTL

-----------------------------------------------------------------------------
(* What callers see of it: the caches implement SequenceMemory.            *)

(* How many tokens of a sequence are in the memory: while a ubatch is      *)
(* computed, those before it.                                              *)
Size(s) == IF call.pc = "compute" /\ s = Ubatch.seq THEN Ubatch.pos ELSE SeqPosMax(swa, s) + 1

(* While a ubatch is computed, all there is of it is torn.                 *)
AllTorn ==
  call.pc = "compute" =>
    \A i \in CellsOf(base, Ubatch.seq) : base.cells[i].pos >= Ubatch.pos => i \in torn.base

(* What can be used of positions B and W, of which those from L on are     *)
(* torn, in the caches b and w.                                            *)
KnownFrom(b, w, x, y, s, a) == {q \in Held(b, x, s) : q \in Held(w, y, s) \/ IsMasked(q, a)}

LEMMA HeldIs ==
  ASSUME NEW c, NEW s, NEW x, NEW q
  PROVE  q \in Held(c, x, s) <=> \E i \in CellsOf(c, s) : i \notin x /\ c.cells[i].pos = q
BY DEF Held

LEMMA KnownAre ==
  ASSUME NEW b, NEW w, NEW x, NEW y, NEW s, NEW t, NEW L \in Nat, L <= t + 1, Sees(b, w, s, t, L),
         \A i \in CellsOf(b, s) : i \in x <=> b.cells[i].pos >= L,
         \A i \in CellsOf(w, s) : i \in y => w.cells[i].pos >= L
  PROVE  KnownFrom(b, w, x, y, s, t + 1) = 0 .. L - 1
<1>1. /\ t \in -1 .. MaxPos /\ Positions(b, s) = 0 .. t /\ Positions(w, s) \subseteq 0 .. t
      /\ \A q \in 0 .. t : L - q < Window => q \in Positions(w, s)
  BY DEF Sees, Seen
<1>2. t \in Int
  BY <1>1, Sizes
<1>3. ASSUME NEW q, q \in KnownFrom(b, w, x, y, s, t + 1) PROVE q \in 0 .. L - 1
  <2>1. PICK i \in CellsOf(b, s) : i \notin x /\ b.cells[i].pos = q
    BY <1>3, HeldIs DEF KnownFrom
  <2>2. q \in 0 .. t
    <3>1. b.cells[i].pos \in Positions(b, s)
      BY DEF Positions
    <3> QED
      BY <1>1, <2>1, <3>1
  <2>3. ~(q >= L)
    BY <2>1
  <2> QED
    BY <1>2, <2>2, <2>3
<1>4. ASSUME NEW q \in 0 .. L - 1 PROVE q \in KnownFrom(b, w, x, y, s, t + 1)
  <2>1. q \in 0 .. t /\ ~(q >= L)
    BY <1>2
  <2>2. PICK i \in CellsOf(b, s) : b.cells[i].pos = q
    <3>1. q \in Positions(b, s)
      BY <1>1, <2>1
    <3> QED
      BY <3>1 DEF Positions
  <2>3. q \in Held(b, x, s)
    BY <2>1, <2>2, HeldIs
  <2>4. ASSUME ~IsMasked(q, t + 1) PROVE q \in Held(w, y, s)
    <3>1. L - q < Window
      BY <1>2, <2>1, <2>4, Sizes DEF IsMasked
    <3>2. PICK j \in CellsOf(w, s) : w.cells[j].pos = q
      <4>1. q \in Positions(w, s)
        BY <1>1, <2>1, <3>1
      <4> QED
        BY <4>1 DEF Positions
    <3> QED
      BY <2>1, <3>2, HeldIs
  <2> QED
    BY <2>3, <2>4 DEF KnownFrom
<1> QED
  BY <1>3, <1>4

(* The base cache holds a sequence from its first position to the last.    *)
LEMMA WholeInBase ==
  ASSUME NEW b, NEW w, Agree(b, w), NEW s \in Seqs
  PROVE  /\ SeqPosMax(w, s) \in -1 .. MaxPos /\ SeqPosMax(w, s) \in Int
         /\ Positions(b, s) = 0 .. SeqPosMax(w, s)
<1>1. SeqPosMax(w, s) \in -1 .. MaxPos /\ Positions(b, s) = 0 .. SeqPosMax(w, s)
  BY DEF Agree, Sees, Seen
<1> QED
  BY <1>1, Sizes

LEMMA SameEnd ==
  ASSUME NEW t, NEW e, t \in -1 .. MaxPos, e \in -1 .. MaxPos, 0 .. t = 0 .. e
  PROVE  t = e
<1>1. t \in Int /\ e \in Int /\ t >= -1 /\ e >= -1
  BY Sizes
<1>2. t >= 0 => t \in 0 .. e
  BY <1>1
<1>3. e >= 0 => e \in 0 .. t
  BY <1>1
<1> QED
  BY <1>1, <1>2, <1>3

(* What is not the ubatch at hand is not torn.                             *)
LEMMA TornIs ==
  ASSUME Coherent, AllTorn
  PROVE  /\ call.pc = "compute" =>
              /\ \A i \in CellsOf(base, Ubatch.seq) : i \in torn.base <=> base.cells[i].pos >= Ubatch.pos
              /\ \A i \in CellsOf(swa, Ubatch.seq) : i \in torn.swa => swa.cells[i].pos >= Ubatch.pos
         /\ \A s \in Seqs : call.pc # "compute" \/ s # Ubatch.seq =>
              /\ \A i \in CellsOf(base, s) : i \notin torn.base
              /\ \A i \in CellsOf(swa, s) : i \notin torn.swa
<1>1. TornOK
  BY DEF Coherent, IInv
<1>2. \A s, i : /\ i \in CellsOf(base, s) => s \in base.cells[i].seqs
                /\ i \in CellsOf(swa, s) => s \in swa.cells[i].seqs
  BY DEF CellsOf
<1>3. CASE call.pc = "compute"
  <2>1. Pending(torn.base, base) /\ Pending(torn.swa, swa)
    BY <1>1, <1>3 DEF TornOK
  <2> QED
    BY <1>2, <1>3, <2>1 DEF Pending, AllTorn
<1>4. CASE call.pc # "compute"
  <2>1. torn.base = {} /\ torn.swa = {}
    BY <1>1, <1>4 DEF TornOK, NoneTorn
  <2> QED
    BY <1>4, <2>1
<1> QED
  BY <1>3, <1>4

LEMMA KnownIs ==
  ASSUME Coherent, AllTorn, NEW s \in Seqs
  PROVE  Size(s) \in Nat /\ Known(s) = 0 .. Size(s) - 1
<1>1. /\ IsBase(base) /\ IsSwa(swa) /\ Agree(base, swa)
      /\ SeqPosMax(swa, s) \in -1 .. MaxPos /\ SeqPosMax(swa, s) \in Int
  BY WholeInBase DEF Coherent, IInv
<1>2. Known(s) = KnownFrom(base, swa, torn.base, torn.swa, s, SeqPosMax(base, s) + 1)
  BY DEF Known, KnownFrom
<1>3. SeqPosMax(base, s) = SeqPosMax(swa, s)
  BY CoherentTops
<1>4. CASE call.pc = "compute" /\ s = Ubatch.seq
  <2>1. PICK t, L : t = Ubatch.pos + Ubatch.n - 1 /\ L = Ubatch.pos
    OBVIOUS
  <2>2. L \in Nat /\ L <= t + 1
    <3>1. call.pc # "idle" /\ IInv
      BY <1>4 DEF Coherent
    <3>2. Ubatch.pos \in Nat /\ Ubatch.n \in Nat \ {0}
      BY <3>1, AtHand DEF Applying
    <3> QED
      BY <2>1, <3>2
  <2>3. Sees(base, swa, s, t, L)
    BY <1>4, <2>1 DEF Coherent, Computing
  <2>4. SeqPosMax(base, s) = t
    BY <1>1, <2>2, <2>3, Tops
  <2>5. /\ \A i \in CellsOf(base, s) : i \in torn.base <=> base.cells[i].pos >= L
        /\ \A i \in CellsOf(swa, s) : i \in torn.swa => swa.cells[i].pos >= L
    BY <1>4, <2>1, TornIs
  <2>6. KnownFrom(base, swa, torn.base, torn.swa, s, t + 1) = 0 .. L - 1
    BY <2>2, <2>3, <2>5, KnownAre
  <2> QED
    BY <1>2, <1>4, <2>1, <2>2, <2>4, <2>6 DEF Size
<1>5. CASE ~(call.pc = "compute" /\ s = Ubatch.seq)
  <2>1. PICK t, L : t = SeqPosMax(swa, s) /\ L = t + 1
    OBVIOUS
  <2>2. L \in Nat /\ L <= t + 1 /\ t \in Int
    BY <1>1, <2>1
  <2>3. Sees(base, swa, s, t, L)
    BY <1>1, <2>1 DEF Agree
  <2>4. /\ \A i \in CellsOf(base, s) : i \notin torn.base
        /\ \A i \in CellsOf(swa, s) : i \in torn.swa => swa.cells[i].pos >= L
    BY <1>5, TornIs
  <2>5. \A i \in CellsOf(base, s) : base.cells[i].pos \in Int /\ base.cells[i].pos <= t
    <3>1. \A i \in CellsOf(base, s) : base.cells[i].pos \in Positions(base, s)
      BY DEF Positions
    <3>2. Positions(base, s) = 0 .. t
      BY <1>1, <2>1, WholeInBase
    <3> QED
      BY <2>2, <3>1, <3>2
  <2>6. \A i \in CellsOf(base, s) : i \in torn.base <=> base.cells[i].pos >= L
    BY <2>1, <2>2, <2>4, <2>5
  <2>7. L \in Nat /\ L <= t + 1
    BY <2>2
  <2>8. /\ \A i \in CellsOf(base, s) : i \in torn.base <=> base.cells[i].pos >= L
        /\ \A i \in CellsOf(swa, s) : i \in torn.swa => swa.cells[i].pos >= L
    BY <2>4, <2>6
  <2>9. KnownFrom(base, swa, torn.base, torn.swa, s, t + 1) = 0 .. L - 1
    BY <2>3, <2>7, <2>8, KnownAre
  <2> QED
    BY <1>2, <1>3, <1>5, <2>1, <2>2, <2>9 DEF Size
<1> QED
  BY <1>4, <1>5

(* The tokens of a sequence are counted by its size.                       *)
Said == Tokens = [s \in Seqs |-> Size(s)] /\ \A s \in Seqs : Size(s) \in Nat

LEMMA TokensAre == ASSUME Coherent, AllTorn PROVE Said
<1>1. ASSUME NEW s \in Seqs PROVE Size(s) \in Nat /\ Cardinality(Known(s)) = Size(s)
  <2>1. PICK n : n = Size(s)
    OBVIOUS
  <2>2. n \in Nat /\ Known(s) = 0 .. n - 1
    BY <2>1, KnownIs
  <2>3. Cardinality(0 .. n - 1) = n
    <3>1. 0 \in Int /\ n - 1 \in Int
      BY <2>2
    <3>2. Cardinality(0 .. n - 1) = IF 0 > n - 1 THEN 0 ELSE (n - 1) - 0 + 1
      BY <3>1, FS_Interval
    <3> QED
      BY <2>2, <3>2
  <2> QED
    BY <2>1, <2>2, <2>3
<1> QED
  BY <1>1 DEF Said, Tokens

(* Where a ubatch was placed, its positions are in its slot only.          *)
LEMMA InSlot ==
  ASSUME NEW z \in Nat, NEW f, NEW b, CacheOK(b, z, f), NEW n, NEW slot, NEW s, NEW p,
         Applying(b, slot, n, s, p),
         \A q \in Positions(b, s) : q < p, NEW d, d = ApplyUbatch(b, slot, s, p)
  PROVE  \A i \in CellsOf(d, s) : d.cells[i].pos >= p => i \in Range(slot) /\ i \in Used(d)
<1>1. /\ CacheOK(d, z, f)
      /\ \A i \in Cells(b) \ Range(slot) :
           Holds(d, i, b.cells[i].pos, {t \in b.cells[i].seqs : b.cells[i].pos > Lost(b, slot, t)})
  BY Applied
<1>2. Cells(d) = Cells(b)
  BY <1>1, CacheIs
<1> SUFFICES ASSUME NEW i \in CellsOf(d, s), d.cells[i].pos >= p
             PROVE  i \in Range(slot) /\ i \in Used(d)
  OBVIOUS
<1>3. i \in Cells(d) /\ s \in d.cells[i].seqs
  BY DEF CellsOf
<1>4. i \in Used(d)
  BY <1>1, <1>3 DEF CacheOK, Used
<1>5. ASSUME i \notin Range(slot) PROVE FALSE
  <2>1. Holds(d, i, b.cells[i].pos, {t \in b.cells[i].seqs : b.cells[i].pos > Lost(b, slot, t)})
    BY <1>1, <1>2, <1>3, <1>5
  <2>2. s \in b.cells[i].seqs /\ d.cells[i].pos = b.cells[i].pos
    BY <1>3, <2>1 DEF Holds
  <2>3. b.cells[i].pos \in Positions(b, s)
    BY <1>2, <1>3, <2>2 DEF Positions, CellsOf
  <2>4. b.cells[i].pos \in Int /\ p \in Int
    <3>1. b.cells[i].pos \in 0 .. MaxPos
      BY <2>3, PositionsAre
    <3> QED
      BY <3>1 DEF Applying
  <2> QED
    BY <2>2, <2>3, <2>4
<1> QED
  BY <1>4, <1>5

LEMMA InBaseSlot ==
  ASSUME NEW b, IsBase(b), NEW n, NEW slot, NEW s, NEW p, Applying(b, slot, n, s, p),
         \A q \in Positions(b, s) : q < p, NEW d, d = ApplyUbatch(b, slot, s, p)
  PROVE  \A i \in CellsOf(d, s) : d.cells[i].pos >= p => i \in Range(slot) /\ i \in Used(d)
BY InSlot, SwaSizeIs DEF IsBase

LEMMA NotComputing ==
  ASSUME Coherent, Clear \/ (\E s \in Seqs, p \in 0 .. MaxPos : CutSequence(s, p))
                   \/ (\E s \in Seqs : KeepSequence(s) \/ \E t \in Seqs \ {s} : ShareSequence(s, t))
                   \/ (\E s \in Seqs, n \in Submitted : Decode(s, n))
                   \/ OutputsFail \/ Computed \/ ComputeFails
  PROVE  call'.pc # "compute"
<1>1. call = [pc |-> call.pc, todo |-> call.todo, refused |-> call.refused] /\ Idle.pc # "compute"
  BY DEF Coherent, IInv, CallOK, Idle
<1>2. ASSUME NEW s \in Seqs, NEW n \in Submitted, Decode(s, n) PROVE call'.pc # "compute"
  <2>1. IsBase(base) /\ IsSwa(swa)
    BY DEF Coherent, IInv
  <2>2. PICK u, r : Decoded(s, n, u, r)
    BY <1>2, <2>1, DecodeDoes
  <2> QED
    BY <2>2 DEF Decoded
<1>3. ASSUME Computed PROVE call'.pc # "compute"
  BY <1>1, <1>3 DEF Computed
<1> QED
  BY <1>1, <1>2, <1>3 DEF Clear, CutSequence, KeepSequence, ShareSequence, Edits, OutputsFail, ComputeFails, Removes

LEMMA ApplyTears == ASSUME Coherent, Apply PROVE AllTorn'
<1>1. call.pc # "idle" /\ IInv /\ IsBase(base) /\ IsSwa(swa) /\ Agree(base, swa)
  BY DEF Apply, Coherent, IInv
<1>2. /\ TodoOK(call.todo) /\ Ubatch = call.todo[1] /\ Follows(base, swa, call.todo)
      /\ Applying(base, Ubatch.slots[1], Ubatch.n, Ubatch.seq, Ubatch.pos)
  BY <1>1, AtHand DEF Apply, Coherent, Waiting
<1>3. PICK s, p, slot : s = Ubatch.seq /\ p = Ubatch.pos /\ slot = Ubatch.slots[1]
  OBVIOUS
<1>4. call' = [call EXCEPT !.pc = "compute"] /\ base' = ApplyUbatch(base, slot, s, p)
  BY <1>3 DEF Apply
<1>5. call'.todo = call.todo /\ Ubatch' = Ubatch
  BY <1>1, <1>4 DEF IInv, CallOK, Ubatch
<1>6. \A q \in Positions(base, s) : q < p
  <2>1. s \in Seqs /\ p = SeqPosMax(swa, s) + 1
    BY <1>2, <1>3 DEF Follows, Applying
  <2>2. SeqPosMax(swa, s) \in Int /\ Positions(base, s) = 0 .. SeqPosMax(swa, s)
    BY <1>1, <2>1, WholeInBase
  <2> QED
    BY <2>1, <2>2
<1>7. \A i \in CellsOf(base', s) : base'.cells[i].pos >= p => i \in Range(slot) /\ i \in Used(base')
  BY <1>1, <1>2, <1>3, <1>4, <1>6, InBaseSlot
<1>8. torn'.base = (torn.base \cup Range(slot)) \cap Used(base')
  BY <1>3 DEF Apply, StillTorn
<1>9. \A i \in CellsOf(base', s) : base'.cells[i].pos >= p => i \in torn'.base
  BY <1>7, <1>8
<1> QED
  BY <1>3, <1>5, <1>9 DEF AllTorn, CellsOf

LEMMA AllTornInvariance == MCSpec => []AllTorn
<1>1. MCInit => AllTorn
  BY IdleIs DEF MCInit, Init, AllTorn
<1>2. Coherent /\ AllTorn /\ [MCNext]_<<vars, edits>> => AllTorn'
  <2> SUFFICES ASSUME Coherent, AllTorn, [MCNext]_<<vars, edits>> PROVE AllTorn'
    OBVIOUS
  <2>1. CASE UNCHANGED <<vars, edits>>
    BY <2>1 DEF vars, AllTorn, Ubatch, CellsOf, Cells
  <2>2. CASE Apply
    BY <2>2, ApplyTears
  <2>3. ASSUME ~Apply, MCNext PROVE call'.pc # "compute"
    BY <2>3, NotComputing DEF MCNext, MCClear, Edit, Cut, ShareOrKeep, Call
  <2> QED
    BY <2>1, <2>2, <2>3 DEF AllTorn
<1> QED
  BY <1>1, <1>2, CoherentInvariance, PTL DEF MCSpec

LEMMA SizesBefore ==
  ASSUME Coherent, Said
  PROVE  /\ Tokens = [s \in Seqs |-> Size(s)]
         /\ call.pc # "compute" => Tokens = [s \in Seqs |-> SeqPosMax(swa, s) + 1]
         /\ \A s \in Seqs : /\ SeqPosMax(swa, s) \in -1 .. MaxPos /\ SeqPosMax(swa, s) \in Int
                            /\ Positions(base, s) = 0 .. SeqPosMax(swa, s)
<1>1. call.pc # "compute" => \A s : Size(s) = SeqPosMax(swa, s) + 1
  BY DEF Size
<1>2. Agree(base, swa)
  BY DEF Coherent
<1> QED
  BY <1>1, <1>2, WholeInBase DEF Said

LEMMA SizesAfter ==
  ASSUME Coherent', Said'
  PROVE  /\ Tokens' = [s \in Seqs |-> IF call'.pc = "compute" /\ s = Ubatch'.seq THEN Ubatch'.pos
                                      ELSE SeqPosMax(swa', s) + 1]
         /\ call'.pc # "compute" => Tokens' = [s \in Seqs |-> SeqPosMax(swa', s) + 1]
         /\ \A s \in Seqs, t \in -1 .. MaxPos : Positions(base', s) = 0 .. t => SeqPosMax(swa', s) = t
<1>1. Tokens' = [s \in Seqs |-> IF call'.pc = "compute" /\ s = Ubatch'.seq THEN Ubatch'.pos
                                ELSE SeqPosMax(swa', s) + 1]
  BY DEF Said, Size
<1>2. call'.pc # "compute" => Tokens' = [s \in Seqs |-> SeqPosMax(swa', s) + 1]
  BY <1>1
<1>3. Agree(base', swa')
  BY DEF Coherent, Agree, Sees
<1>4. ASSUME NEW s \in Seqs, NEW t \in -1 .. MaxPos, Positions(base', s) = 0 .. t
      PROVE  SeqPosMax(swa', s) = t
  <2>1. SeqPosMax(swa', s) \in -1 .. MaxPos /\ Positions(base', s) = 0 .. SeqPosMax(swa', s)
    BY <1>3, WholeInBase
  <2> QED
    BY <1>4, <2>1, SameEnd
<1> QED
  BY <1>1, <1>2, <1>4

(* The sizes of the sequences of which the base cache holds the same.      *)
LEMMA SameSize ==
  ASSUME Coherent, Said, Coherent', Said', NEW s \in Seqs, Positions(base', s) = Positions(base, s)
  PROVE  SeqPosMax(swa', s) = SeqPosMax(swa, s)
BY SizesBefore, SizesAfter

LEMMA WhenIdle ==
  /\ call.pc = "idle" => Extending = <<>>
  /\ call'.pc = "idle" => Extending' = <<>>
BY DEF Extending

LEMMA MCInitKeeps == ASSUME MCInit, Coherent, Said PROVE Memory!Init
<1>1. call.pc = "idle" /\ base = NewCache(BaseSize, FALSE) /\ swa = NewCache(SwaSize, TRUE)
  BY IdleIs DEF MCInit, Init
<1>2. \A s \in Seqs : SeqPosMax(swa, s) = -1
  <2> TAKE s \in Seqs
  <2>1. IsSwa(swa) /\ Positions(swa, s) = {}
    BY <1>1, NewCaches, NewPositions
  <2> QED
    BY <2>1, PositionsAre DEF IsSwa
<1>3. Tokens = [s \in Seqs |-> SeqPosMax(swa, s) + 1]
  BY <1>1, SizesBefore
<1>4. Tokens = [s \in Seqs |-> 0]
  BY <1>2, <1>3
<1> QED
  BY <1>1, <1>4, WhenIdle DEF Memory!Init

LEMMA ClearKeeps == ASSUME Clear, Coherent', Said' PROVE Memory!Clear
<1>1. call.pc = "idle" /\ call'.pc = "idle" /\ base' = NewCache(BaseSize, FALSE)
  BY IdleIs DEF Clear
<1>2. \A s \in Seqs : SeqPosMax(swa', s) = -1
  <2> TAKE s \in Seqs
  <2>1. Positions(base', s) = {}
    BY <1>1, NewPositions
  <2>2. -1 \in -1 .. MaxPos /\ 0 .. -1 = {}
    BY Sizes
  <2> QED
    BY <2>1, <2>2, SizesAfter
<1>3. Tokens' = [s \in Seqs |-> SeqPosMax(swa', s) + 1]
  BY <1>1, SizesAfter
<1>4. Tokens' = [s \in Seqs |-> 0]
  BY <1>2, <1>3
<1> QED
  BY <1>1, <1>4, WhenIdle DEF Memory!Clear, Memory!Edits

LEMMA CutTo ==
  ASSUME NEW t, t \in -1 .. MaxPos, NEW p \in Nat, p <= t + 1
  PROVE  p - 1 \in -1 .. MaxPos /\ {q \in 0 .. t : q < p} = 0 .. p - 1
<1>1. t \in Int /\ t <= MaxPos /\ MaxPos \in Nat
  BY Sizes
<1>2. p - 1 \in -1 .. MaxPos
  BY <1>1
<1>3. \A q : q \in 0 .. t /\ q < p <=> q \in 0 .. p - 1
  BY <1>1
<1> QED
  BY <1>2, <1>3

LEMMA CutKeeps ==
  ASSUME Coherent, Said, Coherent', Said', NEW s \in Seqs, NEW p \in 0 .. MaxPos, CutSequence(s, p)
  PROVE  Memory!Cut(s)
<1>1. /\ call.pc = "idle" /\ call'.pc = "idle" /\ base' = SeqRm(base, s, p)
      /\ p \in Nat /\ p <= SeqPosMax(swa, s)
  BY IdleIs, Sizes DEF CutSequence, Edits
<1>2. /\ Positions(base', s) = {q \in Positions(base, s) : q < p}
      /\ \A t : t # s => Positions(base', t) = Positions(base, t)
  <2>1. IsBase(base)
    BY DEF Coherent, IInv
  <2> QED
    BY <1>1, <2>1, RmBase DEF RmIs
<1>3. SeqPosMax(swa', s) = p - 1
  <2>1. PICK t : t = SeqPosMax(swa, s)
    OBVIOUS
  <2>2. t \in -1 .. MaxPos /\ t \in Int /\ Positions(base, s) = 0 .. t
    BY <2>1, SizesBefore
  <2>3. p <= t + 1
    BY <1>1, <2>1, <2>2
  <2>4. p - 1 \in -1 .. MaxPos /\ Positions(base', s) = 0 .. p - 1
    BY <1>1, <1>2, <2>2, <2>3, CutTo
  <2> QED
    BY <2>4, SizesAfter
<1>4. \A r \in Seqs : r # s => SeqPosMax(swa', r) = SeqPosMax(swa, r)
  BY <1>2, SameSize
<1>5. /\ Tokens = [r \in Seqs |-> SeqPosMax(swa, r) + 1]
      /\ Tokens' = [r \in Seqs |-> SeqPosMax(swa', r) + 1]
  BY <1>1, SizesBefore, SizesAfter
<1>6. Tokens' = [Tokens EXCEPT ![s] = p]
  BY <1>1, <1>3, <1>4, <1>5
<1>7. p \in 0 .. Tokens[s] - 1
  <2>1. Tokens[s] = SeqPosMax(swa, s) + 1 /\ SeqPosMax(swa, s) \in Int
    BY <1>5, SizesBefore
  <2> QED
    BY <1>1, <2>1
<1> QED
  BY <1>1, <1>6, <1>7, WhenIdle DEF Memory!Cut, Memory!Edits

LEMMA ShareKeeps ==
  ASSUME Coherent, Said, Coherent', Said', NEW s \in Seqs, NEW t \in Seqs \ {s}, ShareSequence(s, t)
  PROVE  Memory!Share(s, t)
<1>1. /\ call.pc = "idle" /\ call'.pc = "idle" /\ base' = SeqCp(base, s, t)
      /\ Positions(base, t) = {}
  BY IdleIs DEF ShareSequence, Edits
<1>2. /\ Positions(base', t) = Positions(base, s)
      /\ \A r : r # t => Positions(base', r) = Positions(base, r)
  <2>1. IsBase(base)
    BY DEF Coherent, IInv
  <2> QED
    BY <1>1, <2>1, CpBase DEF CpIs
<1>3. SeqPosMax(swa', t) = SeqPosMax(swa, s)
  BY <1>2, SizesBefore, SizesAfter
<1>4. \A r \in Seqs : r # t => SeqPosMax(swa', r) = SeqPosMax(swa, r)
  BY <1>2, SameSize
<1>5. /\ Tokens = [r \in Seqs |-> SeqPosMax(swa, r) + 1]
      /\ Tokens' = [r \in Seqs |-> SeqPosMax(swa', r) + 1]
  BY <1>1, SizesBefore, SizesAfter
<1>6. Tokens' = [Tokens EXCEPT ![t] = Tokens[s]]
  BY <1>3, <1>4, <1>5
<1>7. Tokens[t] = 0
  <2>1. SeqPosMax(swa, t) \in -1 .. MaxPos /\ 0 .. SeqPosMax(swa, t) = {}
    BY <1>1, SizesBefore
  <2>2. -1 \in -1 .. MaxPos /\ 0 .. -1 = {}
    BY Sizes
  <2>3. SeqPosMax(swa, t) = -1
    BY <2>1, <2>2, SameEnd
  <2> QED
    BY <1>5, <2>3
<1> QED
  BY <1>1, <1>6, <1>7, WhenIdle DEF Memory!Share, Memory!Edits

LEMMA KeepKeeps ==
  ASSUME Coherent, Said, Coherent', Said', NEW s \in Seqs, KeepSequence(s)
  PROVE  Memory!Keep(s)
<1>1. call.pc = "idle" /\ call'.pc = "idle" /\ base' = SeqKeep(base, s)
  BY IdleIs DEF KeepSequence, Edits
<1>2. /\ Positions(base', s) = Positions(base, s)
      /\ \A r : r # s => Positions(base', r) = {}
  <2>1. IsBase(base)
    BY DEF Coherent, IInv
  <2> QED
    BY <1>1, <2>1, KeepBase DEF KeepIs
<1>3. SeqPosMax(swa', s) = SeqPosMax(swa, s)
  BY <1>2, SameSize
<1>4. \A r \in Seqs : r # s => SeqPosMax(swa', r) = -1
  <2>1. -1 \in -1 .. MaxPos /\ 0 .. -1 = {}
    BY Sizes
  <2> QED
    BY <1>2, <2>1, SizesAfter
<1>5. /\ Tokens = [r \in Seqs |-> SeqPosMax(swa, r) + 1]
      /\ Tokens' = [r \in Seqs |-> SeqPosMax(swa', r) + 1]
  BY <1>1, SizesBefore, SizesAfter
<1>6. Tokens' = [r \in Seqs |-> IF r = s THEN Tokens[s] ELSE 0]
  BY <1>3, <1>4, <1>5
<1> QED
  BY <1>1, <1>6, WhenIdle DEF Memory!Keep, Memory!Edits

(* The end of a batch is the end of its last ubatch.                       *)
EndOf(todo) == <<todo[Len(todo)].seq, todo[Len(todo)].pos + todo[Len(todo)].n>>

LEMMA ExtendingIs ==
  /\ call.pc # "idle" => Extending = EndOf(call.todo)
  /\ call'.pc # "idle" => Extending' = EndOf(call'.todo)
BY DEF Extending, EndOf

LEMMA EndIs ==
  ASSUME NEW todo, TodoOK(todo)
  PROVE  \E end \in Nat :
           /\ EndOf(todo) = <<todo[1].seq, end>> /\ end >= todo[1].pos + todo[1].n
           /\ Len(todo) = 1 <=> end = todo[1].pos + todo[1].n
           /\ Len(todo) # 1 => EndOf(Tail(todo)) = EndOf(todo)
<1> DEFINE m == Len(todo)
           end == todo[m].pos + todo[m].n
           after == todo[1].pos + todo[1].n
<1>1. m \in Nat \ {0} /\ todo[1].pos \in Nat /\ todo[1].n \in Nat \ {0}
  BY HeadIs
<1>2. /\ todo \in Seq(Ubatches)
      /\ \A k \in 1 .. m : /\ todo[k].seq = todo[1].seq
                           /\ k < m => todo[k + 1].pos = todo[k].pos + todo[k].n
  BY DEF TodoOK
<1>3. \A k \in 1 .. m : todo[k].pos \in Nat /\ todo[k].n \in Nat \ {0}
  <2> TAKE k \in 1 .. m
  <2>1. todo[k] \in Ubatches
    BY <1>2
  <2> QED
    BY <2>1 DEF Ubatches
<1> HIDE DEF m
<1>4. \A k \in 1 .. m : k # 1 => todo[k].pos >= after
  <2> DEFINE S == {k \in 0 .. m - 1 : k # 0 => todo[k + 1].pos >= after}
  <2>1. m - 1 \in Nat /\ 0 \in S
    BY <1>1
  <2>2. ASSUME NEW k \in 0 .. m - 1 - 1, k \in S PROVE k + 1 \in S
    <3>1. k + 1 \in 1 .. m /\ k + 1 < m /\ k + 1 \in 0 .. m - 1
      BY <1>1
    <3>2. todo[k + 1 + 1].pos = todo[k + 1].pos + todo[k + 1].n
      BY <1>2, <3>1
    <3>3. todo[k + 1].pos \in Nat /\ todo[k + 1].n \in Nat
      BY <1>3, <3>1
    <3>4. k = 0 \/ todo[k + 1].pos >= after
      BY <2>2
    <3>5. todo[k + 1 + 1].pos >= after
      BY <1>1, <3>2, <3>3, <3>4
    <3> QED
      BY <3>1, <3>5
  <2> HIDE DEF S
  <2>3. 0 .. m - 1 \subseteq S
    BY <2>1, <2>2, UpTo
  <2> TAKE k \in 1 .. m
  <2>4. k - 1 \in 0 .. m - 1 /\ (k # 1 => k - 1 # 0) /\ k - 1 + 1 = k
    BY <1>1
  <2>5. k - 1 \in S
    BY <2>3, <2>4
  <2> QED
    BY <2>4, <2>5 DEF S
<1>5. m \in 1 .. m
  BY <1>1
<1>6. todo[m].seq = todo[1].seq /\ end \in Nat
  BY <1>2, <1>3, <1>5
<1>7. m # 1 => end > after
  BY <1>1, <1>3, <1>4, <1>5
<1>8. m = 1 => end = after
  OBVIOUS
<1>9. after \in Nat
  BY <1>1
<1>10. ASSUME m # 1 PROVE EndOf(Tail(todo)) = EndOf(todo)
  <2>1. Len(Tail(todo)) = m - 1 /\ \A k \in 1 .. Len(Tail(todo)) : Tail(todo)[k] = todo[k + 1]
    BY <1>10, TailIs DEF m
  <2>2. m - 1 \in 1 .. m - 1 /\ m - 1 + 1 = m
    BY <1>1, <1>10
  <2>3. Tail(todo)[Len(Tail(todo))] = todo[m]
    BY <2>1, <2>2
  <2> QED
    BY <2>3 DEF EndOf, m
<1>11. EndOf(todo) = <<todo[1].seq, end>>
  BY <1>6 DEF EndOf, m
<1> HIDE DEF end, after
<1>12. end >= after /\ (m = 1 <=> end = after)
  BY <1>6, <1>7, <1>8, <1>9
<1> QED
  BY <1>6, <1>10, <1>11, <1>12 DEF m, after

LEMMA FilledEnd ==
  ASSUME NEW s, NEW u, NEW first, NEW end, Consecutive(u, s, first, end), NEW slots
  PROVE  EndOf(Filled(s, u, slots)) = <<s, end>>
<1> DEFINE T == Filled(s, u, slots)
<1>1. Len(u) \in Nat \ {0} /\ u[Len(u)].pos + u[Len(u)].n = end
  BY DEF Consecutive
<1>2. T = [k \in 1 .. Len(u) |-> [seq |-> s, pos |-> u[k].pos, n |-> u[k].n,
                                  slots |-> <<slots[1][k], slots[2][k]>>]]
  BY DEF Filled
<1>3. Len(u) \in 1 .. Len(u) /\ Len(T) = Len(u)
  BY <1>1, <1>2
<1>4. T[Len(u)] = [seq |-> s, pos |-> u[Len(u)].pos, n |-> u[Len(u)].n,
                   slots |-> <<slots[1][Len(u)], slots[2][Len(u)]>>]
  BY <1>2, <1>3
<1> HIDE DEF T
<1>5. T[Len(u)].seq = s /\ T[Len(u)].pos + T[Len(u)].n = end
  BY <1>1, <1>4
<1>6. EndOf(T) = <<s, end>>
  BY <1>3, <1>5 DEF EndOf
<1> QED
  BY <1>6 DEF T

LEMMA DecodeKeeps ==
  ASSUME Coherent, Said, Coherent', Said', NEW s \in Seqs, NEW n \in Submitted, Decode(s, n),
         n <= UBatch \/ Used(base) = {}
  PROVE  Memory!Begin(s, n) \/ UNCHANGED <<Tokens, Extending>>
<1>1. /\ IInv /\ IsBase(base) /\ IsSwa(swa) /\ Agree(base, swa) /\ Once(base) /\ Once(swa)
      /\ call.pc = "idle"
  BY DEF Coherent, IInv, Decode
<1>2. base' = base
  BY <1>1, DecodeAgrees
<1>3. PICK u, r : Decoded(s, n, u, r)
  BY <1>1, DecodeDoes
<1>4. /\ Consecutive(u, s, SeqPosMax(swa, s) + 1, SeqPosMax(swa, s) + 1 + n)
      /\ call' = IF r.refused = "no" THEN [pc |-> "prepared", todo |-> Filled(s, u, r.slots), refused |-> "no"]
                 ELSE [pc |-> "idle", todo |-> <<>>, refused |-> r.refused]
  BY <1>3 DEF Decoded
<1>5. /\ Tokens = [t \in Seqs |-> SeqPosMax(swa, t) + 1]
      /\ Tokens' = [t \in Seqs |-> SeqPosMax(swa', t) + 1]
  BY <1>1, <1>4, SizesBefore, SizesAfter
<1>6. Tokens' = Tokens
  <2>1. \A t \in Seqs : SeqPosMax(swa', t) = SeqPosMax(swa, t)
    BY <1>2, SameSize
  <2> QED
    BY <1>5, <2>1
<1>7. CASE r.refused # "no"
  <2>1. call'.pc = "idle"
    BY <1>4, <1>7
  <2> QED
    BY <1>1, <1>6, <2>1, WhenIdle
<1>8. CASE r.refused = "no"
  <2>1. call'.pc # "idle" /\ call'.todo = Filled(s, u, r.slots)
    BY <1>4, <1>8
  <2>2. Extending' = <<s, SeqPosMax(swa, s) + 1 + n>>
    BY <1>4, <2>1, ExtendingIs, FilledEnd
  <2>3. Extending' = <<s, Tokens[s] + n>>
    BY <1>5, <2>2
  <2> QED
    BY <1>1, <1>6, <2>3, WhenIdle DEF Memory!Begin
<1> QED
  BY <1>7, <1>8

LEMMA ApplyKeeps ==
  ASSUME Coherent, Said, Coherent', Said', Apply
  PROVE  UNCHANGED <<Tokens, Extending>>
<1>1. /\ call.pc # "idle" /\ call.pc # "compute" /\ IInv /\ IsBase(base) /\ IsSwa(swa)
      /\ Waiting /\ call.pc \in {"prepared", "place"}
  BY DEF Apply, Coherent, IInv
<1>2. TodoOK(call.todo) /\ Ubatch = call.todo[1] /\ Follows(base, swa, call.todo)
  BY <1>1, AtHand DEF Waiting
<1>3. Fits(base, swa, Ubatch, Ubatch.slots[1], Ubatch.slots[2])
  BY <1>1, <1>2, FirstFits
<1>4. PICK s, p, n, slot : s = Ubatch.seq /\ p = Ubatch.pos /\ n = Ubatch.n /\ slot = Ubatch.slots[1]
  OBVIOUS
<1>5. /\ Usable(base, Ubatch, slot) /\ Applying(base, slot, n, s, p)
      /\ p = SeqPosMax(swa, s) + 1 /\ s \in Seqs
  BY <1>3, <1>4 DEF Fits, Applying
<1>6. call' = [call EXCEPT !.pc = "compute"] /\ base' = ApplyUbatch(base, slot, s, p)
  BY <1>4 DEF Apply
<1>7. call'.pc = "compute" /\ call'.todo = call.todo /\ Ubatch' = Ubatch
  BY <1>1, <1>6 DEF IInv, CallOK, Ubatch
<1>8. \A t : Lost(base, slot, t) = -1
  <2>1. BaseSize \in Nat /\ \A i \in Range(slot) : i \in Cells(base) /\ CanUse(base, i)
    BY <1>5, SwaSizeIs DEF Usable
  <2> QED
    BY <1>1, <2>1, NothingLost DEF IsBase
<1>9. \A t \in Seqs : t # s => SeqPosMax(swa', t) = SeqPosMax(swa, t)
  <2>1. Lost(base, slot, s) < p
    <3>1. p \in Nat
      BY <1>5 DEF Applying
    <3> QED
      BY <1>8, <3>1
  <2>2. \A t : t # s => Positions(base', t) = {q \in Positions(base, t) : q > -1}
    BY <1>1, <1>5, <1>6, <1>8, <2>1, BasePut DEF PutIs
  <2> TAKE t \in Seqs
  <2>3. ASSUME t # s PROVE Positions(base', t) = Positions(base, t)
    <3>1. Positions(base, t) \subseteq 0 .. MaxPos
      BY <1>1, PositionsAre DEF IsBase
    <3>2. \A q \in Positions(base, t) : q > -1
      BY <3>1
    <3> QED
      BY <2>2, <2>3, <3>2
  <2> QED
    BY <2>3, SameSize
<1>10. /\ Tokens = [t \in Seqs |-> SeqPosMax(swa, t) + 1]
       /\ Tokens' = [t \in Seqs |-> IF t = s THEN p ELSE SeqPosMax(swa', t) + 1]
  BY <1>1, <1>4, <1>7, SizesBefore, SizesAfter
<1>11. Tokens' = Tokens
  BY <1>5, <1>9, <1>10
<1> QED
  BY <1>1, <1>7, <1>11, ExtendingIs

LEMMA ComputedKeeps ==
  ASSUME Coherent, Said, Coherent', Said', Computed
  PROVE  Memory!Extend
<1>1. /\ call.pc = "compute" /\ call.pc # "idle" /\ base' = base /\ swa' = swa
      /\ IInv /\ IsBase(base) /\ IsSwa(swa) /\ Computing
      /\ call' = IF Len(call.todo) = 1 THEN Idle ELSE [call EXCEPT !.pc = "place", !.todo = Tail(@)]
  BY DEF Computed, Coherent, IInv
<1>2. TodoOK(call.todo) /\ Ubatch = call.todo[1]
  BY <1>1, AtHand
<1>3. PICK s, p, n : s = Ubatch.seq /\ p = Ubatch.pos /\ n = Ubatch.n
  OBVIOUS
<1>4. s \in Seqs /\ p \in Nat /\ n \in Nat \ {0}
  BY <1>2, <1>3, HeadIs
<1>5. PICK end \in Nat :
        /\ EndOf(call.todo) = <<s, end>> /\ end >= p + n
        /\ Len(call.todo) = 1 <=> end = p + n
        /\ Len(call.todo) # 1 => EndOf(Tail(call.todo)) = EndOf(call.todo)
  BY <1>2, <1>3, EndIs
<1>6. Extending = <<s, end>>
  BY <1>1, <1>5, ExtendingIs
<1>7. Extending' = IF p + n = end THEN <<>> ELSE Extending
  <2>1. CASE Len(call.todo) = 1
    BY <1>1, <1>5, <2>1, IdleIs, WhenIdle
  <2>2. CASE Len(call.todo) # 1
    <3>1. call'.pc # "idle" /\ call'.todo = Tail(call.todo)
      BY <1>1, <2>2 DEF IInv, CallOK
    <3> QED
      BY <1>5, <1>6, <2>2, <3>1, ExtendingIs
  <2> QED
    BY <2>1, <2>2
<1>8. call'.pc # "compute"
  BY NotComputing
<1>9. SeqPosMax(swa, s) + 1 = p + n
  <2>1. PICK t : t = p + n - 1
    OBVIOUS
  <2>2. p \in Int /\ p <= t + 1 /\ t + 1 = p + n
    BY <1>4, <2>1
  <2>3. Sees(base, swa, s, t, p)
    BY <1>1, <1>3, <2>1 DEF Computing
  <2>4. SeqPosMax(swa, s) = t
    BY <1>1, <2>2, <2>3, Tops
  <2> QED
    BY <2>2, <2>4
<1>10. /\ Tokens = [t \in Seqs |-> IF t = s THEN p ELSE SeqPosMax(swa, t) + 1]
       /\ Tokens' = [t \in Seqs |-> SeqPosMax(swa, t) + 1]
  <2>1. Tokens = [t \in Seqs |-> Size(t)]
    BY SizesBefore
  <2>2. \A t : Size(t) = IF t = s THEN p ELSE SeqPosMax(swa, t) + 1
    BY <1>1, <1>3 DEF Size
  <2> QED
    BY <1>1, <1>8, <2>1, <2>2, SizesAfter
<1>11. Tokens' = [Tokens EXCEPT ![s] = p + n]
  BY <1>9, <1>10
<1>12. p + n \in Tokens[s] + 1 .. end
  <2>1. Tokens[s] = p
    BY <1>4, <1>10
  <2> QED
    BY <1>4, <1>5, <2>1
<1>13. Extending # <<>> /\ Extending[1] = s /\ Extending[2] = end
  BY <1>6
<1> QED
  BY <1>7, <1>11, <1>12, <1>13 DEF Memory!Extend

LEMMA FailsKeep ==
  ASSUME Coherent, Said, Coherent', Said', OutputsFail \/ ComputeFails
  PROVE  Memory!Fail
<1>1. call.pc # "idle" /\ call'.pc = "idle" /\ call'.pc # "compute" /\ IInv
  BY IdleIs DEF OutputsFail, ComputeFails, Removes, Coherent
<1>2. Extending # <<>> /\ Extending' = <<>>
  <2>1. Extending = EndOf(call.todo) /\ EndOf(call.todo) # <<>>
    BY <1>1, ExtendingIs DEF EndOf
  <2> QED
    BY <1>1, <2>1, WhenIdle
<1>3. Tokens' = [t \in Seqs |-> SeqPosMax(swa', t) + 1]
  BY <1>1, SizesAfter
<1>4. CASE OutputsFail
  <2>1. call.pc # "compute" /\ swa' = swa
    BY <1>4 DEF OutputsFail
  <2>2. Tokens = [t \in Seqs |-> SeqPosMax(swa, t) + 1]
    BY <2>1, SizesBefore
  <2> QED
    BY <1>2, <1>3, <2>1, <2>2 DEF Memory!Fail
<1>5. CASE ComputeFails
  <2>1. PICK s, p, t : s = Ubatch.seq /\ p = Ubatch.pos /\ t = Ubatch.pos + Ubatch.n - 1
    OBVIOUS
  <2>2. s \in Seqs /\ p \in Nat /\ p <= t + 1 /\ call.pc = "compute" /\ base' = SeqRm(base, s, p)
    <3>1. Ubatch.seq \in Seqs /\ Ubatch.pos \in Nat /\ Ubatch.n \in Nat \ {0}
      BY <1>1, AtHand DEF Applying
    <3>2. p <= t + 1
      BY <2>1, <3>1
    <3> QED
      BY <1>5, <2>1, <3>1, <3>2 DEF ComputeFails, Removes
  <2>3. /\ Positions(base', s) = {q \in Positions(base, s) : q < p}
        /\ \A r : r # s => Positions(base', r) = Positions(base, r)
    <3>1. IsBase(base)
      BY <1>1 DEF IInv
    <3> QED
      BY <2>2, <3>1, RmBase DEF RmIs
  <2>4. SeqPosMax(swa', s) = p - 1
    <3>1. Sees(base, swa, s, t, p)
      BY <2>1, <2>2 DEF Coherent, Computing
    <3>2. t \in -1 .. MaxPos /\ Positions(base, s) = 0 .. t
      BY <3>1 DEF Sees, Seen
    <3>3. p - 1 \in -1 .. MaxPos /\ Positions(base', s) = 0 .. p - 1
      BY <2>2, <2>3, <3>2, CutTo
    <3> QED
      BY <2>2, <3>3, SizesAfter
  <2>5. \A r \in Seqs : r # s => SeqPosMax(swa', r) = SeqPosMax(swa, r)
    BY <2>3, SameSize
  <2>6. Tokens = [r \in Seqs |-> IF r = s THEN p ELSE SeqPosMax(swa, r) + 1]
    <3>1. Tokens = [r \in Seqs |-> Size(r)]
      BY SizesBefore
    <3>2. \A r : Size(r) = IF r = s THEN p ELSE SeqPosMax(swa, r) + 1
      BY <2>1, <2>2 DEF Size
    <3> QED
      BY <3>1, <3>2
  <2>7. Tokens' = Tokens
    BY <1>3, <2>2, <2>4, <2>5, <2>6
  <2> QED
    BY <1>2, <2>7 DEF Memory!Fail
<1> QED
  BY <1>4, <1>5

LEMMA SameTokens == UNCHANGED <<vars, edits>> => UNCHANGED <<Tokens, Extending>>
<1> SUFFICES ASSUME UNCHANGED <<vars, edits>> PROVE UNCHANGED <<Tokens, Extending>>
  OBVIOUS
<1>1. base' = base /\ swa' = swa /\ call' = call /\ torn' = torn
  BY DEF vars
<1>2. \A s : Known(s)' = Known(s)
  BY <1>1 DEF Known, Held
<1>3. Tokens' = Tokens
  BY <1>2 DEF Tokens
<1>4. Extending' = Extending
  BY <1>1 DEF Extending
<1> QED
  BY <1>3, <1>4

LEMMA NextKeeps ==
  ASSUME Coherent, Said, Coherent', Said', [MCNext]_<<vars, edits>>
  PROVE  [Memory!Next]_<<Tokens, Extending>>
<1>1. CASE UNCHANGED <<vars, edits>>
  BY <1>1, SameTokens
<1>2. CASE MCClear
  BY <1>2, ClearKeeps DEF MCClear, Memory!Next
<1>3. CASE Edit(Cut \/ ShareOrKeep)
  <2>1. ASSUME NEW s \in Seqs, NEW p \in 0 .. MaxPos, CutSequence(s, p) PROVE Memory!Next
    BY <2>1, CutKeeps DEF Memory!Next
  <2>2. ASSUME NEW s \in Seqs, NEW t \in Seqs \ {s}, ShareSequence(s, t) PROVE Memory!Next
    BY <2>2, ShareKeeps DEF Memory!Next
  <2>3. ASSUME NEW s \in Seqs, KeepSequence(s) PROVE Memory!Next
    BY <2>3, KeepKeeps DEF Memory!Next
  <2> QED
    BY <1>3, <2>1, <2>2, <2>3 DEF Edit, Cut, ShareOrKeep
<1>4. CASE Call(Used(base) # {})
  <2>1. ASSUME NEW s \in Seqs, NEW n \in Submitted, Used(base) # {} => n <= UBatch, Decode(s, n)
        PROVE  [Memory!Next]_<<Tokens, Extending>>
    BY <2>1, DecodeKeeps DEF Memory!Next
  <2>2. ASSUME Apply PROVE [Memory!Next]_<<Tokens, Extending>>
    BY <2>2, ApplyKeeps
  <2>3. ASSUME Computed PROVE Memory!Next
    BY <2>3, ComputedKeeps DEF Memory!Next
  <2>4. ASSUME OutputsFail \/ ComputeFails PROVE Memory!Next
    BY <2>4, FailsKeep DEF Memory!Next
  <2> QED
    BY <1>4, <2>1, <2>2, <2>3, <2>4 DEF Call
<1> QED
  BY <1>1, <1>2, <1>3, <1>4 DEF MCNext

LEMMA SaidInvariance == MCSpec => []Said
<1>1. Coherent /\ AllTorn => Said
  BY TokensAre
<1> QED
  BY <1>1, CoherentInvariance, AllTornInvariance, PTL

(* To a caller the two caches are what llama.h says of a memory: a         *)
(* sequence is its tokens from the first to the last, whole and all there; *)
(* it grows by what is computed, a refused batch changes nothing and a     *)
(* failed one leaves what was computed before.                             *)
THEOREM CachesKeepMemory == MCSpec => MemoryKept
<1>1. MCInit /\ Coherent /\ Said => Memory!Init
  BY MCInitKeeps
<1>2. Coherent /\ Said /\ Coherent' /\ Said' /\ [MCNext]_<<vars, edits>> => [Memory!Next]_Memory!vars
  BY NextKeeps DEF Memory!vars
<1> QED
  BY <1>1, <1>2, CoherentInvariance, SaidInvariance, PTL DEF MCSpec, MemoryKept, Memory!Spec
=============================================================================
