--------------------------- MODULE RowidRangesProofs ---------------------------
(***************************************************************************)
(* The ROWID ranges of BuildRowidSlices, for every set of extents, number  *)
(* of sessions and size of the ROWID space: each ROWID of the table is in   *)
(* one range, a range has the blocks it is said to have, and no object is   *)
(* cut into more than four units per session.                              *)
(***************************************************************************)
EXTENDS RowidRanges, FiniteSetTheorems, NaturalsInduction, TLAPS

-----------------------------------------------------------------------------
(* Least elements: there is no induction here over an operator, the well-     *)
(* founded order of the naturals gives them.                                  *)
LEMMA LeastOfNaturals ==
  ASSUME NEW S \in SUBSET Nat, S # {}
  PROVE  \E n \in S : \A x \in S : n <= x
<1> DEFINE R == OpToRel(<, Nat)
<1>0. IsWellFoundedOn(R, Nat)
  BY NatLessThanWellFounded
<1>1. \A x, y \in Nat : y < x => <<y, x>> \in R
  BY DEF OpToRel
<1> HIDE DEF R
<1>2. PICK n \in S : \A y \in S : ~(<<y, n>> \in R)
  BY <1>0, WFMin
<1>3. ASSUME NEW x \in S PROVE n <= x
  <2>1. x \in Nat /\ n \in Nat
    OBVIOUS
  <2>2. ~(x < n)
    BY <1>1, <1>2, <2>1, Zenon
  <2> QED BY <2>1, <2>2
<1> QED BY <1>3

(* And the greatest of a set of naturals with a bound. *)
LEMMA GreatestOfNaturals ==
  ASSUME NEW S \in SUBSET Nat, S # {}, NEW top \in Nat, \A x \in S : x <= top
  PROVE  \E n \in S : \A x \in S : x <= n
<1> DEFINE T == {top - x : x \in S}
<1>0. \A x \in S : x \in Nat /\ x <= top /\ top - x \in Nat
  OBVIOUS
<1>1. T \in SUBSET Nat /\ T # {}
  BY <1>0
<1>2. PICK d \in T : \A y \in T : d <= y
  BY <1>1, LeastOfNaturals
<1>3. PICK n \in S : d = top - n
  OBVIOUS
<1>4. ASSUME NEW x \in S PROVE x <= n
  BY <1>0, <1>2, <1>3
<1> QED BY <1>4

-----------------------------------------------------------------------------
(* ROWIDs as numbers: how many an object can have. *)
PerObject == (MaxFile + 1) * BlockSpace

(* The bounds, and the ROWIDs each object has. *)
LEMMA Sizes ==
  /\ MaxObject \in Nat /\ MaxFile \in Nat /\ BlockSpace \in Nat /\ BlockSpace > 0
  /\ BigFile \in Nat /\ BigFile > MaxFile /\ MaxExtents \in Nat \ {0} /\ MaxSessions \in Nat \ {0}
  /\ PerObject \in Nat /\ PerObject > 0
<1>1. MaxFile \in Nat /\ BlockSpace \in Nat /\ BlockSpace > 0
  BY RangesAssumption
<1>2. MaxFile * BlockSpace \in Nat
  BY <1>1
<1>3. PerObject = MaxFile * BlockSpace + BlockSpace
  BY <1>1 DEF PerObject
<1> QED BY <1>1, <1>2, <1>3, RangesAssumption

(* A position is the object's first one, plus the file and block in it. *)
LEMMA PositionSplits ==
  ASSUME NEW o \in Int, NEW f \in Int, NEW b \in Int
  PROVE  /\ Position(o, f, b) = Position(o, 0, 0) + (f * BlockSpace + b)
         /\ Position(o, 0, 0) = o * PerObject
         /\ Position(o + 1, 0, 0) = Position(o, 0, 0) + PerObject
         /\ Position(o, f, b) \in Int
<1>0. MaxFile \in Int /\ BlockSpace \in Int /\ PerObject \in Int
  BY Sizes
<1>1. (o * (MaxFile + 1) + f) * BlockSpace = (o * (MaxFile + 1)) * BlockSpace + f * BlockSpace
  BY <1>0
<1>2. (o * (MaxFile + 1)) * BlockSpace = o * PerObject
  BY <1>0 DEF PerObject
<1>3. (o + 1) * PerObject = o * PerObject + PerObject
  BY <1>0
<1>4. (o + 1) * (MaxFile + 1) * BlockSpace = (o + 1) * PerObject
  BY <1>0 DEF PerObject
<1> QED BY <1>0, <1>1, <1>2, <1>3, <1>4 DEF Position

(* Objects follow one another in ROWID order. *)
LEMMA ObjectsInOrder ==
  ASSUME NEW o \in Int, NEW p \in Int, o < p
  PROVE  Position(o + 1, 0, 0) <= Position(p, 0, 0)
<1>1. Position(o + 1, 0, 0) = (o + 1) * PerObject /\ Position(p, 0, 0) = p * PerObject
  BY PositionSplits
<1>2. p * PerObject = (o + 1) * PerObject + (p - (o + 1)) * PerObject
  BY Sizes
<1>3. (p - (o + 1)) * PerObject >= 0
  BY Sizes
<1>4. (o + 1) * PerObject \in Int /\ (p - (o + 1)) * PerObject \in Int
  BY Sizes
<1> QED BY <1>1, <1>2, <1>3, <1>4

(* A position is in one object. *)
LEMMA OneObject ==
  ASSUME NEW x \in Int, NEW o \in Int, NEW p \in Int, Within(x, o), Within(x, p)
  PROVE  o = p
<1>1. /\ Position(o, 0, 0) \in Int /\ Position(o + 1, 0, 0) \in Int
      /\ Position(p, 0, 0) \in Int /\ Position(p + 1, 0, 0) \in Int
  BY PositionSplits
<1>2. CASE o < p
  BY <1>1, <1>2, ObjectsInOrder DEF Within
<1>3. CASE p < o
  BY <1>1, <1>3, ObjectsInOrder DEF Within
<1> QED BY <1>2, <1>3

(* What \div and % are to each other. *)
LEMMA DivideAndMultiply ==
  ASSUME NEW b \in Nat, NEW d \in Nat, d > 0
  PROVE  (b \div d) \in Int /\ (b % d) \in Int /\ (b \div d) * d + (b % d) = b
OBVIOUS

(* A file's blocks lie before the next file's. *)
LEMMA FilesInOrder ==
  ASSUME NEW f \in Int, NEW g \in Int, f < g, NEW b \in Int, b < BlockSpace, NEW c \in Nat
  PROVE  f * BlockSpace + b < g * BlockSpace + c
<1>1. g * BlockSpace = (f + 1) * BlockSpace + (g - (f + 1)) * BlockSpace
  BY Sizes
<1>2. (g - (f + 1)) * BlockSpace >= 0
  BY Sizes
<1>3. (f + 1) * BlockSpace = f * BlockSpace + BlockSpace
  BY Sizes
<1>4. f * BlockSpace \in Int /\ g * BlockSpace \in Int /\ (g - (f + 1)) * BlockSpace \in Int
  BY Sizes
<1> QED BY <1>1, <1>2, <1>3, <1>4, Sizes

(* What the extents of a data file can be. *)
LEMMA ExtentFacts ==
  ASSUME NEW e \in Extents, NEW n \in 0 .. e.blocks - 1
  PROVE  /\ e.data_object_id \in 0 .. MaxObject /\ e.block_id \in Nat /\ e.blocks \in Nat /\ e.blocks > 0
         /\ e.relative_fno \in 0 .. MaxFile \/ e.relative_fno = BigFile
         /\ e.relative_fno \in Nat /\ n \in Nat /\ e.block_id + n \in Nat
         /\ e.relative_fno = BigFile => e.block_id + n < PerObject
         /\ e.relative_fno # BigFile => e.block_id + n < BlockSpace
<1>1. /\ e \in SegmentExtent
      /\ e.block_id + e.blocks <= IF e.relative_fno = BigFile THEN BlockSpace * (MaxFile + 1) ELSE BlockSpace
  BY RangesAssumption
<1>2. BlockSpace * (MaxFile + 1) = PerObject
  BY Sizes DEF PerObject
<1>3. /\ e.data_object_id \in 0 .. MaxObject /\ e.block_id \in Nat /\ e.blocks \in Nat \ {0}
      /\ e.relative_fno \in 0 .. MaxFile \cup {BigFile}
  BY <1>1 DEF SegmentExtent
<1> QED BY <1>1, <1>2, <1>3, Sizes

(* The n-th block of an extent is in its object. *)
LEMMA BlockIsWithin ==
  ASSUME NEW e \in Extents, NEW n \in 0 .. e.blocks - 1
  PROVE  /\ BlockPosition(e, n) \in Nat
         /\ Within(BlockPosition(e, n), e.data_object_id)
<1> DEFINE f == IF e.relative_fno = BigFile THEN 0 ELSE e.relative_fno
           o == e.data_object_id
           b == e.block_id + n
<1>0. o \in 0 .. MaxObject /\ f \in 0 .. MaxFile /\ b \in Nat
  BY ExtentFacts, Sizes
<1>1. /\ Position(o, f, b) = Position(o, 0, 0) + (f * BlockSpace + b)
      /\ Position(o, 0, 0) = o * PerObject
      /\ Position(o + 1, 0, 0) = Position(o, 0, 0) + PerObject
  <2>1. o \in Int /\ f \in Int /\ b \in Int
    BY <1>0
  <2> HIDE DEF o, f, b
  <2> QED BY <2>1, PositionSplits
<1>2. f * BlockSpace + b < PerObject
  <2>1. CASE e.relative_fno = BigFile
    BY <2>1, <1>0, ExtentFacts, Sizes
  <2>2. CASE e.relative_fno # BigFile
    <3>1. b < BlockSpace /\ f < MaxFile + 1
      BY <2>2, <1>0, ExtentFacts, Sizes
    <3>2. f * BlockSpace + b < (MaxFile + 1) * BlockSpace + 0
      BY <3>1, <1>0, FilesInOrder, Sizes
    <3> QED BY <3>2, Sizes DEF PerObject
  <2> QED BY <2>1, <2>2
<1>3. f * BlockSpace \in Nat /\ o * PerObject \in Nat
  BY <1>0, Sizes
<1>4. BlockPosition(e, n) = Position(o, f, b)
  BY DEF BlockPosition
<1> HIDE DEF f, o, b
<1>5. f * BlockSpace + b \in Nat
  BY <1>0, <1>3
<1> QED BY <1>1, <1>2, <1>3, <1>4, <1>5, Sizes DEF Within, o

(* EncodeRowid gives a block its place in ROWID order, also the high blocks of *)
(* a bigfile.                                                                 *)
LEMMA RowidIsPosition ==
  ASSUME NEW e \in Extents, NEW n \in 0 .. e.blocks - 1
  PROVE  EncodeRowid(e.data_object_id, e.relative_fno, e.block_id + n) = BlockPosition(e, n)
<1> DEFINE o == e.data_object_id
           b == e.block_id + n
<1>0. o \in 0 .. MaxObject /\ b \in Nat /\ o \in Int /\ b \in Int
  BY ExtentFacts
<1>1. CASE e.relative_fno # BigFile
  BY <1>1 DEF EncodeRowid, BlockPosition, Position
<1>2. CASE e.relative_fno = BigFile
  <2>1. (b \div BlockSpace) \in Int /\ (b % BlockSpace) \in Int
        /\ (b \div BlockSpace) * BlockSpace + (b % BlockSpace) = b
    BY <1>0, DivideAndMultiply, Sizes
  <2> HIDE DEF o, b
  <2>2. Position(o, b \div BlockSpace, b % BlockSpace) = Position(o, 0, 0) + ((b \div BlockSpace) * BlockSpace + (b % BlockSpace))
    BY <1>0, <2>1, PositionSplits
  <2>3. Position(o, 0, b) = Position(o, 0, 0) + (0 * BlockSpace + b)
    BY <1>0, PositionSplits
  <2>4. 0 * BlockSpace = 0
    BY Sizes
  <2> USE DEF o, b
  <2>5. EncodeRowid(o, e.relative_fno, b) = Position(o, b \div BlockSpace, b % BlockSpace)
    BY <1>2 DEF EncodeRowid, Position
  <2>6. BlockPosition(e, n) = Position(o, 0, b)
    BY <1>2 DEF BlockPosition
  <2> HIDE DEF o, b
  <2>7. EncodeRowid(o, e.relative_fno, b) = BlockPosition(e, n)
    BY <2>1, <2>2, <2>3, <2>4, <2>5, <2>6, <1>0
  <2> QED BY <2>7 DEF o, b
<1> QED BY <1>1, <1>2

(* The first and the last bound of an object's ranges. *)
LEMMA ObjectBounds ==
  ASSUME NEW o \in 0 .. MaxObject
  PROVE  /\ EncodeRowid(o, 0, 0) = Position(o, 0, 0)
         /\ LastRowid(o) = Position(o + 1, 0, 0)
         /\ Position(o, 0, 0) \in Nat /\ Position(o + 1, 0, 0) \in Nat
         /\ Position(o, 0, 0) < Position(o + 1, 0, 0)
         /\ Position(o + 1, 0, 0) <= Position(MaxObject + 1, 0, 0)
<1>0. o \in Int /\ o + 1 \in Int /\ BigFile # 0 /\ MaxFile # BigFile /\ o \in Nat
  BY Sizes
<1>1. \A p : EncodeRowid(p, 0, 0) = Position(p, 0, 0)
  BY <1>0 DEF EncodeRowid, Position
<1>2. /\ Position(o, 0, 0) = o * PerObject /\ Position(o + 1, 0, 0) = Position(o, 0, 0) + PerObject
      /\ Position(o, MaxFile, BlockSpace - 1) = Position(o, 0, 0) + (MaxFile * BlockSpace + (BlockSpace - 1))
  BY <1>0, Sizes, PositionSplits
<1>3. EncodeRowid(o, MaxFile, BlockSpace - 1) = Position(o, MaxFile, BlockSpace - 1)
  BY <1>0 DEF EncodeRowid, Position
<1>4. PerObject = MaxFile * BlockSpace + BlockSpace /\ MaxFile * BlockSpace \in Int /\ o * PerObject \in Nat
  BY <1>0, Sizes DEF PerObject
<1>5. LastRowid(o) = Position(o + 1, 0, 0)
  BY <1>1, <1>2, <1>3, <1>4, Sizes DEF LastRowid
<1>6. Position(o + 1, 0, 0) <= Position(MaxObject + 1, 0, 0)
  BY <1>0, <1>2, <1>4, ObjectsInOrder, Sizes, o < MaxObject + 1
<1> QED BY <1>1, <1>2, <1>4, <1>5, <1>6, Sizes

-----------------------------------------------------------------------------
(* Extents in the order of std::sort lie in ROWID order, whole.               *)
LEMMA ExtentsInOrder ==
  ASSUME ArgumentInv, extents \subseteq Extents, NEW e \in extents, NEW x \in extents,
         e.data_object_id = x.data_object_id, Before(e, x),
         NEW n \in 0 .. e.blocks - 1, NEW m \in 0 .. x.blocks - 1
  PROVE  BlockPosition(e, n) < BlockPosition(x, m)
<1> DEFINE o == e.data_object_id
           f == IF e.relative_fno = BigFile THEN 0 ELSE e.relative_fno
           g == IF x.relative_fno = BigFile THEN 0 ELSE x.relative_fno
           b == e.block_id + n
           c == x.block_id + m
<1>0. e \in Extents /\ x \in Extents
  OBVIOUS
<1>1. /\ o \in Int /\ f \in Int /\ g \in Int /\ b \in Nat /\ c \in Nat
      /\ e.block_id \in Nat /\ x.block_id \in Nat /\ e.blocks \in Nat /\ x.blocks \in Nat /\ x.blocks > 0
      /\ e.relative_fno \in Nat /\ x.relative_fno \in Nat
      /\ e.relative_fno # BigFile => b < BlockSpace
  BY <1>0, ExtentFacts
<1>2. f * BlockSpace + b < g * BlockSpace + c
  <2>1. CASE e.relative_fno < x.relative_fno
    <3>1. e.relative_fno # BigFile /\ x.relative_fno # BigFile
      BY <1>1, <2>1 DEF ArgumentInv, SameObject
    <3>2. f < g /\ b < BlockSpace
      BY <1>1, <2>1, <3>1
    <3> HIDE DEF f, g, b, c
    <3> QED BY <1>1, <3>2, FilesInOrder
  <2>2. CASE e.relative_fno = x.relative_fno
    <3>1. e.block_id < x.block_id /\ e # x
      BY <1>1, <2>2 DEF Before
    <3>2. Blocks(e) \cap Blocks(x) = {}
      BY <3>1 DEF ArgumentInv, SameObject
    <3>3. <<x.relative_fno, x.block_id>> \in Blocks(x)
      <4>1. 0 \in 0 .. x.blocks - 1 /\ x.block_id + 0 = x.block_id
        BY <1>1
      <4> QED BY <4>1 DEF Blocks
    <3>4. ASSUME x.block_id < e.block_id + e.blocks PROVE FALSE
      <4>1. x.block_id - e.block_id \in 0 .. e.blocks - 1 /\ e.block_id + (x.block_id - e.block_id) = x.block_id
        BY <1>1, <3>1, <3>4
      <4>2. <<x.relative_fno, x.block_id>> \in Blocks(e)
        BY <4>1, <2>2 DEF Blocks
      <4> QED BY <3>2, <3>3, <4>2
    <3>5. b < c
      BY <1>1, <3>4
    <3>6. f = g /\ f * BlockSpace \in Int
      BY <1>1, <2>2, Sizes
    <3> HIDE DEF f, g, b, c
    <3> QED BY <1>1, <3>5, <3>6
  <2> QED BY <2>1, <2>2 DEF Before
<1>3. BlockPosition(e, n) = Position(o, f, b) /\ BlockPosition(x, m) = Position(o, g, c)
  BY DEF BlockPosition
<1> HIDE DEF o, f, g, b, c
<1>4. /\ Position(o, f, b) = Position(o, 0, 0) + (f * BlockSpace + b)
      /\ Position(o, g, c) = Position(o, 0, 0) + (g * BlockSpace + c)
      /\ Position(o, 0, 0) \in Int
  <2>1. b \in Int /\ c \in Int /\ 0 \in Int
    BY <1>1
  <2>2. Position(o, f, b) = Position(o, 0, 0) + (f * BlockSpace + b)
    BY <1>1, <2>1, PositionSplits
  <2>3. Position(o, g, c) = Position(o, 0, 0) + (g * BlockSpace + c)
    BY <1>1, <2>1, PositionSplits
  <2>4. Position(o, 0, 0) \in Int
    BY <1>1, <2>1, PositionSplits
  <2> QED BY <2>2, <2>3, <2>4
<1>5. f * BlockSpace \in Int /\ g * BlockSpace \in Int
  BY <1>1, Sizes
<1> QED BY <1>1, <1>2, <1>3, <1>4, <1>5

(* The order is total on the extents of an object. *)
LEMMA ExtentsAreOrdered ==
  ASSUME ArgumentInv, extents \subseteq Extents, NEW e \in extents, NEW x \in extents, e # x,
         e.data_object_id = x.data_object_id
  PROVE  Before(e, x) \/ Before(x, e)
<1>1. /\ e.block_id \in Nat /\ x.block_id \in Nat /\ e.relative_fno \in Nat /\ x.relative_fno \in Nat
      /\ e.blocks \in Nat \ {0} /\ x.blocks \in Nat \ {0}
  BY RangesAssumption, Sizes DEF SegmentExtent
<1>2. 0 \in 0 .. e.blocks - 1 /\ 0 \in 0 .. x.blocks - 1
  BY <1>1
<1>3. <<e.relative_fno, e.block_id + 0>> \in Blocks(e) /\ <<x.relative_fno, x.block_id + 0>> \in Blocks(x)
  BY <1>2 DEF Blocks
<1>4. Blocks(e) \cap Blocks(x) = {}
  BY DEF ArgumentInv, SameObject
<1>5. ~(e.relative_fno = x.relative_fno /\ e.block_id = x.block_id)
  BY <1>3, <1>4
<1> QED BY <1>1, <1>5 DEF Before

(* The first of some extents of an object. *)
LEMMA FirstIsFirst ==
  ASSUME ArgumentInv, extents \subseteq Extents, NEW es \in SUBSET extents, es # {},
         NEW o, \A e \in es : e.data_object_id = o
  PROVE  First(es) \in es /\ \A x \in es \ {First(es)} : Before(First(es), x)
<1> DEFINE S == {BlockPosition(e, 0) : e \in es}
<1>0. \A e \in extents : 0 \in 0 .. e.blocks - 1 /\ e \in Extents
  BY RangesAssumption DEF SegmentExtent
<1>1. \A e \in es : BlockPosition(e, 0) \in Nat
  BY <1>0, BlockIsWithin
<1>2. S \in SUBSET Nat /\ S # {}
  BY <1>1
<1>3. PICK n \in S : \A x \in S : n <= x
  BY <1>2, LeastOfNaturals
<1>4. PICK e \in es : n = BlockPosition(e, 0)
  OBVIOUS
<1>5. ASSUME NEW x \in es \ {e} PROVE Before(e, x)
  <2>1. BlockPosition(e, 0) <= BlockPosition(x, 0)
    BY <1>3, <1>4
  <2>2. ~(BlockPosition(x, 0) < BlockPosition(e, 0))
    BY <1>1, <2>1
  <2>3. ~Before(x, e)
    BY <1>0, <2>2, ExtentsInOrder
  <2> QED BY <2>3, ExtentsAreOrdered
<1>6. \E y \in es : \A x \in es \ {y} : Before(y, x)
  BY <1>5
<1> QED BY <1>6 DEF First

(* Blocks of extents, as pairs. *)
LEMMA CellIsPair ==
  ASSUME NEW es, NEW c
  PROVE  c \in Cells(es) <=> \E e \in es : \E n \in 0 .. e.blocks - 1 : c = <<e, n>>
BY DEF Cells

(* A set of extents has finitely many blocks. *)
LEMMA CellsAreFinite ==
  ASSUME NEW es \in SUBSET Extents, IsFiniteSet(es)
  PROVE  IsFiniteSet(Cells(es)) /\ SumBlocks(es) \in Nat
<1> DEFINE T == {{e} \X (0 .. e.blocks - 1) : e \in es}
           f == [e \in es |-> {e} \X (0 .. e.blocks - 1)]
<1>1. f \in Surjection(es, T)
  BY DEF Surjection
<1>2. IsFiniteSet(T)
  BY <1>1, FS_Surjection
<1>3. ASSUME NEW e \in es PROVE IsFiniteSet({e} \X (0 .. e.blocks - 1))
  <2>1. e.blocks \in Nat
    BY RangesAssumption DEF SegmentExtent
  <2>2. IsFiniteSet({e})
    BY FS_Singleton
  <2>3. 0 \in Int /\ e.blocks - 1 \in Int
    BY <2>1
  <2>4. IsFiniteSet(0 .. e.blocks - 1)
    BY <2>3, FS_Interval
  <2> QED BY <2>2, <2>4, FS_Product
<1>4. IsFiniteSet(Cells(es))
  BY <1>2, <1>3, FS_UNION DEF Cells
<1> QED BY <1>4, FS_CardinalityType DEF SumBlocks

(* target_blocks is enough for every object: four units of it per session.    *)
LEMMA TargetIsEnough ==
  ASSUME extents \subseteq Extents, IsFiniteSet(extents), extents # {}, sessions \in Nat \ {0}
  PROVE  /\ TargetBlocks \in Nat \ {0}
         /\ \A o \in ObjectsOf(extents) : SumBlocks(OfObject(extents, o)) <= 4 * sessions * TargetBlocks
<1> DEFINE S == {SumBlocks(OfObject(extents, o)) : o \in ObjectsOf(extents)}
           largest == CHOOSE n \in S : \A o \in ObjectsOf(extents) : SumBlocks(OfObject(extents, o)) <= n
           d == 4 * sessions
<1>1. \A o : OfObject(extents, o) \in SUBSET extents
  BY DEF OfObject
<1>2. ASSUME NEW o PROVE SumBlocks(OfObject(extents, o)) \in Nat /\ SumBlocks(OfObject(extents, o)) <= SumBlocks(extents)
  <2>1. IsFiniteSet(OfObject(extents, o)) /\ OfObject(extents, o) \in SUBSET Extents
    BY <1>1, FS_Subset
  <2>2. Cells(OfObject(extents, o)) \in SUBSET Cells(extents)
    BY <1>1 DEF Cells
  <2> QED BY <2>1, <2>2, CellsAreFinite, FS_Subset DEF SumBlocks
<1>3. S \in SUBSET Nat /\ S # {} /\ SumBlocks(extents) \in Nat /\ \A x \in S : x <= SumBlocks(extents)
  BY <1>2, CellsAreFinite DEF ObjectsOf
<1>4. PICK n \in S : \A x \in S : x <= n
  BY <1>3, GreatestOfNaturals
<1>5. \E y \in S : \A o \in ObjectsOf(extents) : SumBlocks(OfObject(extents, o)) <= y
  BY <1>4
<1>6. largest \in S /\ \A o \in ObjectsOf(extents) : SumBlocks(OfObject(extents, o)) <= largest
  BY <1>5
<1>7. TargetBlocks = Greatest((largest + d - 1) \div d, kMinUnitBlocks)
  BY DEF TargetBlocks
<1>8. largest \in Nat /\ d \in Nat /\ d > 0 /\ kMinUnitBlocks \in Nat \ {0}
  <2>1. d \in Nat /\ d > 0
    OBVIOUS
  <2>2. kMinUnitBlocks \in Nat \ {0}
    BY RangesAssumption
  <2> HIDE DEF S, largest
  <2> QED BY <1>3, <1>6, <2>1, <2>2
<1> HIDE DEF S, largest, d
<1> DEFINE q == (largest + d - 1) \div d
<1>9. q \in Int /\ q * d + ((largest + d - 1) % d) = largest + d - 1 /\ (largest + d - 1) % d \in 0 .. d - 1
  BY <1>8, DivideAndMultiply, largest + d - 1 \in Nat
<1>10. q * d \in Int /\ q * d >= largest
  BY <1>8, <1>9
<1>11. TargetBlocks = Greatest(q, kMinUnitBlocks)
  BY <1>7
<1> HIDE DEF q
<1>12. TargetBlocks \in Nat \ {0} /\ q <= TargetBlocks
  BY <1>8, <1>9, <1>11 DEF Greatest
<1>13. d * TargetBlocks = q * d + d * (TargetBlocks - q)
  BY <1>8, <1>9, <1>12
<1>14. d * (TargetBlocks - q) >= 0 /\ d * (TargetBlocks - q) \in Int
  BY <1>8, <1>9, <1>12
<1>15. largest <= d * TargetBlocks /\ d * TargetBlocks \in Int
  BY <1>8, <1>10, <1>12, <1>13, <1>14
<1>16. ASSUME NEW o \in ObjectsOf(extents) PROVE SumBlocks(OfObject(extents, o)) <= d * TargetBlocks
  BY <1>2, <1>6, <1>8, <1>15
<1> QED BY <1>12, <1>16 DEF d

-----------------------------------------------------------------------------
(* The steps. *)
LEMMA ArgumentsStay == [Next]_vars => UNCHANGED arguments
BY DEF Next, vars, StartObject, FillUnit, CloseObject, SortUnits, arguments

(* The next data object is one that is left, and was not cut yet. *)
LEMMA StartFacts ==
  ASSUME TypeOK, ListInv, StartObject
  PROVE  /\ object' \in ObjectsOf(todo) /\ object' \in 0 .. MaxObject
         /\ list' = OfObject(todo, object') /\ list' = OfObject(extents, object') /\ list' # {}
         /\ todo' = todo \ list' /\ offset' = 0 /\ blocks' = 0
         /\ rowid_lo' = Position(object', 0, 0)
         /\ ObjectsOf(extents \ todo') = ObjectsOf(extents \ todo) \cup {object'}
         /\ object' \notin ObjectsOf(extents \ todo)
         /\ object = -1 /\ UNCHANGED <<units, slices>>
<1>1. /\ object = -1 /\ todo # {} /\ UNCHANGED <<units, slices>>
      /\ object' = CHOOSE o \in ObjectsOf(todo) : \A x \in ObjectsOf(todo) : o <= x
      /\ list' = OfObject(todo, object') /\ todo' = todo \ list' /\ offset' = 0 /\ blocks' = 0
      /\ rowid_lo' = EncodeRowid(object', 0, 0)
  BY DEF StartObject
<1>2. \A e \in extents : e.data_object_id \in 0 .. MaxObject
  BY RangesAssumption DEF SegmentExtent, TypeOK
<1>3. ObjectsOf(todo) \in SUBSET Nat /\ ObjectsOf(todo) # {} /\ \A o \in ObjectsOf(todo) : o \in 0 .. MaxObject
  BY <1>1, <1>2, Sizes DEF ObjectsOf, TypeOK
<1>4. \E o \in ObjectsOf(todo) : \A x \in ObjectsOf(todo) : o <= x
  BY <1>3, LeastOfNaturals
<1>5. object' \in ObjectsOf(todo) /\ object' \in 0 .. MaxObject
  BY <1>1, <1>3, <1>4
<1>6. PICK x \in todo : x.data_object_id = object'
  BY <1>5 DEF ObjectsOf
<1>7. OfObject(extents, object') = OfObject(todo, object') /\ x \in list'
  BY <1>1, <1>6 DEF OfObject, ListInv, TypeOK
<1>8. object' \notin ObjectsOf(extents \ todo)
  BY <1>6 DEF ObjectsOf, ListInv
<1>9. ObjectsOf(extents \ todo') = ObjectsOf(extents \ todo) \cup {object'}
  BY <1>1, <1>6, <1>7 DEF ObjectsOf, OfObject, TypeOK
<1> QED BY <1>1, <1>5, <1>7, <1>8, <1>9, ObjectBounds

(* Where the filling is: in an extent, at its offset. *)
LEMMA WhereItIs ==
  ASSUME TypeOK, ArgumentInv, ListInv, object # -1, list # {}
  PROVE  /\ First(list) \in list /\ First(list) \in Extents /\ First(list).data_object_id = object
         /\ \A x \in list \ {First(list)} : Before(First(list), x)
         /\ offset \in 0 .. First(list).blocks - 1
         /\ First(list).blocks \in Nat
         /\ Boundary = BlockPosition(First(list), offset)
         /\ Boundary \in Nat /\ Within(Boundary, object)
<1>1. list \in SUBSET extents /\ \A e \in list : e.data_object_id = object
  BY DEF ListInv, OfObject, TypeOK
<1>2. First(list) \in list /\ \A x \in list \ {First(list)} : Before(First(list), x)
  BY <1>1, FirstIsFirst DEF TypeOK
<1>3. First(list) \in Extents /\ First(list).data_object_id = object
  BY <1>1, <1>2 DEF TypeOK
<1>4. First(list).blocks \in Nat
  BY <1>3, RangesAssumption DEF SegmentExtent
<1>5. offset \in 0 .. First(list).blocks - 1
  BY <1>4 DEF ListInv, TypeOK
<1>6. Boundary = BlockPosition(First(list), offset)
  BY <1>3, <1>5, RowidIsPosition DEF Boundary
<1> QED BY <1>2, <1>3, <1>4, <1>5, <1>6, BlockIsWithin

(* One iteration takes at least a block. *)
LEMMA FillFacts ==
  ASSUME TypeOK, ArgumentInv, ListInv, FillUnit
  PROVE  \E take \in Nat \ {0} :
           /\ offset + take <= First(list).blocks
           /\ IF blocks >= target
                THEN /\ units' = Append(units, [lo |-> rowid_lo, hi |-> Boundary, blocks |-> blocks])
                     /\ rowid_lo' = Boundary /\ blocks' = take
                ELSE units' = units /\ rowid_lo' = rowid_lo /\ blocks' = blocks + take
           /\ blocks' \in 1 .. target
           /\ IF offset + take = First(list).blocks THEN list' = list \ {First(list)} /\ offset' = 0
              ELSE list' = list /\ offset' = offset + take
           /\ object # -1 /\ list # {} /\ UNCHANGED <<todo, object, slices>>
<1> DEFINE filled == IF blocks >= target THEN 0 ELSE blocks
           take == Least(First(list).blocks - offset, target - filled)
<1>1. /\ object # -1 /\ list # {} /\ UNCHANGED <<todo, object, slices>>
      /\ IF blocks >= target
           THEN /\ units' = Append(units, [lo |-> rowid_lo, hi |-> Boundary, blocks |-> blocks])
                /\ rowid_lo' = Boundary
           ELSE units' = units /\ rowid_lo' = rowid_lo
      /\ blocks' = filled + take
      /\ IF offset + take = First(list).blocks THEN list' = list \ {First(list)} /\ offset' = 0
         ELSE list' = list /\ offset' = offset + take
  BY DEF FillUnit, Take
<1>2. offset \in 0 .. First(list).blocks - 1 /\ First(list).blocks \in Nat
  BY <1>1, WhereItIs
<1>3. target \in Nat /\ target > 0 /\ blocks \in 0 .. target
  BY DEF TypeOK
<1>4. filled \in 0 .. target - 1
  BY <1>3
<1>5. take \in Nat /\ take > 0 /\ offset + take <= First(list).blocks /\ filled + take <= target
  BY <1>2, <1>3, <1>4 DEF Least
<1>6. blocks' \in 1 .. target
  BY <1>1, <1>3, <1>4, <1>5
<1>7. IF blocks >= target THEN blocks' = take ELSE blocks' = blocks + take
  BY <1>1, <1>5
<1> HIDE DEF take, filled
<1> QED BY <1>1, <1>5, <1>6, <1>7

(* Types. *)
LEMMA TypeStep == TypeOK /\ ArgumentInv /\ ListInv /\ [Next]_vars => TypeOK'
<1> SUFFICES ASSUME TypeOK, ArgumentInv, ListInv, [Next]_vars PROVE TypeOK'
  OBVIOUS
<1>0. /\ extents' \subseteq Extents /\ IsFiniteSet(extents') /\ extents' # {}
      /\ sessions' \in 1 .. MaxSessions /\ target' \in Nat \ {0}
  BY ArgumentsStay DEF arguments, TypeOK
<1>1. CASE StartObject
  <2>1. rowid_lo' \in Nat
    BY <1>1, StartFacts, ObjectBounds
  <2>2. target' \in Nat
    BY <1>0
  <2> QED BY <1>0, <1>1, <2>1, <2>2, StartFacts, ArgumentsStay DEF TypeOK, OfObject, arguments
<1>2. CASE FillUnit
  <2>0. object # -1 /\ list # {}
    BY <1>2 DEF FillUnit
  <2>1. Boundary \in Nat
    BY <2>0, WhereItIs
  <2>2. PICK take \in Nat \ {0} :
           /\ offset + take <= First(list).blocks
           /\ IF blocks >= target
                THEN /\ units' = Append(units, [lo |-> rowid_lo, hi |-> Boundary, blocks |-> blocks])
                     /\ rowid_lo' = Boundary /\ blocks' = take
                ELSE units' = units /\ rowid_lo' = rowid_lo /\ blocks' = blocks + take
           /\ blocks' \in 1 .. target
           /\ IF offset + take = First(list).blocks THEN list' = list \ {First(list)} /\ offset' = 0
              ELSE list' = list /\ offset' = offset + take
           /\ UNCHANGED <<todo, object, slices>>
    BY <1>2, FillFacts
  <2>3. [lo |-> rowid_lo, hi |-> Boundary, blocks |-> blocks] \in Unit
    BY <2>1 DEF TypeOK, Unit
  <2>4. units' \in Seq(Unit) /\ rowid_lo' \in Nat /\ offset' \in Nat
    <3> DEFINE u == [lo |-> rowid_lo, hi |-> Boundary, blocks |-> blocks]
    <3>1. u \in Unit /\ (units' = Append(units, u) \/ units' = units) /\ rowid_lo' \in {Boundary, rowid_lo}
      BY <2>2, <2>3
    <3> HIDE DEF u
    <3>2. units' \in Seq(Unit) /\ rowid_lo' \in Nat
      BY <2>1, <3>1 DEF TypeOK
    <3>3. offset' \in Nat
      BY <2>2 DEF TypeOK
    <3> QED BY <3>2, <3>3
  <2>5. blocks' \in 0 .. target' /\ todo' \subseteq extents' /\ list' \subseteq extents' /\ object' \in -1 .. MaxObject
    BY <2>2, ArgumentsStay DEF TypeOK, arguments
  <2> QED BY <1>0, <2>4, <2>5 DEF TypeOK
<1>3. CASE CloseObject
  <2>1. object \in 0 .. MaxObject
    BY <1>3 DEF CloseObject, TypeOK
  <2>2. LastRowid(object) \in Nat
    BY <2>1, ObjectBounds
  <2>3. [lo |-> rowid_lo, hi |-> LastRowid(object), blocks |-> blocks] \in Unit
    BY <2>2 DEF TypeOK, Unit
  <2> QED BY <1>0, <1>3, <2>3, Sizes DEF TypeOK, CloseObject, arguments
<1>4. CASE SortUnits \/ UNCHANGED vars
  BY <1>0, <1>4 DEF TypeOK, SortUnits, vars, arguments
<1> QED BY <1>1, <1>2, <1>3, <1>4 DEF Next

(* The arguments are. *)
LEMMA ArgumentStep == ArgumentInv /\ [Next]_vars => ArgumentInv'
BY ArgumentsStay DEF ArgumentInv, arguments

(* The extents are used up in order, object by object. *)
LEMMA ListStep == TypeOK /\ ArgumentInv /\ ListInv /\ [Next]_vars => ListInv'
<1> SUFFICES ASSUME TypeOK, ArgumentInv, ListInv, [Next]_vars PROVE ListInv'
  OBVIOUS
<1>0. UNCHANGED extents
  BY ArgumentsStay DEF arguments
<1>N. ASSUME NEW es \in SUBSET extents, es # {}, NEW o, \A e \in es : e.data_object_id = o
      PROVE  First(es).blocks \in Nat /\ 0 < First(es).blocks
  <2>1. First(es) \in Extents
    BY <1>N, FirstIsFirst DEF TypeOK
  <2> QED BY <2>1, RangesAssumption DEF SegmentExtent
<1>1. CASE StartObject
  <2>1. list' \in SUBSET extents /\ \A e \in list' : e.data_object_id = object'
    BY <1>1, StartFacts DEF OfObject
  <2>2. list' # {} => offset' < First(list').blocks
    BY <1>1, <1>N, <2>1, StartFacts
  <2>3. object' # -1 /\ object' \in ObjectsOf(extents \ todo') /\ list' = OfObject(extents, object') /\ list' # {}
    BY <1>1, StartFacts
  <2>4. \A e \in extents, x \in todo' : e.data_object_id = x.data_object_id => e \in todo'
    BY <1>1, StartFacts DEF ListInv, OfObject
  <2> QED BY <1>0, <2>2, <2>3, <2>4 DEF ListInv
<1>2. CASE FillUnit
  <2>0. object # -1 /\ list # {}
    BY <1>2 DEF FillUnit
  <2>1. PICK take \in Nat \ {0} :
           /\ offset + take <= First(list).blocks
           /\ IF offset + take = First(list).blocks THEN list' = list \ {First(list)} /\ offset' = 0
              ELSE list' = list /\ offset' = offset + take
           /\ UNCHANGED <<todo, object, slices>>
    BY <1>2, FillFacts
  <2>2. First(list) \in list /\ (\A x \in list \ {First(list)} : Before(First(list), x)) /\ First(list).blocks \in Nat
        /\ offset \in Nat
    BY <2>0, WhereItIs
  <2>3. list' \subseteq list /\ list \subseteq OfObject(extents, object) /\ object \in ObjectsOf(extents \ todo)
    BY <2>0, <2>1 DEF ListInv
  <2>4. list' \in SUBSET extents /\ \A e \in list' : e.data_object_id = object
    BY <2>3 DEF OfObject
  <2>5. list' # {} => offset' < First(list').blocks
    BY <1>N, <2>1, <2>2, <2>4
  <2>6. list' = {} => offset' = 0
    BY <2>0, <2>1
  <2>7. ASSUME NEW e \in OfObject(extents, object) \ list', NEW x \in list' PROVE Before(e, x)
    <3>1. CASE e = First(list)
      BY <2>1, <2>2, <2>7, <3>1
    <3>2. CASE e \notin list
      BY <2>3, <2>7, <3>2 DEF ListInv
    <3> QED BY <2>1, <2>7, <3>1, <3>2
  <2>8. UNCHANGED <<todo, object>>
    BY <2>1
  <2>9. \A e \in extents, x \in todo : e.data_object_id = x.data_object_id => e \in todo
    BY DEF ListInv
  <2> QED BY <1>0, <2>0, <2>3, <2>5, <2>6, <2>7, <2>8, <2>9 DEF ListInv
<1>3. CASE CloseObject
  BY <1>0, <1>3 DEF ListInv, CloseObject
<1>4. CASE SortUnits \/ UNCHANGED vars
  BY <1>0, <1>4 DEF ListInv, SortUnits, vars
<1> QED BY <1>1, <1>2, <1>3, <1>4 DEF Next

(* A unit from where the last one ended leaves no gap and no overlap. *)
LEMMA AddUnit ==
  ASSUME TypeOK, ListInv, RangeInv, object # -1,
         NEW hi \in Nat, rowid_lo <= hi, hi <= Position(object + 1, 0, 0),
         NEW u \in Unit, u.lo = rowid_lo, u.hi = hi, NEW made, made = Append(units, u)
  PROVE  /\ \A i \in DOMAIN made : \E o \in ObjectsOf(extents \ todo) : Within(made[i].lo, o)
         /\ \A x \in Rowids, i, j \in DOMAIN made : Holds(made[i], x) /\ Holds(made[j], x) => i = j
         /\ \A x \in Rowids :
              (\E i \in DOMAIN made : Holds(made[i], x)) <=>
                (\E o \in Finished : Within(x, o)) \/ (Position(object, 0, 0) <= x /\ x < hi)
<1>0. /\ object \in 0 .. MaxObject /\ object \in ObjectsOf(extents \ todo) /\ Within(rowid_lo, object) /\ rowid_lo \in Nat
      /\ units \in Seq(Unit)
  BY DEF TypeOK, ListInv, RangeInv
<1>1. /\ DOMAIN made = 1 .. Len(units) + 1 /\ DOMAIN units = 1 .. Len(units) /\ Len(units) \in Nat
      /\ \A i \in DOMAIN units : made[i] = units[i]
      /\ made[Len(units) + 1] = u
  BY <1>0
<1>2. \A i \in DOMAIN made : i \in DOMAIN units \/ i = Len(units) + 1
  BY <1>1
<1>3. \A x \in Rowids : x \in Nat
  BY Sizes, ObjectBounds DEF Rowids
<1>4. Position(object, 0, 0) \in Nat /\ Position(object + 1, 0, 0) \in Nat
  BY <1>0, ObjectBounds
<1>5. \A o \in Finished : o \in Int /\ o # object
  BY RangesAssumption, Sizes DEF Finished, ObjectsOf, SegmentExtent, TypeOK
<1>6. ASSUME NEW x \in Rowids
      PROVE  Holds(u, x) <=> rowid_lo <= x /\ x < hi
  BY DEF Holds
<1>7. ASSUME NEW x \in Rowids, rowid_lo <= x, x < hi, NEW i \in DOMAIN units PROVE ~Holds(units[i], x)
  <2>1. Within(x, object)
    BY <1>0, <1>3, <1>4, <1>7 DEF Within
  <2>2. \A o \in Finished : ~Within(x, o)
    BY <1>0, <1>3, <1>5, <2>1, OneObject
  <2>3. ~(x < rowid_lo)
    BY <1>0, <1>3, <1>7
  <2> QED BY <2>2, <2>3 DEF RangeInv
<1>8. \A i \in DOMAIN made : \E o \in ObjectsOf(extents \ todo) : Within(made[i].lo, o)
  BY <1>0, <1>1, <1>2 DEF RangeInv
<1>9. ASSUME NEW x \in Rowids, NEW i \in DOMAIN made, NEW j \in DOMAIN made, Holds(made[i], x), Holds(made[j], x)
      PROVE i = j
  BY <1>1, <1>2, <1>6, <1>7, <1>9 DEF RangeInv
<1>10. ASSUME NEW x \in Rowids
       PROVE  (\E i \in DOMAIN made : Holds(made[i], x)) <=>
                (\E o \in Finished : Within(x, o)) \/ (Position(object, 0, 0) <= x /\ x < hi)
  <2>1. (\E i \in DOMAIN made : Holds(made[i], x)) <=> (\E i \in DOMAIN units : Holds(units[i], x)) \/ Holds(u, x)
    BY <1>1, <1>2
  <2>2. (\E i \in DOMAIN units : Holds(units[i], x)) <=>
          (\E o \in Finished : Within(x, o)) \/ (Position(object, 0, 0) <= x /\ x < rowid_lo)
    BY DEF RangeInv
  <2>3. (Position(object, 0, 0) <= x /\ x < hi) <=>
          (Position(object, 0, 0) <= x /\ x < rowid_lo) \/ (rowid_lo <= x /\ x < hi)
    BY <1>0, <1>3, <1>4 DEF Within
  <2> QED BY <1>6, <2>1, <2>2, <2>3
<1> QED BY <1>8, <1>9, <1>10

(* In an object the bounds go up. *)
LEMMA BoundariesGoUp ==
  ASSUME TypeOK, ArgumentInv, ListInv, FillUnit, ListInv', TypeOK', ArgumentInv', list' # {}
  PROVE  Boundary <= Boundary' /\ Within(Boundary', object) /\ Boundary' \in Nat /\ Boundary \in Nat
<1> DEFINE e == First(list)
           x == First(list')
<1>0. /\ object # -1 /\ list # {} /\ UNCHANGED extents /\ UNCHANGED object
  BY DEF FillUnit, arguments
<1>1. /\ e \in list /\ e \in Extents /\ e.data_object_id = object
      /\ \A y \in list \ {e} : Before(e, y)
      /\ offset \in 0 .. e.blocks - 1 /\ Boundary = BlockPosition(e, offset) /\ Boundary \in Nat /\ e.blocks \in Nat
  BY <1>0, WhereItIs
<1>2. /\ x \in list' /\ x \in Extents /\ x.data_object_id = object
      /\ offset' \in 0 .. x.blocks - 1 /\ Boundary' = BlockPosition(x, offset') /\ Boundary' \in Nat /\ x.blocks \in Nat
      /\ Within(Boundary', object)
  <2>1. object' # -1
    BY <1>0
  <2>2. /\ x \in list' /\ x \in Extents /\ x.data_object_id = object'
        /\ offset' \in 0 .. x.blocks - 1 /\ Boundary' = BlockPosition(x, offset') /\ Boundary' \in Nat /\ x.blocks \in Nat
        /\ Within(Boundary', object')
    <3>1. (TypeOK /\ ArgumentInv /\ ListInv /\ object # -1 /\ list # {} =>
             /\ First(list) \in list /\ First(list) \in Extents /\ First(list).data_object_id = object
             /\ offset \in 0 .. First(list).blocks - 1 /\ Boundary = BlockPosition(First(list), offset) /\ Boundary \in Nat
             /\ First(list).blocks \in Nat /\ Within(Boundary, object))'
      BY WhereItIs, PTL
    <3> QED BY <2>1, <3>1
  <2> QED BY <2>2, <1>0
<1>3. PICK take \in Nat \ {0} :
        IF offset + take = e.blocks THEN list' = list \ {e} /\ offset' = 0
        ELSE list' = list /\ offset' = offset + take
  BY FillFacts
<1>4. CASE offset + take = e.blocks
  <2>1. x \in list \ {e} /\ Before(e, x) /\ x \in extents /\ e \in extents
    BY <1>1, <1>2, <1>3, <1>4 DEF TypeOK
  <2>2. BlockPosition(e, offset) < BlockPosition(x, offset')
    BY <1>1, <1>2, <2>1, ExtentsInOrder DEF TypeOK
  <2> QED BY <1>1, <1>2, <2>2
<1>5. CASE offset + take # e.blocks
  <2>1. x = e /\ offset' = offset + take
    BY <1>3, <1>5
  <2> DEFINE f == IF e.relative_fno = BigFile THEN 0 ELSE e.relative_fno
  <2>2. f \in Int /\ object \in Int /\ e.block_id \in Int /\ offset \in Int /\ e.block_id + offset \in Int /\ e.block_id + (offset + take) \in Int
    BY <1>1, ExtentFacts
  <2>3. /\ BlockPosition(e, offset) = Position(object, f, e.block_id + offset)
        /\ BlockPosition(e, offset + take) = Position(object, f, e.block_id + (offset + take))
    BY <1>1 DEF BlockPosition
  <2> HIDE DEF f, e, x
  <2>4. Position(object, f, e.block_id + offset) = Position(object, 0, 0) + (f * BlockSpace + (e.block_id + offset))
    BY <2>2, PositionSplits
  <2>5. Position(object, f, e.block_id + (offset + take)) = Position(object, 0, 0) + (f * BlockSpace + (e.block_id + (offset + take)))
    BY <2>2, PositionSplits
  <2>6. Position(object, 0, 0) \in Int /\ f * BlockSpace \in Int
    <3>1. Position(object, 0, 0) \in Int
      BY <2>2, PositionSplits
    <3>2. f * BlockSpace \in Int
      BY <2>2, Sizes
    <3> QED BY <3>1, <3>2
  <2> QED BY <1>1, <1>2, <2>1, <2>2, <2>3, <2>4, <2>5, <2>6
<1> QED BY <1>1, <1>2, <1>4, <1>5

(* The ranges leave no gap and no overlap. *)
LEMMA RangeStep == TypeOK /\ ArgumentInv /\ ListInv /\ RangeInv /\ [Next]_vars => RangeInv'
<1> SUFFICES ASSUME TypeOK, ArgumentInv, ListInv, RangeInv, [Next]_vars PROVE RangeInv'
  OBVIOUS
<1>0. UNCHANGED extents /\ TypeOK' /\ ArgumentInv' /\ ListInv' /\ Rowids' = Rowids
  BY ArgumentsStay, TypeStep, ArgumentStep, ListStep DEF arguments, Rowids, Position
<1>1. CASE StartObject
  <2>1. /\ object' \in 0 .. MaxObject /\ rowid_lo' = Position(object', 0, 0) /\ UNCHANGED units /\ object = -1 /\ object' # -1
        /\ ObjectsOf(extents \ todo') = ObjectsOf(extents \ todo) \cup {object'} /\ object' \notin ObjectsOf(extents \ todo)
    BY <1>1, StartFacts
  <2>2. Within(rowid_lo', object')
    BY <2>1, ObjectBounds DEF Within
  <2>3. list' # {} => rowid_lo' <= Boundary'
    <3>1. (TypeOK /\ ArgumentInv /\ ListInv /\ object # -1 /\ list # {} => Within(Boundary, object))'
      BY WhereItIs, PTL
    <3>2. list' # {} => Within(Boundary', object')
      BY <1>0, <2>1, <3>1
    <3> QED BY <2>1, <3>2 DEF Within
  <2>4. \A e \in extents : e.data_object_id # -1
    BY RangesAssumption, Sizes DEF TypeOK, SegmentExtent
  <2>5. Finished' = Finished
    BY <1>0, <2>1, <2>4 DEF Finished, ObjectsOf
  <2>6. \A x \in Rowids : ~(Position(object', 0, 0) <= x /\ x < rowid_lo')
    <3>1. \A x \in Rowids : x \in Nat
      BY Sizes, ObjectBounds DEF Rowids
    <3>2. Position(object', 0, 0) \in Nat
      BY <2>1, ObjectBounds
    <3> QED BY <2>1, <3>1, <3>2
  <2>7. \A i \in DOMAIN units : \E o \in ObjectsOf(extents \ todo') : Within(units[i].lo, o)
    BY <2>1 DEF RangeInv
  <2> HIDE <1>1
  <2> QED BY <1>0, <2>1, <2>2, <2>3, <2>5, <2>6, <2>7 DEF RangeInv
<1>2. CASE FillUnit
  <2>0. object # -1 /\ list # {} /\ UNCHANGED <<todo, object>>
    BY <1>2 DEF FillUnit
  <2>1. Boundary \in Nat /\ Within(Boundary, object) /\ rowid_lo <= Boundary /\ Within(rowid_lo, object)
    BY <2>0, WhereItIs DEF RangeInv
  <2>2. list' # {} => Boundary <= Boundary' /\ Boundary' \in Nat
    BY <1>0, <1>2, BoundariesGoUp
  <2>3. \/ UNCHANGED <<units, rowid_lo>>
        \/ units' = Append(units, [lo |-> rowid_lo, hi |-> Boundary, blocks |-> blocks]) /\ rowid_lo' = Boundary
    BY <1>2 DEF FillUnit
  <2>4. Finished' = Finished /\ ObjectsOf(extents \ todo)' = ObjectsOf(extents \ todo)
    BY <1>0, <2>0 DEF Finished, ObjectsOf
  <2>5. Within(rowid_lo', object') /\ (list' # {} => rowid_lo' <= Boundary')
    BY <2>0, <2>1, <2>2, <2>3 DEF TypeOK
  <2>6. CASE UNCHANGED <<units, rowid_lo>>
    BY <1>0, <2>0, <2>4, <2>5, <2>6 DEF RangeInv
  <2>7. CASE units' = Append(units, [lo |-> rowid_lo, hi |-> Boundary, blocks |-> blocks]) /\ rowid_lo' = Boundary
    <3> DEFINE u == [lo |-> rowid_lo, hi |-> Boundary, blocks |-> blocks]
    <3>1. u \in Unit /\ u.lo = rowid_lo /\ u.hi = Boundary /\ units' = Append(units, u)
      BY <2>1, <2>7 DEF Unit, TypeOK
    <3> HIDE DEF u
    <3>2. Boundary <= Position(object + 1, 0, 0)
      <4>1. Position(object + 1, 0, 0) \in Int
        BY <2>0, ObjectBounds DEF TypeOK
      <4> QED BY <2>1, <4>1 DEF Within
    <3>3. /\ \A i \in DOMAIN units' : \E o \in ObjectsOf(extents \ todo) : Within(units'[i].lo, o)
          /\ \A x \in Rowids, i, j \in DOMAIN units' : Holds(units'[i], x) /\ Holds(units'[j], x) => i = j
          /\ \A x \in Rowids :
               (\E i \in DOMAIN units' : Holds(units'[i], x)) <=>
                 (\E o \in Finished : Within(x, o)) \/ (Position(object, 0, 0) <= x /\ x < Boundary)
      BY <2>0, <2>1, <3>1, <3>2, AddUnit
    <3> QED BY <1>0, <2>0, <2>4, <2>5, <2>7, <3>3 DEF RangeInv
  <2> QED BY <2>3, <2>6, <2>7
<1>3. CASE CloseObject
  <2>0. object # -1 /\ UNCHANGED todo /\ object' = -1 /\ object \in 0 .. MaxObject
        /\ units' = Append(units, [lo |-> rowid_lo, hi |-> LastRowid(object), blocks |-> blocks])
    BY <1>3 DEF CloseObject, TypeOK
  <2> DEFINE u == [lo |-> rowid_lo, hi |-> LastRowid(object), blocks |-> blocks]
             hi == Position(object + 1, 0, 0)
  <2>1. LastRowid(object) = hi /\ hi \in Nat /\ Position(object, 0, 0) \in Nat
    BY <2>0, ObjectBounds
  <2>2. u \in Unit /\ u.lo = rowid_lo /\ u.hi = hi /\ units' = Append(units, u)
    BY <2>0, <2>1 DEF Unit, TypeOK
  <2>3. rowid_lo <= hi /\ hi <= hi
    BY <2>0, <2>1 DEF RangeInv, Within, TypeOK
  <2> HIDE DEF u
  <2>4. /\ \A i \in DOMAIN units' : \E o \in ObjectsOf(extents \ todo) : Within(units'[i].lo, o)
        /\ \A x \in Rowids, i, j \in DOMAIN units' : Holds(units'[i], x) /\ Holds(units'[j], x) => i = j
        /\ \A x \in Rowids :
             (\E i \in DOMAIN units' : Holds(units'[i], x)) <=>
               (\E o \in Finished : Within(x, o)) \/ (Position(object, 0, 0) <= x /\ x < hi)
    BY <2>0, <2>1, <2>2, <2>3, AddUnit
  <2>5. \A o : o \in Finished' <=> o \in Finished \/ o = object
    <3>1. \A e \in extents : e.data_object_id # -1
      BY RangesAssumption, Sizes DEF TypeOK, SegmentExtent
    <3>2. object \in ObjectsOf(extents \ todo)
      BY <2>0 DEF ListInv
    <3> QED BY <1>0, <2>0, <3>1, <3>2 DEF Finished, ObjectsOf
  <2>6. ObjectsOf(extents \ todo)' = ObjectsOf(extents \ todo)
    BY <1>0, <2>0 DEF ObjectsOf
  <2>7. \A x \in Rowids : (\E o \in Finished' : Within(x, o)) <=> (\E o \in Finished : Within(x, o)) \/ (Position(object, 0, 0) <= x /\ x < hi)
    BY <2>5 DEF Within
  <2> HIDE DEF hi
  <2> QED BY <1>0, <2>0, <2>4, <2>6, <2>7 DEF RangeInv
<1>4. CASE SortUnits \/ UNCHANGED vars
  <2>1. UNCHANGED <<object, rowid_lo, list, offset, todo, units>>
    BY <1>4 DEF SortUnits, vars
  <2>2. Boundary' = Boundary /\ Finished' = Finished /\ ObjectsOf(extents \ todo)' = ObjectsOf(extents \ todo)
    BY <1>0, <2>1 DEF Boundary, Finished, ObjectsOf
  <2> QED BY <1>0, <2>1, <2>2 DEF RangeInv
<1> QED BY <1>1, <1>2, <1>3, <1>4 DEF Next

-----------------------------------------------------------------------------
(* The blocks of an extent lie in their order.                                *)
LEMMA BlocksInOrder ==
  ASSUME NEW e \in Extents, NEW n \in 0 .. e.blocks - 1, NEW m \in 0 .. e.blocks - 1
  PROVE  BlockPosition(e, n) < BlockPosition(e, m) <=> n < m
<1> DEFINE o == e.data_object_id
           f == IF e.relative_fno = BigFile THEN 0 ELSE e.relative_fno
           b == e.block_id
<1>1. o \in Int /\ f \in Int /\ b \in Int /\ n \in Int /\ m \in Int
  BY ExtentFacts
<1>2. BlockPosition(e, n) = Position(o, f, b + n) /\ BlockPosition(e, m) = Position(o, f, b + m)
  BY DEF BlockPosition
<1> HIDE DEF o, f, b
<1>3. Position(o, f, b + n) = Position(o, 0, 0) + (f * BlockSpace + (b + n))
  BY <1>1, PositionSplits, b + n \in Int
<1>4. Position(o, f, b + m) = Position(o, 0, 0) + (f * BlockSpace + (b + m))
  BY <1>1, PositionSplits, b + m \in Int
<1>5. Position(o, 0, 0) \in Int
  BY <1>1, PositionSplits
<1>6. f * BlockSpace \in Int
  BY <1>1, Sizes
<1> QED BY <1>1, <1>2, <1>3, <1>4, <1>5, <1>6

(* A block that the extents have is in its object, at a place in ROWID order. *)
LEMMA CellFacts ==
  ASSUME TypeOK, NEW c \in Cells(extents)
  PROVE  /\ c[1] \in extents /\ c[1] \in Extents /\ c[2] \in 0 .. c[1].blocks - 1 /\ c = <<c[1], c[2]>>
         /\ BlockPosition(c[1], c[2]) \in Nat /\ Within(BlockPosition(c[1], c[2]), c[1].data_object_id)
         /\ c[1].data_object_id \in Nat
<1>1. PICK e \in extents : \E n \in 0 .. e.blocks - 1 : c = <<e, n>>
  BY CellIsPair
<1>2. PICK n \in 0 .. e.blocks - 1 : c = <<e, n>>
  BY <1>1
<1>3. e \in Extents /\ c[1] = e /\ c[2] = n
  BY <1>2 DEF TypeOK
<1>4. BlockPosition(e, n) \in Nat /\ Within(BlockPosition(e, n), e.data_object_id)
  BY <1>3, BlockIsWithin
<1>5. e.data_object_id \in Nat
  BY <1>3, ExtentFacts
<1> QED BY <1>2, <1>3, <1>4, <1>5

(* The blocks of an object's extents. *)
LEMMA ObjectCells ==
  ASSUME TypeOK, NEW o, NEW c
  PROVE  /\ c \in Cells(OfObject(extents, o)) <=> c \in Cells(extents) /\ c[1].data_object_id = o
         /\ IsFiniteSet(Cells(OfObject(extents, o))) /\ IsFiniteSet(Cells(extents))
<1>1. c \in Cells(OfObject(extents, o)) <=> \E e \in OfObject(extents, o) : \E n \in 0 .. e.blocks - 1 : c = <<e, n>>
  BY CellIsPair
<1>2. c \in Cells(extents) <=> \E e \in extents : \E n \in 0 .. e.blocks - 1 : c = <<e, n>>
  BY CellIsPair
<1>3. c \in Cells(OfObject(extents, o)) <=> c \in Cells(extents) /\ c[1].data_object_id = o
  BY <1>1, <1>2 DEF OfObject
<1>4. OfObject(extents, o) \in SUBSET extents
  BY DEF OfObject
<1>5. IsFiniteSet(OfObject(extents, o)) /\ OfObject(extents, o) \in SUBSET Extents /\ extents \in SUBSET Extents
      /\ IsFiniteSet(extents)
  BY <1>4, FS_Subset DEF TypeOK
<1>6. IsFiniteSet(Cells(OfObject(extents, o))) /\ IsFiniteSet(Cells(extents))
  BY <1>5, CellsAreFinite
<1> QED BY <1>3, <1>6

(* The blocks taken are those below the boundary. *)
LEMMA TakenIsBelow ==
  ASSUME TypeOK, ArgumentInv, ListInv, object # -1, list # {},
         NEW c \in Cells(extents), c[1].data_object_id = object
  PROVE  c \in Taken <=> BlockPosition(c[1], c[2]) < Boundary
<1> DEFINE e == c[1]
           n == c[2]
           f == First(list)
<1>1. e \in extents /\ e \in Extents /\ n \in 0 .. e.blocks - 1 /\ BlockPosition(e, n) \in Nat
  BY CellFacts
<1>2. /\ f \in list /\ f \in Extents /\ f.data_object_id = object /\ \A x \in list \ {f} : Before(f, x)
      /\ offset \in 0 .. f.blocks - 1 /\ Boundary = BlockPosition(f, offset) /\ Boundary \in Nat
  BY WhereItIs
<1>3. c \in Taken <=> e \notin list \/ (e = f /\ n < offset)
  BY ObjectCells DEF Taken
<1>4. f \in extents /\ extents \subseteq Extents
  BY <1>2 DEF TypeOK
<1> HIDE DEF f
<1>5. CASE e \notin list
  <2>1. Before(e, f)
    BY <1>1, <1>2, <1>5 DEF ListInv, OfObject
  <2>2. BlockPosition(e, n) < BlockPosition(f, offset)
    BY <1>1, <1>2, <1>4, <2>1, ExtentsInOrder
  <2> QED BY <1>2, <1>3, <1>5, <2>2
<1>6. CASE e = f
  <2>1. BlockPosition(f, n) < BlockPosition(f, offset) <=> n < offset
    BY <1>1, <1>2, <1>6, BlocksInOrder
  <2> QED BY <1>2, <1>3, <1>6, <2>1
<1>7. CASE e \in list /\ e # f
  <2>1. Before(f, e)
    BY <1>2, <1>7
  <2>2. BlockPosition(f, offset) < BlockPosition(e, n)
    BY <1>1, <1>2, <1>4, <2>1, ExtentsInOrder
  <2> QED BY <1>1, <1>2, <1>3, <1>7, <2>2
<1> QED BY <1>5, <1>6, <1>7

(* An iteration takes some blocks of the first extent, from the boundary on.  *)
LEMMA TakenGrows ==
  ASSUME TypeOK, ArgumentInv, ListInv, FillUnit, NEW take \in Nat \ {0},
         offset + take <= First(list).blocks,
         IF offset + take = First(list).blocks THEN list' = list \ {First(list)} /\ offset' = 0
         ELSE list' = list /\ offset' = offset + take
  PROVE  \E Fresh :
           /\ Taken' = Taken \cup Fresh /\ Taken \cap Fresh = {}
           /\ IsFiniteSet(Fresh) /\ Cardinality(Fresh) = take
           /\ \A c \in Fresh : c \in Cells(extents) /\ Boundary <= BlockPosition(c[1], c[2])
<1> DEFINE f == First(list)
           Fresh == {f} \X (offset .. offset + take - 1)
<1>1. /\ f \in list /\ f \in Extents /\ f.data_object_id = object /\ f.blocks \in Nat
      /\ \A x \in list \ {f} : Before(f, x)
      /\ offset \in 0 .. f.blocks - 1 /\ Boundary = BlockPosition(f, offset) /\ Boundary \in Nat
      /\ object # -1 /\ list # {}
  BY WhereItIs DEF FillUnit
<1>2. UNCHANGED <<extents, object>>
  BY DEF FillUnit, arguments
<1>3. ListInv' /\ TypeOK' /\ ArgumentInv'
  BY ListStep, TypeStep, ArgumentStep DEF Next
<1>4. list' # {} => First(list') \in list'
  <2>1. (TypeOK /\ ArgumentInv /\ ListInv /\ object # -1 /\ list # {} => First(list) \in list)'
    BY WhereItIs, PTL
  <2> QED BY <1>1, <1>2, <1>3, <2>1
<1>5. IsFiniteSet(Fresh) /\ Cardinality(Fresh) = take
  <2>1. offset \in Int /\ offset + take - 1 \in Int
    BY <1>1
  <2> DEFINE last == offset + take - 1
  <2>2. IsFiniteSet(offset .. last) /\ Cardinality(offset .. last) = take
    <3>1. last - offset + 1 = take /\ ~(offset > last)
      BY <1>1
    <3> HIDE DEF last, f
    <3> QED BY <2>1, <3>1, FS_Interval DEF last
  <2>3. IsFiniteSet({f}) /\ Cardinality({f}) = 1
    BY FS_Singleton
  <2>4. IsFiniteSet(Fresh) /\ Cardinality(Fresh) = Cardinality({f}) * Cardinality(offset .. last)
    BY <2>2, <2>3, FS_Product
  <2> QED BY <2>2, <2>3, <2>4
<1>6. ASSUME NEW c \in Fresh PROVE c \in Cells(extents) /\ c[1] = f /\ c[2] \in offset .. offset + take - 1 /\ c \notin Taken
  <2>1. c[1] = f /\ c[2] \in offset .. offset + take - 1 /\ c = <<f, c[2]>>
    OBVIOUS
  <2>2. c[2] \in 0 .. f.blocks - 1 /\ ~(c[2] < offset)
    BY <1>1, <2>1
  <2>3. c \in Cells(extents)
    BY <1>1, <2>1, <2>2, CellIsPair DEF TypeOK
  <2> HIDE DEF Fresh, f
  <2>4. c \notin Taken
    BY <1>1, <2>1, <2>2 DEF Taken, f
  <2> QED BY <2>1, <2>3, <2>4
<1>7. ASSUME NEW c \in Fresh PROVE Boundary <= BlockPosition(c[1], c[2])
  <2>1. c[1] = f /\ c[2] \in offset .. offset + take - 1 /\ c \in Cells(extents) /\ c \notin Taken
    BY <1>6
  <2>2. BlockPosition(c[1], c[2]) \in Nat
    BY <2>1, CellFacts
  <2> HIDE DEF Fresh, f
  <2>3. ~(BlockPosition(c[1], c[2]) < Boundary)
    BY <1>1, <2>1, TakenIsBelow
  <2> QED BY <1>1, <2>2, <2>3
<1>8. ASSUME NEW c \in Cells(OfObject(extents, object)) PROVE c \in Taken' <=> c \in Taken \/ c \in Fresh
  <2>1. c \in Cells(extents) /\ c = <<c[1], c[2]>> /\ c[2] \in 0 .. c[1].blocks - 1
    BY ObjectCells, CellFacts
  <2>2. c \in Fresh <=> c[1] = f /\ c[2] \in offset .. offset + take - 1
    BY <2>1
  <2>3. c \in Taken <=> c[1] \notin list \/ (c[1] = f /\ c[2] < offset)
    BY DEF Taken
  <2>4. c \in Taken' <=> c[1] \notin list' \/ (c[1] = First(list') /\ c[2] < offset')
    BY <1>2 DEF Taken, Cells
  <2> HIDE DEF Fresh, f
  <2>5. CASE offset + take = First(list).blocks
    <3>1. list' = list \ {f} /\ offset' = 0
      BY <2>5 DEF f
    <3>2. c \in Taken' <=> c[1] \notin list \/ c[1] = f
      BY <2>1, <2>4, <3>1, <1>4
    <3>3. c[1] = f => c[2] < offset \/ c[2] \in offset .. offset + take - 1
      BY <1>1, <2>1, <2>5 DEF f
    <3> QED BY <2>2, <2>3, <3>2, <3>3
  <2>6. CASE offset + take # First(list).blocks
    <3>1. list' = list /\ offset' = offset + take
      BY <2>6
    <3>2. c[1] = f => (c[2] < offset' <=> c[2] < offset \/ c[2] \in offset .. offset + take - 1)
      BY <1>1, <2>1, <3>1
    <3> QED BY <2>2, <2>3, <2>4, <3>1, <3>2 DEF f
  <2> QED BY <2>5, <2>6
<1>9. \A c : (c \in Taken => c \in Cells(OfObject(extents, object))) /\ (c \in Taken' => c \in Cells(OfObject(extents, object)))
  BY <1>2 DEF Taken, Cells
<1>10. \A c \in Fresh : c \in Cells(OfObject(extents, object))
  BY <1>1, <1>6, ObjectCells
<1> HIDE DEF Fresh
<1>11. Taken' = Taken \cup Fresh /\ Taken \cap Fresh = {}
  BY <1>6, <1>8, <1>9, <1>10
<1> QED BY <1>5, <1>6, <1>7, <1>11

(* A unit more, and how many an object has then. *)
LEMMA OneMore ==
  ASSUME units \in Seq(Unit), NEW u, NEW made, made = Append(units, u), NEW o
  PROVE  /\ IsFiniteSet(UnitsOf(units, o))
         /\ Cardinality(UnitsOf(units, o)) \in Nat
         /\ Cardinality(UnitsOf(made, o)) = IF Within(u.lo, o) THEN Cardinality(UnitsOf(units, o)) + 1
                                            ELSE Cardinality(UnitsOf(units, o))
<1> DEFINE n == Len(units) + 1
<1>1. /\ DOMAIN made = 1 .. n /\ DOMAIN units = 1 .. Len(units) /\ Len(units) \in Nat
      /\ (\A i \in DOMAIN units : made[i] = units[i]) /\ made[n] = u
  BY DEF Unit
<1>2. UnitsOf(units, o) \in SUBSET (1 .. Len(units)) /\ IsFiniteSet(1 .. Len(units))
  BY <1>1, FS_Interval, 1 \in Int, Len(units) \in Int DEF UnitsOf
<1>3. IsFiniteSet(UnitsOf(units, o)) /\ Cardinality(UnitsOf(units, o)) \in Nat
  BY <1>2, FS_Subset, FS_CardinalityType
<1>4. n \notin UnitsOf(units, o)
  BY <1>1 DEF UnitsOf
<1>5. UnitsOf(made, o) = IF Within(u.lo, o) THEN UnitsOf(units, o) \cup {n} ELSE UnitsOf(units, o)
  <2>1. \A i : i \in DOMAIN made <=> i \in DOMAIN units \/ i = n
    BY <1>1
  <2> HIDE DEF n
  <2>2. \A i : i \in UnitsOf(made, o) <=> i \in UnitsOf(units, o) \/ (i = n /\ Within(u.lo, o))
    BY <1>1, <2>1 DEF UnitsOf
  <2> QED BY <2>2
<1> HIDE DEF n
<1> QED BY <1>3, <1>4, <1>5, FS_AddElement

(* What is taken is blocks of the table, a finite number; all of them when    *)
(* no extent is left, none when the object starts.                            *)
LEMMA TakenFacts ==
  ASSUME TypeOK
  PROVE  /\ IsFiniteSet(Taken) /\ Cardinality(Taken) \in Nat
         /\ \A c \in Taken : c \in Cells(extents) /\ c[1].data_object_id = object
         /\ \A c \in Cells(extents) : list = {} /\ c[1].data_object_id = object => c \in Taken
         /\ list = OfObject(extents, object) /\ offset = 0 => Taken = {}
<1>1. Taken \in SUBSET Cells(OfObject(extents, object))
  BY DEF Taken
<1>2. IsFiniteSet(Taken) /\ Cardinality(Taken) \in Nat
  BY <1>1, ObjectCells, FS_Subset, FS_CardinalityType
<1>3. \A c \in Taken : c \in Cells(extents) /\ c[1].data_object_id = object
  BY <1>1, ObjectCells
<1>4. \A c \in Cells(extents) : list = {} /\ c[1].data_object_id = object => c \in Taken
  BY ObjectCells DEF Taken
<1>5. ASSUME list = OfObject(extents, object), offset = 0, NEW c \in Taken PROVE FALSE
  <2>1. c \in Cells(extents) /\ c[1].data_object_id = object
    BY <1>3
  <2>2. c[1] \in extents /\ c[2] \in 0 .. c[1].blocks - 1
    BY <2>1, CellFacts
  <2>3. c[1] \in list /\ ~(c[2] < offset)
    BY <1>5, <2>1, <2>2 DEF OfObject
  <2> QED BY <2>3 DEF Taken
<1> QED BY <1>2, <1>3, <1>4, <1>5

(* The count of a unit is what is in its range. *)
LEMMA UnitHasItsBlocks ==
  ASSUME TypeOK, ArgumentInv, ListInv, RangeInv, object # -1, NEW u, u.lo = rowid_lo,
         \/ list # {} /\ u.hi = Boundary
         \/ list = {} /\ u.hi = Position(object + 1, 0, 0)
  PROVE  CellsIn(u) = {c \in Taken : rowid_lo <= BlockPosition(c[1], c[2])}
<1>0. object \in 0 .. MaxObject /\ Within(rowid_lo, object) /\ rowid_lo \in Nat
  BY DEF TypeOK, RangeInv
<1>1. Position(object, 0, 0) \in Nat /\ Position(object + 1, 0, 0) \in Nat
  BY <1>0, ObjectBounds
<1>2. u.hi \in Nat /\ u.hi <= Position(object + 1, 0, 0)
  <2>1. list # {} => Boundary \in Nat /\ Within(Boundary, object)
    BY WhereItIs
  <2> QED BY <1>1, <2>1 DEF Within
<1>3. ASSUME NEW c \in Cells(extents)
      PROVE  Holds(u, BlockPosition(c[1], c[2])) <=> c \in Taken /\ rowid_lo <= BlockPosition(c[1], c[2])
  <2> DEFINE x == BlockPosition(c[1], c[2])
  <2>1. x \in Nat /\ Within(x, c[1].data_object_id) /\ c[1].data_object_id \in Int
    BY CellFacts
  <2>2. Holds(u, x) <=> rowid_lo <= x /\ x < u.hi
    BY DEF Holds
  <2>3. c \in Taken => c[1].data_object_id = object
    BY TakenFacts
  <2>4. ASSUME rowid_lo <= x, x < u.hi PROVE c[1].data_object_id = object
    <3>1. Within(x, object)
      BY <1>0, <1>1, <1>2, <2>1, <2>4 DEF Within
    <3> HIDE DEF x
    <3> QED BY <1>0, <2>1, <3>1, OneObject
  <2>5. ASSUME c[1].data_object_id = object PROVE c \in Taken <=> x < u.hi
    <3>1. CASE list # {}
      BY <2>5, <3>1, TakenIsBelow
    <3>2. CASE list = {}
      <4>1. x < u.hi
        BY <2>1, <2>5, <3>2 DEF Within
      <4> QED BY <2>5, <3>2, <4>1, TakenFacts
    <3> QED BY <3>1, <3>2
  <2> QED BY <2>2, <2>3, <2>4, <2>5
<1>4. \A c \in Taken : c \in Cells(extents)
  BY TakenFacts
<1> QED BY <1>3, <1>4 DEF CellsIn

(* The size of a unit is the number of the blocks in its range. *)
LEMMA SizeStep == TypeOK /\ ArgumentInv /\ ListInv /\ RangeInv /\ SizeInv /\ [Next]_vars => SizeInv'
<1> SUFFICES ASSUME TypeOK, ArgumentInv, ListInv, RangeInv, SizeInv, [Next]_vars PROVE SizeInv'
  OBVIOUS
<1>0. UNCHANGED <<extents, target>> /\ TypeOK' /\ ListInv'
  BY ArgumentsStay, TypeStep, ListStep DEF arguments
<1>C. ASSUME \A i \in DOMAIN units' : units'[i].blocks \in 1 .. target /\ units'[i].blocks = Cardinality(CellsIn(units'[i])),
             object' # -1 => /\ blocks' = Cardinality({c \in Taken' : rowid_lo' <= BlockPosition(c[1], c[2])})
                             /\ blocks' = 0 => list' # {}
      PROVE  SizeInv'
  <2>1. (\A i \in DOMAIN units : units[i].blocks \in 1 .. target /\ units[i].blocks = Cardinality(CellsIn(units[i])))'
    BY <1>0, <1>C DEF CellsIn, Holds, BlockPosition, Position, Cells
  <2>2. (object # -1 => /\ blocks = Cardinality({c \in Taken : rowid_lo <= BlockPosition(c[1], c[2])})
                        /\ blocks = 0 => list # {})'
    BY <1>C DEF BlockPosition, Position
  <2> QED BY <2>1, <2>2 DEF SizeInv
<1>T. (TypeOK => /\ IsFiniteSet(Taken) /\ Cardinality(Taken) \in Nat
                 /\ \A c \in Taken : c \in Cells(extents) /\ c[1].data_object_id = object
                 /\ \A c \in Cells(extents) : list = {} /\ c[1].data_object_id = object => c \in Taken
                 /\ list = OfObject(extents, object) /\ offset = 0 => Taken = {})'
  BY TakenFacts, PTL
<1>U. ASSUME NEW u, u.blocks \in 1 .. target, u.blocks = Cardinality(CellsIn(u)), units' = Append(units, u)
      PROVE  \A i \in DOMAIN units' : units'[i].blocks \in 1 .. target /\ units'[i].blocks = Cardinality(CellsIn(units'[i]))
  <2>1. units \in Seq(Unit)
    BY DEF TypeOK
  <2>2. ASSUME NEW i \in DOMAIN units' PROVE units'[i] = u \/ (i \in DOMAIN units /\ units'[i] = units[i])
    <3>1. i \in 1 .. Len(units) + 1 /\ DOMAIN units = 1 .. Len(units) /\ Len(units) \in Nat
      BY <1>U, <2>1, <2>2
    <3>2. CASE i = Len(units) + 1
      BY <1>U, <2>1, <3>2
    <3>3. CASE i # Len(units) + 1
      BY <1>U, <2>1, <3>1, <3>3
    <3> QED BY <3>2, <3>3
  <2>3. \A i \in DOMAIN units : units[i].blocks \in 1 .. target /\ units[i].blocks = Cardinality(CellsIn(units[i]))
    BY DEF SizeInv
  <2> QED BY <1>U, <2>2, <2>3
<1>1. CASE StartObject
  <2>1. UNCHANGED units /\ blocks' = 0 /\ list' # {} /\ list' = OfObject(extents, object') /\ offset' = 0
    BY <1>1, StartFacts
  <2>2. Taken' = {}
    BY <1>0, <1>T, <2>1 DEF OfObject
  <2>3. blocks' = Cardinality({c \in Taken' : rowid_lo' <= BlockPosition(c[1], c[2])})
    BY <2>1, <2>2, FS_EmptySet
  <2>4. \A i \in DOMAIN units' : units'[i].blocks \in 1 .. target /\ units'[i].blocks = Cardinality(CellsIn(units'[i]))
    BY <2>1 DEF SizeInv
  <2> QED BY <1>C, <2>1, <2>3, <2>4
<1>2. CASE FillUnit
  <2> DEFINE InUnit == {c \in Taken : rowid_lo <= BlockPosition(c[1], c[2])}
             u == [lo |-> rowid_lo, hi |-> Boundary, blocks |-> blocks]
  <2>1. PICK take \in Nat \ {0} :
          /\ offset + take <= First(list).blocks
          /\ IF blocks >= target
               THEN /\ units' = Append(units, [lo |-> rowid_lo, hi |-> Boundary, blocks |-> blocks])
                    /\ rowid_lo' = Boundary /\ blocks' = take
               ELSE units' = units /\ rowid_lo' = rowid_lo /\ blocks' = blocks + take
          /\ blocks' \in 1 .. target
          /\ IF offset + take = First(list).blocks THEN list' = list \ {First(list)} /\ offset' = 0
             ELSE list' = list /\ offset' = offset + take
          /\ object # -1 /\ list # {} /\ UNCHANGED <<todo, object, slices>>
    BY <1>2, FillFacts
  <2>2. PICK Fresh :
          /\ Taken' = Taken \cup Fresh /\ Taken \cap Fresh = {}
          /\ IsFiniteSet(Fresh) /\ Cardinality(Fresh) = take
          /\ \A c \in Fresh : c \in Cells(extents) /\ Boundary <= BlockPosition(c[1], c[2])
    BY <1>2, <2>1, TakenGrows
  <2>3. rowid_lo <= Boundary /\ Boundary \in Nat /\ rowid_lo \in Nat /\ blocks = Cardinality(InUnit)
        /\ blocks \in 0 .. target /\ target \in Nat \ {0} /\ blocks' # 0
    BY <2>1, WhereItIs DEF RangeInv, TypeOK, SizeInv
  <2>4. \A c \in Cells(extents) : BlockPosition(c[1], c[2]) \in Nat
    BY CellFacts
  <2>6. IsFiniteSet(InUnit) /\ InUnit \cap Fresh = {}
    <3>1. InUnit \in SUBSET Taken /\ IsFiniteSet(Taken)
      BY TakenFacts
    <3> QED BY <2>2, <3>1, FS_Subset
  <2>7. CASE blocks >= target
    <3>1. units' = Append(units, u) /\ rowid_lo' = Boundary /\ blocks' = take /\ blocks = target
      BY <2>1, <2>3, <2>7
    <3>2. u.lo = rowid_lo /\ u.hi = Boundary /\ u.blocks = blocks
      OBVIOUS
    <3> HIDE DEF u
    <3>3. CellsIn(u) = InUnit
      BY <2>1, <3>2, UnitHasItsBlocks
    <3>4. u.blocks \in 1 .. target /\ u.blocks = Cardinality(CellsIn(u))
      BY <2>3, <3>1, <3>2, <3>3
    <3>5. \A i \in DOMAIN units' : units'[i].blocks \in 1 .. target /\ units'[i].blocks = Cardinality(CellsIn(units'[i]))
      BY <1>U, <3>1, <3>4
    <3>6. \A c \in Taken : BlockPosition(c[1], c[2]) \in Nat /\ BlockPosition(c[1], c[2]) < Boundary
      BY <2>1, <2>4, TakenFacts, TakenIsBelow
    <3>7. {c \in Taken' : rowid_lo' <= BlockPosition(c[1], c[2])} = Fresh
      BY <2>2, <2>3, <3>1, <3>6
    <3> QED BY <1>C, <2>2, <2>3, <3>1, <3>5, <3>7
  <2>8. CASE ~(blocks >= target)
    <3>1. UNCHANGED <<units, rowid_lo>> /\ blocks' = blocks + take
      BY <2>1, <2>8
    <3>2. \A i \in DOMAIN units' : units'[i].blocks \in 1 .. target /\ units'[i].blocks = Cardinality(CellsIn(units'[i]))
      BY <3>1 DEF SizeInv
    <3>3. \A c \in Fresh : rowid_lo <= BlockPosition(c[1], c[2])
      BY <2>2, <2>3, <2>4
    <3>4. {c \in Taken' : rowid_lo' <= BlockPosition(c[1], c[2])} = InUnit \cup Fresh
      BY <2>2, <3>1, <3>3
    <3> HIDE DEF InUnit, u
    <3>5. Cardinality(InUnit \cup Fresh) = blocks + take
      <4>1. Cardinality(InUnit \cup Fresh) = Cardinality(InUnit) + Cardinality(Fresh) - Cardinality(InUnit \cap Fresh)
        BY <2>2, <2>6, FS_Union
      <4>2. Cardinality(InUnit \cap Fresh) = 0
        BY <2>6, FS_EmptySet
      <4> QED BY <2>2, <2>3, <4>1, <4>2
    <3> QED BY <1>C, <2>3, <3>1, <3>2, <3>4, <3>5
  <2> QED BY <2>7, <2>8
<1>3. CASE CloseObject
  <2> DEFINE u == [lo |-> rowid_lo, hi |-> LastRowid(object), blocks |-> blocks]
  <2>0. object \in 0 .. MaxObject /\ object # -1 /\ list = {} /\ object' = -1 /\ units' = Append(units, u)
    BY <1>3 DEF CloseObject, TypeOK
  <2>1. u.lo = rowid_lo /\ u.hi = Position(object + 1, 0, 0) /\ u.blocks = blocks
    BY <2>0, ObjectBounds
  <2> HIDE DEF u
  <2>2. CellsIn(u) = {c \in Taken : rowid_lo <= BlockPosition(c[1], c[2])}
    BY <2>0, <2>1, UnitHasItsBlocks
  <2>3. blocks = Cardinality(CellsIn(u)) /\ blocks # 0 /\ blocks \in 0 .. target /\ target \in Nat
    BY <2>0, <2>2 DEF SizeInv, TypeOK
  <2>4. \A i \in DOMAIN units' : units'[i].blocks \in 1 .. target /\ units'[i].blocks = Cardinality(CellsIn(units'[i]))
    BY <1>U, <2>0, <2>1, <2>3
  <2> QED BY <1>C, <2>0, <2>4
<1>4. CASE SortUnits \/ UNCHANGED vars
  <2>1. UNCHANGED <<object, rowid_lo, blocks, list, offset, units>>
    BY <1>4 DEF SortUnits, vars
  <2>2. Taken' = Taken
    BY <1>0, <2>1 DEF Taken, Cells, OfObject
  <2> QED BY <1>C, <2>1, <2>2 DEF SizeInv
<1> QED BY <1>1, <1>2, <1>3, <1>4 DEF Next

(* No object has more than four units per session. *)
LEMMA BalanceStep ==
  TypeOK /\ ArgumentInv /\ ListInv /\ RangeInv /\ SizeInv /\ BalanceInv /\ [Next]_vars => BalanceInv'
<1> SUFFICES ASSUME TypeOK, ArgumentInv, ListInv, RangeInv, SizeInv, BalanceInv, [Next]_vars PROVE BalanceInv'
  OBVIOUS
<1>0. UNCHANGED <<extents, sessions, target>> /\ TypeOK' /\ units \in Seq(Unit)
  BY ArgumentsStay, TypeStep DEF arguments, TypeOK
<1>T. (TypeOK => /\ IsFiniteSet(Taken) /\ Cardinality(Taken) \in Nat
                 /\ \A c \in Taken : c \in Cells(extents) /\ c[1].data_object_id = object
                 /\ \A c \in Cells(extents) : list = {} /\ c[1].data_object_id = object => c \in Taken
                 /\ list = OfObject(extents, object) /\ offset = 0 => Taken = {})'
  BY TakenFacts, PTL
<1>S. ASSUME NEW o \in Finished PROVE Cardinality(UnitsOf(units, o)) <= 4 * sessions /\ o \in Int /\ o # object
  BY RangesAssumption, Sizes DEF BalanceInv, Finished, ObjectsOf, SegmentExtent, TypeOK
<1>K. \A o : Cardinality(UnitsOf(units, o)) \in Nat
  BY <1>0, OneMore
<1>C. ASSUME \A o \in Finished' : Cardinality(UnitsOf(units', o)) <= 4 * sessions,
             object' # -1 => Cardinality(UnitsOf(units', object')) * target + blocks' = Cardinality(Taken')
      PROVE  BalanceInv'
  <2>1. (\A o \in Finished : Cardinality(UnitsOf(units, o)) <= 4 * sessions)'
    BY <1>0, <1>C DEF UnitsOf, Within, Position
  <2>2. (object # -1 => Cardinality(UnitsOf(units, object)) * target + blocks = Cardinality(Taken))'
    BY <1>0, <1>C DEF UnitsOf, Within, Position
  <2> QED BY <2>1, <2>2 DEF BalanceInv
<1>E. \A e \in extents : e.data_object_id # -1
  BY RangesAssumption, Sizes DEF TypeOK, SegmentExtent
<1>1. CASE StartObject
  <2>1. /\ UNCHANGED units /\ blocks' = 0 /\ list' = OfObject(extents, object') /\ offset' = 0 /\ object = -1
        /\ ObjectsOf(extents \ todo') = ObjectsOf(extents \ todo) \cup {object'} /\ object' \notin ObjectsOf(extents \ todo)
        /\ object' \in 0 .. MaxObject
    BY <1>1, StartFacts
  <2>2. Finished' = Finished
    BY <1>0, <1>E, <2>1 DEF Finished, ObjectsOf
  <2>3. Taken' = {}
    BY <1>0, <1>T, <2>1 DEF OfObject
  <2>4. UnitsOf(units, object') = {}
    <3>1. ASSUME NEW i \in DOMAIN units, Within(units[i].lo, object') PROVE FALSE
      <4>1. PICK o \in ObjectsOf(extents \ todo) : Within(units[i].lo, o)
        BY DEF RangeInv
      <4>2. o \in Int
        BY Sizes, RangesAssumption DEF ObjectsOf, SegmentExtent, TypeOK
      <4>3. units[i] \in Unit
        BY <1>0, <3>1
      <4>4. units[i].lo \in Int /\ object' \in Int
        BY <2>1, <4>3, Sizes DEF Unit
      <4>5. o = object'
        BY <3>1, <4>1, <4>2, <4>4, OneObject
      <4> QED BY <2>1, <4>5
    <3> QED BY <3>1 DEF UnitsOf
  <2>5. Cardinality(UnitsOf(units', object')) * target + blocks' = Cardinality(Taken')
    <3>1. Cardinality(UnitsOf(units', object')) = 0 /\ Cardinality(Taken') = 0 /\ blocks' = 0 /\ target \in Nat
      BY <2>1, <2>3, <2>4, FS_EmptySet DEF TypeOK
    <3> QED BY <3>1
  <2>6. \A o \in Finished' : Cardinality(UnitsOf(units', o)) <= 4 * sessions
    BY <1>S, <2>1, <2>2
  <2> QED BY <1>C, <2>5, <2>6
<1>2. CASE FillUnit
  <2> DEFINE u == [lo |-> rowid_lo, hi |-> Boundary, blocks |-> blocks]
             k == Cardinality(UnitsOf(units, object))
  <2>1. PICK take \in Nat \ {0} :
          /\ offset + take <= First(list).blocks
          /\ IF blocks >= target
               THEN /\ units' = Append(units, [lo |-> rowid_lo, hi |-> Boundary, blocks |-> blocks])
                    /\ rowid_lo' = Boundary /\ blocks' = take
               ELSE units' = units /\ rowid_lo' = rowid_lo /\ blocks' = blocks + take
          /\ blocks' \in 1 .. target
          /\ IF offset + take = First(list).blocks THEN list' = list \ {First(list)} /\ offset' = 0
             ELSE list' = list /\ offset' = offset + take
          /\ object # -1 /\ list # {} /\ UNCHANGED <<todo, object, slices>>
    BY <1>2, FillFacts
  <2>2. Cardinality(Taken') = Cardinality(Taken) + take
    <3>1. PICK Fresh :
            /\ Taken' = Taken \cup Fresh /\ Taken \cap Fresh = {}
            /\ IsFiniteSet(Fresh) /\ Cardinality(Fresh) = take
            /\ \A c \in Fresh : c \in Cells(extents) /\ Boundary <= BlockPosition(c[1], c[2])
      BY <1>2, <2>1, TakenGrows
    <3>2. IsFiniteSet(Taken) /\ Cardinality(Taken) \in Nat
      BY TakenFacts
    <3>3. Cardinality(Taken') = Cardinality(Taken) + Cardinality(Fresh) - Cardinality(Taken \cap Fresh)
      BY <3>1, <3>2, FS_Union
    <3>4. Cardinality(Taken \cap Fresh) = 0
      BY <3>1, FS_EmptySet
    <3> QED BY <3>1, <3>2, <3>3, <3>4
  <2>3. /\ k * target + blocks = Cardinality(Taken) /\ k \in Nat /\ target \in Nat /\ blocks \in 0 .. target
        /\ object \in Int /\ rowid_lo \in Int /\ Within(rowid_lo, object) /\ Finished' = Finished
    BY <1>0, <1>K, <2>1, Sizes DEF BalanceInv, RangeInv, TypeOK, Finished, ObjectsOf
  <2>4. CASE blocks >= target
    <3>1. units' = Append(units, u) /\ blocks' = take /\ blocks = target /\ u.lo = rowid_lo
      BY <2>1, <2>3, <2>4
    <3> HIDE DEF u
    <3>2. Cardinality(UnitsOf(units', object)) = k + 1
      BY <1>0, <2>3, <3>1, OneMore
    <3>3. \A o \in Finished : ~Within(rowid_lo, o)
      BY <1>S, <2>3, OneObject
    <3>4. \A o \in Finished : Cardinality(UnitsOf(units', o)) = Cardinality(UnitsOf(units, o))
      BY <1>0, <3>1, <3>3, OneMore
    <3>5. Cardinality(UnitsOf(units', object')) * target + blocks' = Cardinality(Taken')
      <4> HIDE DEF k
      <4>1. (k + 1) * target = k * target + target /\ k * target \in Int
        BY <2>3
      <4> QED BY <2>1, <2>2, <2>3, <3>1, <3>2, <4>1
    <3>6. \A o \in Finished' : Cardinality(UnitsOf(units', o)) <= 4 * sessions
      BY <1>S, <2>3, <3>4
    <3> QED BY <1>C, <3>5, <3>6
  <2>5. CASE ~(blocks >= target)
    <3>1. units' = units /\ blocks' = blocks + take /\ object' = object
      BY <2>1, <2>5
    <3>2. Cardinality(UnitsOf(units', object')) * target + blocks' = Cardinality(Taken')
      <4> HIDE DEF k
      <4>1. k * target \in Int
        BY <2>3
      <4> QED BY <2>2, <2>3, <3>1, <4>1 DEF k
    <3> QED BY <1>C, <1>S, <2>3, <3>1, <3>2
  <2> QED BY <2>4, <2>5
<1>3. CASE CloseObject
  <2> DEFINE u == [lo |-> rowid_lo, hi |-> LastRowid(object), blocks |-> blocks]
             k == Cardinality(UnitsOf(units, object))
  <2>0. object \in 0 .. MaxObject /\ object # -1 /\ list = {} /\ object' = -1 /\ units' = Append(units, u) /\ UNCHANGED todo
        /\ u.lo = rowid_lo
    BY <1>3 DEF CloseObject, TypeOK
  <2> HIDE DEF u
  <2>1. /\ k * target + blocks = Cardinality(Taken) /\ k \in Nat /\ target \in Nat \ {0} /\ blocks \in 0 .. target
        /\ object \in Int /\ rowid_lo \in Int /\ Within(rowid_lo, object) /\ blocks # 0 /\ sessions \in Nat
    BY <1>0, <1>K, <2>0, Sizes DEF BalanceInv, RangeInv, SizeInv, TypeOK
  <2>2. Cardinality(Taken) <= 4 * sessions * target
    <3>1. object \in ObjectsOf(extents)
      BY <2>0 DEF ListInv, ObjectsOf
    <3>2. Taken \in SUBSET Cells(OfObject(extents, object)) /\ IsFiniteSet(Cells(OfObject(extents, object)))
      BY ObjectCells DEF Taken
    <3>3. Cardinality(Taken) <= SumBlocks(OfObject(extents, object))
      BY <3>2, FS_Subset DEF SumBlocks
    <3>4. SumBlocks(OfObject(extents, object)) <= 4 * sessions * target
      BY <3>1 DEF ArgumentInv
    <3>5. SumBlocks(OfObject(extents, object)) \in Nat /\ Cardinality(Taken) \in Nat
      BY <3>2, TakenFacts, FS_CardinalityType DEF SumBlocks
    <3>6. 4 * sessions * target \in Nat
      BY <2>1
    <3> QED BY <3>3, <3>4, <3>5, <3>6
  <2>3. k + 1 <= 4 * sessions
    <3> HIDE DEF k
    <3> DEFINE m == 4 * sessions
    <3>1. m \in Nat /\ k * target + blocks <= m * target
      BY <2>1, <2>2
    <3> HIDE DEF m
    <3>2. SUFFICES ASSUME m <= k PROVE FALSE
      BY <2>1, <3>1 DEF m
    <3>3. k * target = m * target + (k - m) * target /\ (k - m) * target >= 0 /\ m * target \in Int /\ (k - m) * target \in Int
      BY <2>1, <3>1, <3>2
    <3> QED BY <2>1, <3>1, <3>3
  <2>4. Cardinality(UnitsOf(units', object)) = k + 1
    BY <1>0, <2>0, <2>1, OneMore
  <2>5. \A o \in Finished : ~Within(rowid_lo, o)
    BY <1>S, <2>1, OneObject
  <2>6. \A o \in Finished : Cardinality(UnitsOf(units', o)) = Cardinality(UnitsOf(units, o))
    BY <1>0, <2>0, <2>5, OneMore
  <2>7. \A o \in Finished' : o \in Finished \/ o = object
    BY <1>0, <2>0 DEF Finished, ObjectsOf
  <2> HIDE DEF k
  <2>8. \A o \in Finished' : Cardinality(UnitsOf(units', o)) <= 4 * sessions
    BY <1>S, <2>3, <2>4, <2>6, <2>7
  <2> QED BY <1>C, <2>0, <2>8
<1>4. CASE SortUnits \/ UNCHANGED vars
  <2>1. UNCHANGED <<object, todo, blocks, list, offset, units>>
    BY <1>4 DEF SortUnits, vars
  <2>2. Taken' = Taken /\ Finished' = Finished
    BY <1>0, <2>1 DEF Taken, Cells, OfObject, Finished, ObjectsOf
  <2> QED BY <1>0, <1>C, <1>S, <2>1, <2>2 DEF BalanceInv
<1> QED BY <1>1, <1>2, <1>3, <1>4 DEF Next

(* The result is the units, sorted. *)
LEMMA SliceStep == TypeOK /\ SliceInv /\ [Next]_vars => SliceInv'
<1> SUFFICES ASSUME TypeOK, SliceInv, [Next]_vars PROVE SliceInv'
  OBVIOUS
<1>1. CASE StartObject
  BY <1>1 DEF StartObject, SliceInv, Done
<1>2. CASE FillUnit
  BY <1>2 DEF FillUnit, SliceInv, Done
<1>3. CASE CloseObject
  BY <1>3 DEF CloseObject, SliceInv, Done
<1>4. CASE SortUnits
  BY <1>4 DEF SortUnits, SliceInv, Sorted, Rank
<1>5. CASE UNCHANGED vars
  <2>1. UNCHANGED <<slices, todo, object, units>>
    BY <1>5 DEF vars
  <2>2. Sorted' = Sorted
    BY <2>1 DEF Sorted, Rank
  <2> QED BY <2>1, <2>2 DEF SliceInv, Done
<1> QED BY <1>1, <1>2, <1>3, <1>4, <1>5 DEF Next

-----------------------------------------------------------------------------
(* Rank numbers the units from the largest to the smallest, each once.        *)
LEMMA RankNumbersTheUnits ==
  ASSUME units \in Seq(Unit)
  PROVE  /\ \A i \in DOMAIN units : Rank(i) \in DOMAIN units
         /\ \A i, k \in DOMAIN units : units[i].blocks > units[k].blocks => Rank(i) < Rank(k)
         /\ \A i, k \in DOMAIN units : Rank(i) = Rank(k) => i = k
         /\ \A n \in DOMAIN units : \E i \in DOMAIN units : Rank(i) = n
<1> DEFINE D == DOMAIN units
           Upto(i) == {j \in D : units[j].blocks > units[i].blocks \/ (units[j].blocks = units[i].blocks /\ j <= i)}
           r == [i \in D |-> Rank(i)]
<1>0. \A i \in D : units[i] \in Unit
  OBVIOUS
<1>1. D = 1 .. Len(units) /\ Len(units) \in Nat /\ \A i \in D : units[i].blocks \in Nat /\ i \in Nat
  BY <1>0 DEF Unit
<1>2. IsFiniteSet(D) /\ Cardinality(D) = Len(units)
  BY <1>1, FS_Interval, 1 \in Int, Len(units) \in Int
<1>3. \A i : Rank(i) = Cardinality(Upto(i))
  BY DEF Rank
<1> HIDE DEF D
<1>4. ASSUME NEW i \in D PROVE Rank(i) \in D /\ IsFiniteSet(Upto(i)) /\ Rank(i) \in Nat /\ i \in Upto(i)
  <2>1. Upto(i) \in SUBSET D /\ i \in Upto(i)
    BY <1>1
  <2> HIDE DEF Upto
  <2>2. IsFiniteSet(Upto(i)) /\ Cardinality(Upto(i)) <= Len(units) /\ Cardinality(Upto(i)) \in Nat
    BY <1>2, <2>1, FS_Subset, FS_CardinalityType
  <2>3. Cardinality(Upto(i)) # 0
    BY <2>1, <2>2, FS_EmptySet
  <2> QED BY <1>1, <1>3, <2>1, <2>2, <2>3
<1>5. ASSUME NEW i \in D, NEW k \in D, units[i].blocks > units[k].blocks \/ (units[i].blocks = units[k].blocks /\ i < k)
      PROVE Rank(i) < Rank(k)
  <2>0. Upto(i) \in SUBSET Upto(k) /\ k \notin Upto(i)
    BY <1>1, <1>5
  <2>1. Upto(i) \in SUBSET Upto(k) /\ k \notin Upto(i) /\ k \in Upto(k) /\ IsFiniteSet(Upto(k))
        /\ Rank(i) \in Nat /\ Rank(k) \in Nat
    BY <1>4, <2>0
  <2> HIDE DEF Upto
  <2>2. Rank(i) <= Rank(k) /\ (Rank(i) = Rank(k) => Upto(k) = Upto(i))
    BY <1>3, <2>1, FS_Subset
  <2> QED BY <2>1, <2>2
<1>6. ASSUME NEW i \in D, NEW k \in D, i # k PROVE Rank(i) # Rank(k)
  <2>1. \/ units[i].blocks > units[k].blocks \/ units[k].blocks > units[i].blocks
        \/ units[i].blocks = units[k].blocks /\ (i < k \/ k < i)
    BY <1>1, <1>6
  <2>2. Rank(i) < Rank(k) \/ Rank(k) < Rank(i)
    BY <1>5, <2>1
  <2>3. Rank(i) \in Nat /\ Rank(k) \in Nat
    BY <1>4
  <2> QED BY <2>2, <2>3
<1>7. r \in Injection(D, D)
  BY <1>4, <1>6 DEF Injection, IsInjective
<1>8. r \in Surjection(D, D)
  BY <1>2, <1>7, FS_Injection
<1>9. \A n \in D : \E i \in D : Rank(i) = n
  BY <1>8 DEF Surjection
<1> QED BY <1>4, <1>5, <1>6, <1>9 DEF D

(* The slices are the units in another order, the largest first. *)
LEMMA SortedIsAnOrder ==
  ASSUME units \in Seq(Unit)
  PROVE  /\ DOMAIN Sorted = DOMAIN units
         /\ \A n, m \in DOMAIN units : n < m => Sorted[n].blocks >= Sorted[m].blocks
         /\ \E p \in [DOMAIN units -> DOMAIN units] :
              /\ \A n \in DOMAIN units : Sorted[n] = units[p[n]]
              /\ \A n, m \in DOMAIN units : p[n] = p[m] => n = m
              /\ \A i \in DOMAIN units : \E n \in DOMAIN units : p[n] = i
<1> DEFINE D == DOMAIN units
           p == [n \in D |-> CHOOSE i \in D : Rank(i) = n]
<1>1. \A n \in D : p[n] \in D /\ Rank(p[n]) = n
  BY RankNumbersTheUnits
<1>2. DOMAIN Sorted = D /\ \A n \in D : Sorted[n] = units[p[n]]
  BY DEF Sorted
<1>3. p \in [D -> D]
  BY <1>1
<1>4. D \subseteq Nat /\ \A i \in D : units[i].blocks \in Nat
  <2>1. \A i \in D : units[i] \in Unit
    OBVIOUS
  <2> QED BY <2>1 DEF Unit
<1> HIDE DEF p, D
<1>5. \A i, k \in D : units[i].blocks > units[k].blocks => Rank(i) < Rank(k)
  BY RankNumbersTheUnits DEF D
<1>6. ASSUME NEW n \in D, NEW m \in D, n < m PROVE Sorted[n].blocks >= Sorted[m].blocks
  <2>1. ~(units[p[m]].blocks > units[p[n]].blocks)
    <3>1. p[n] \in D /\ p[m] \in D /\ Rank(p[n]) = n /\ Rank(p[m]) = m /\ n \in Nat /\ m \in Nat
      BY <1>1, <1>4
    <3>2. ~(m < n)
      BY <1>6, <3>1
    <3> QED BY <1>5, <3>1, <3>2
  <2> QED BY <1>1, <1>2, <1>4, <2>1
<1>7. \A n, m \in D : p[n] = p[m] => n = m
  BY <1>1
<1>8. ASSUME NEW i \in D PROVE \E n \in D : p[n] = i
  <2>1. Rank(i) \in D /\ \A k \in D : Rank(i) = Rank(k) => i = k
    BY RankNumbersTheUnits DEF D
  <2>2. p[Rank(i)] = i
    BY <1>1, <2>1
  <2> QED BY <2>1, <2>2
<1> QED BY <1>2, <1>3, <1>6, <1>7, <1>8 DEF D

-----------------------------------------------------------------------------
(* The invariant holds at the start... *)
LEMMA InitIInv == Init => IInv
<1> SUFFICES ASSUME Init PROVE IInv
  OBVIOUS
<1>1. PICK f \in [1 .. MaxExtents -> Extents] : extents = {f[i] : i \in 1 .. MaxExtents}
  BY DEF Init
<1>2. extents \subseteq Extents /\ extents # {} /\ f[1] \in extents
  <2>1. 1 \in 1 .. MaxExtents
    BY Sizes
  <2> QED BY <1>1, <2>1
<1>3. IsFiniteSet(extents)
  <2>1. f \in Surjection(1 .. MaxExtents, extents)
    BY <1>1 DEF Surjection
  <2>2. IsFiniteSet(1 .. MaxExtents)
    BY Sizes, FS_Interval, 1 \in Int, MaxExtents \in Int
  <2> QED BY <2>1, <2>2, FS_Surjection
<1>4. /\ \A a, b \in extents : a # b /\ SameObject(a, b) => Blocks(a) \cap Blocks(b) = {}
      /\ \A a, b \in extents : a.relative_fno = BigFile /\ SameObject(a, b) => b.relative_fno = BigFile
      /\ sessions \in 1 .. MaxSessions /\ target = TargetBlocks
      /\ todo = extents /\ list = {} /\ object = -1 /\ offset = 0
      /\ rowid_lo = 0 /\ blocks = 0 /\ units = <<>> /\ slices = <<>>
  BY DEF Init
<1>5. sessions \in Nat \ {0}
  BY <1>4, Sizes
<1>6. target \in Nat \ {0} /\ \A o \in ObjectsOf(extents) : SumBlocks(OfObject(extents, o)) <= 4 * sessions * target
  BY <1>2, <1>3, <1>4, <1>5, TargetIsEnough
<1>7. TypeOK
  <2>1. object \in -1 .. MaxObject /\ blocks \in 0 .. target /\ units \in Seq(Unit)
    BY <1>4, <1>6, Sizes
  <2> QED BY <1>2, <1>3, <1>4, <1>6, <2>1 DEF TypeOK
<1>8. ArgumentInv
  BY <1>4, <1>6 DEF ArgumentInv
<1>9. ListInv
  <2>1. OfObject(extents, -1) = {}
    <3>1. \A e \in extents : e.data_object_id \in 0 .. MaxObject
      BY <1>2, RangesAssumption DEF SegmentExtent
    <3>2. -1 \notin 0 .. MaxObject
      BY Sizes
    <3> QED BY <3>1, <3>2 DEF OfObject
  <2> QED BY <1>4, <2>1 DEF ListInv
<1>10. Finished = {} /\ DOMAIN units = {}
  BY <1>4 DEF Finished, ObjectsOf
<1>11. RangeInv /\ SizeInv /\ BalanceInv
  BY <1>4, <1>10 DEF RangeInv, SizeInv, BalanceInv
<1>12. SliceInv
  BY <1>4 DEF SliceInv, Done
<1> QED BY <1>7, <1>8, <1>9, <1>11, <1>12 DEF IInv

(* The arguments, the order of the filling, the ranges, the counts and the    *)
(* result stay consistent through every iteration of BuildRowidSlices.        *)
THEOREM RangesInvariant == Spec => []IInv
<1>1. Init => IInv
  BY InitIInv
<1>2. IInv /\ [Next]_vars => IInv'
  BY TypeStep, ArgumentStep, ListStep, RangeStep, SizeStep, BalanceStep, SliceStep DEF IInv
<1> QED BY <1>1, <1>2, PTL DEF Spec

(* The variables of BuildRowidSlices have their types. *)
THEOREM RangesTypeCorrect == Spec => []TypeOK
<1>1. IInv => TypeOK
  BY DEF IInv
<1> QED BY <1>1, RangesInvariant, PTL

(* Every ROWID of the table's objects is in exactly one range, also one of a  *)
(* block no extent had, and a ROWID of another object is in none.             *)
THEOREM EachRowidOnce == Spec => []RowidsOnce
<1>1. IInv => RowidsOnce
  <2> SUFFICES ASSUME IInv, Done, NEW o \in 0 .. MaxObject, NEW f \in 0 .. MaxFile, NEW b \in 0 .. BlockSpace - 1
               PROVE  Cardinality(Holding(Position(o, f, b))) = IF o \in ObjectsOf(extents) THEN 1 ELSE 0
    BY DEF RowidsOnce
  <2> DEFINE x == Position(o, f, b)
             D == DOMAIN units
  <2>1. slices = Sorted /\ todo = {} /\ object = -1 /\ units \in Seq(Unit)
    BY DEF IInv, SliceInv, TypeOK
  <2>2. PICK p \in [D -> D] :
          /\ \A n \in D : Sorted[n] = units[p[n]]
          /\ \A n, m \in D : p[n] = p[m] => n = m
          /\ \A i \in D : \E n \in D : p[n] = i
    BY <2>1, SortedIsAnOrder
  <2>3. DOMAIN slices = D
    BY <2>1, SortedIsAnOrder
  <2>4. x \in Nat /\ Within(x, o) /\ x \in Rowids
    <3>1. o \in Int /\ f \in Int /\ b \in Int /\ f \in Nat /\ b \in Nat /\ f < MaxFile + 1 /\ b < BlockSpace /\ MaxFile + 1 \in Int
      BY Sizes
    <3>2. f * BlockSpace + b < (MaxFile + 1) * BlockSpace + 0
      BY <3>1, FilesInOrder, 0 \in Nat
    <3>3. x = Position(o, 0, 0) + (f * BlockSpace + b) /\ Position(o + 1, 0, 0) = Position(o, 0, 0) + PerObject
      BY <3>1, PositionSplits
    <3>4. /\ Position(o, 0, 0) \in Nat /\ Position(o + 1, 0, 0) \in Nat
          /\ Position(o + 1, 0, 0) <= Position(MaxObject + 1, 0, 0)
      BY ObjectBounds
    <3>5. f * BlockSpace \in Nat /\ PerObject = (MaxFile + 1) * BlockSpace /\ PerObject \in Nat
      BY <3>1, Sizes DEF PerObject
    <3>6. Position(MaxObject + 1, 0, 0) \in Nat
      BY Sizes, ObjectBounds, MaxObject \in 0 .. MaxObject
    <3> HIDE DEF x
    <3>7. x \in Nat /\ Position(o, 0, 0) <= x /\ x < Position(o + 1, 0, 0)
      BY <3>1, <3>2, <3>3, <3>4, <3>5
    <3> QED BY <3>4, <3>6, <3>7 DEF Within, Rowids
  <2>5. Finished = ObjectsOf(extents) /\ \A q \in ObjectsOf(extents) : q \in Int
    <3>1. \A e \in extents : e.data_object_id \in Nat
      BY RangesAssumption, Sizes DEF IInv, TypeOK, SegmentExtent
    <3> QED BY <2>1, <3>1 DEF Finished, ObjectsOf
  <2> HIDE DEF x
  <2>6. (\E i \in D : Holds(units[i], x)) <=> o \in ObjectsOf(extents)
    <3>1. (\E i \in D : Holds(units[i], x)) <=> \E q \in Finished : Within(x, q)
      BY <2>1, <2>4 DEF IInv, RangeInv
    <3>2. \A q \in Finished : Within(x, q) => q = o
      BY <2>4, <2>5, OneObject
    <3> QED BY <2>4, <2>5, <3>1, <3>2
  <2>7. \A n \in D : n \in Holding(x) <=> Holds(units[p[n]], x)
    BY <2>1, <2>2, <2>3 DEF Holding
  <2>8. \A i, j \in D : Holds(units[i], x) /\ Holds(units[j], x) => i = j
    BY <2>4 DEF IInv, RangeInv
  <2>9. Holding(x) \in SUBSET D
    BY <2>3 DEF Holding
  <2> HIDE DEF D
  <2>10. CASE o \in ObjectsOf(extents)
    <3>1. PICK i \in D : Holds(units[i], x)
      BY <2>6, <2>10
    <3>2. PICK n \in D : p[n] = i
      BY <2>2
    <3>3. Holding(x) = {n}
      BY <2>2, <2>7, <2>8, <2>9, <3>1, <3>2
    <3> QED BY <2>10, <3>3, FS_Singleton DEF x
  <2>11. CASE o \notin ObjectsOf(extents)
    <3>1. Holding(x) = {}
      BY <2>2, <2>6, <2>7, <2>9, <2>11
    <3> QED BY <2>11, <3>1, FS_EmptySet DEF x
  <2> QED BY <2>10, <2>11
<1> QED BY <1>1, RangesInvariant, PTL

(* The size of a range is the number of the extents' blocks in it. *)
THEOREM SizesTrue == Spec => []SizesAreTrue
<1>1. IInv => SizesAreTrue
  <2> SUFFICES ASSUME IInv, Done, NEW n \in DOMAIN slices PROVE slices[n].blocks = Cardinality(CellsIn(slices[n]))
    BY DEF SizesAreTrue
  <2>1. slices = Sorted /\ units \in Seq(Unit)
    BY DEF IInv, SliceInv, TypeOK
  <2>2. DOMAIN slices = DOMAIN units /\ \E i \in DOMAIN units : slices[n] = units[i]
    BY <2>1, SortedIsAnOrder
  <2> QED BY <2>2 DEF IInv, SizeInv
<1> QED BY <1>1, RangesInvariant, PTL

(* The ranges are sorted by size, none is empty or larger than the target,    *)
(* and no object has more than four per session.                              *)
THEOREM UnitsBalanced == Spec => []UnitsAreBalanced
<1>1. IInv => UnitsAreBalanced
  <2> SUFFICES ASSUME IInv, Done
               PROVE  /\ \A i, j \in DOMAIN slices : i < j => slices[i].blocks >= slices[j].blocks
                      /\ \A i \in DOMAIN slices : slices[i].blocks \in 1 .. target
                      /\ \A o \in ObjectsOf(extents) : Cardinality(UnitsOf(slices, o)) <= 4 * sessions
    BY DEF UnitsAreBalanced
  <2> DEFINE D == DOMAIN units
  <2>1. slices = Sorted /\ todo = {} /\ object = -1 /\ units \in Seq(Unit)
    BY DEF IInv, SliceInv, TypeOK
  <2>2. DOMAIN slices = D /\ \A n, m \in D : n < m => slices[n].blocks >= slices[m].blocks
    BY <2>1, SortedIsAnOrder
  <2>3. PICK p \in [D -> D] :
          /\ \A n \in D : slices[n] = units[p[n]]
          /\ \A n, m \in D : p[n] = p[m] => n = m
    BY <2>1, SortedIsAnOrder
  <2>4. \A i \in D : units[i].blocks \in 1 .. target
    BY DEF IInv, SizeInv
  <2>5. ASSUME NEW o \in ObjectsOf(extents) PROVE Cardinality(UnitsOf(slices, o)) <= 4 * sessions
    <3> DEFINE S == UnitsOf(slices, o)
               T == UnitsOf(units, o)
               q == [n \in S |-> p[n]]
    <3>1. q \in Injection(S, T)
      BY <2>2, <2>3 DEF Injection, IsInjective, UnitsOf
    <3>2. IsFiniteSet(T) /\ Cardinality(T) \in Nat
      BY <2>1, OneMore
    <3> HIDE DEF q, S, T
    <3>3. Cardinality(S) <= Cardinality(T) /\ IsFiniteSet(S)
      BY <3>1, <3>2, FS_Injection
    <3>4. o \in Finished
      <4>1. o # -1
        BY RangesAssumption, Sizes DEF IInv, TypeOK, SegmentExtent, ObjectsOf
      <4> QED BY <2>1, <4>1 DEF Finished, ObjectsOf
    <3>5. Cardinality(T) <= 4 * sessions
      BY <3>4 DEF IInv, BalanceInv, T
    <3>6. 4 * sessions \in Int /\ Cardinality(S) \in Nat
      BY <3>3, FS_CardinalityType, Sizes DEF IInv, TypeOK
    <3> QED BY <3>2, <3>3, <3>5, <3>6 DEF S
  <2> HIDE DEF D
  <2> QED BY <2>2, <2>3, <2>4, <2>5
<1> QED BY <1>1, RangesInvariant, PTL
=============================================================================
