------------------------------ MODULE RowidRanges ------------------------------
(***************************************************************************)
(* BuildRowidSlices: the extents of a table's segments are cut into ROWID   *)
(* ranges of about TargetBlocks blocks each, one iteration of its inner     *)
(* loop per step.                                                           *)
(*                                                                         *)
(* A range is a set of blocks: ROWIDs are compared as Oracle compares them, *)
(* by data object, file and block, so a bound is the number those three     *)
(* make.  The row number in a bound is always 0 (or the last row of the     *)
(* last block there is) and never splits a block.                           *)
(***************************************************************************)
EXTENDS Integers, FiniteSets, Sequences

CONSTANTS
  MaxObject,       \* 0xFFFFFFFF in the code
  MaxFile,         \* 1023
  BlockSpace,      \* 2^22: blocks of a file
  BigFile,         \* 1024: relative file number in a bigfile tablespace
  kMinUnitBlocks,  \* 1024
  Extents,         \* extents to choose from
  MaxExtents,      \* bound: extents of a table
  MaxSessions      \* bound

SegmentExtent ==
  [data_object_id : 0 .. MaxObject, relative_fno : 0 .. MaxFile \cup {BigFile}, block_id : Nat, blocks : Nat \ {0}]

(* A file of a smallfile tablespace has no more blocks than its ROWIDs can    *)
(* say, a bigfile no more than all files together.                            *)
ASSUME RangesAssumption ==
  /\ MaxObject \in Nat /\ MaxFile \in Nat /\ BlockSpace \in Nat \ {0}
  /\ BigFile \in Nat /\ BigFile > MaxFile
  /\ kMinUnitBlocks \in Nat \ {0} /\ MaxExtents \in Nat \ {0} /\ MaxSessions \in Nat \ {0}
  /\ Extents \subseteq SegmentExtent
  /\ \A e \in Extents : e.block_id + e.blocks <=
       IF e.relative_fno = BigFile THEN BlockSpace * (MaxFile + 1) ELSE BlockSpace

VARIABLES
  extents,   \* argument: the extents of the table
  sessions,  \* of the scan
  target,    \* argument: target_blocks
  todo,      \* extents of the objects not started
  list,      \* extents of the current object not used up
  object,    \* the current object, -1 for none
  offset,    \* blocks of the first extent of list used
  rowid_lo, blocks,  \* the unit being filled
  units,     \* the units made
  slices     \* the result, <<>> before the end

arguments == <<extents, sessions, target>>
vars == <<arguments, todo, list, object, offset, rowid_lo, blocks, units, slices>>

(* EncodeRowid: a bigfile block number has no file in its ROWID, its high    *)
(* bits take that place.                                                     *)
MutEncodeRowid(obj, fno, block) ==  \* the high bits of a bigfile block are lost
  LET file == IF fno = BigFile THEN 0 ELSE fno
  IN (obj * (MaxFile + 1) + file) * BlockSpace + (block % BlockSpace)

EncodeRowid(obj, fno, block) ==
  LET file == IF fno = BigFile THEN block \div BlockSpace ELSE fno
      field == IF fno = BigFile THEN block % BlockSpace ELSE block
  IN (obj * (MaxFile + 1) + file) * BlockSpace + field

(* The blocks of a set of extents, as pairs of extent and number. *)
Cells(es) == UNION {{e} \X (0 .. e.blocks - 1) : e \in es}
SumBlocks(es) == Cardinality(Cells(es))
OfObject(es, obj) == {e \in es : e.data_object_id = obj}
ObjectsOf(es) == {e.data_object_id : e \in es}
Least(a, b) == IF a <= b THEN a ELSE b
Greatest(a, b) == IF a >= b THEN a ELSE b

(* TargetBlocks of the largest data object: four units per session, none too *)
(* small.                                                                    *)
TargetBlocks ==
  LET largest == CHOOSE n \in {SumBlocks(OfObject(extents, o)) : o \in ObjectsOf(extents)} :
                   \A o \in ObjectsOf(extents) : SumBlocks(OfObject(extents, o)) <= n
      divisor == 4 * sessions
  IN Greatest((largest + divisor - 1) \div divisor, kMinUnitBlocks)

(* The order of std::sort in an object. *)
Before(a, b) ==
  \/ a.relative_fno < b.relative_fno
  \/ a.relative_fno = b.relative_fno /\ a.block_id < b.block_id

First(es) == CHOOSE e \in es : \A x \in es \ {e} : Before(e, x)

Blocks(e) == {<<e.relative_fno, e.block_id + i>> : i \in 0 .. e.blocks - 1}

SameObject(a, b) == a.data_object_id = b.data_object_id

(* The segment of a data object is in one tablespace: its extents share no    *)
(* block, and if the tablespace is a bigfile it has one file.                  *)
Init ==
  /\ extents \in {{f[i] : i \in 1 .. MaxExtents} : f \in [1 .. MaxExtents -> Extents]}
  /\ \A a, b \in extents : a # b /\ SameObject(a, b) => Blocks(a) \cap Blocks(b) = {}
  /\ \A a, b \in extents : a.relative_fno = BigFile /\ SameObject(a, b) => b.relative_fno = BigFile
  /\ sessions \in 1 .. MaxSessions
  /\ target = TargetBlocks
  /\ todo = extents /\ list = {} /\ object = -1 /\ offset = 0
  /\ rowid_lo = 0 /\ blocks = 0
  /\ units = <<>> /\ slices = <<>>

(* Next data object, in the order of by_object; its first range starts at    *)
(* the lowest ROWID the object can have.                                     *)
StartObject ==
  /\ object = -1 /\ todo # {}
  /\ object' = CHOOSE o \in ObjectsOf(todo) : \A x \in ObjectsOf(todo) : o <= x
  /\ list' = OfObject(todo, object')
  /\ todo' = todo \ list'
  /\ offset' = 0
  /\ rowid_lo' = EncodeRowid(object', 0, 0) /\ blocks' = 0
  /\ UNCHANGED <<arguments, units, slices>>

(* The blocks of extent e that still fit in the unit. *)
Take(e, filled) == Least(e.blocks - offset, target - filled)

Boundary == EncodeRowid(object, First(list).relative_fno, First(list).block_id + offset)

(* One iteration of the loop over an extent's blocks: close the unit when it *)
(* is full, and take what fits in the unit.                                  *)
FillUnit ==
  LET e == First(list)
      full == blocks >= target
      filled == IF full THEN 0 ELSE blocks
      take == Take(e, filled)
  IN
  /\ object # -1 /\ list # {}
  /\ IF full
       THEN units' = Append(units, [lo |-> rowid_lo, hi |-> Boundary, blocks |-> blocks]) /\ rowid_lo' = Boundary
       ELSE UNCHANGED <<units, rowid_lo>>
  /\ blocks' = filled + take
  /\ IF offset + take = e.blocks THEN list' = list \ {e} /\ offset' = 0
     ELSE UNCHANGED list /\ offset' = offset + take
  /\ UNCHANGED <<arguments, todo, object, slices>>

(* The last range of an object ends where the next object starts; the last   *)
(* object's ends after the last ROWID (hi_inclusive), the same bound here.   *)
MutLastRowid(o) == EncodeRowid(o, MaxFile, BlockSpace - 1)  \* exclusive too

LastRowid(o) == IF o = MaxObject THEN EncodeRowid(o, MaxFile, BlockSpace - 1) + 1
                ELSE EncodeRowid(o + 1, 0, 0)

CloseObject ==
  /\ object # -1 /\ list = {}
  /\ units' = Append(units, [lo |-> rowid_lo, hi |-> LastRowid(object), blocks |-> blocks])
  /\ object' = -1
  /\ UNCHANGED <<arguments, todo, list, offset, rowid_lo, blocks, slices>>

(* std::stable_sort, the largest unit first. *)
MutRank(i) == i  \* not sorted

Rank(i) == Cardinality({j \in DOMAIN units :
  units[j].blocks > units[i].blocks \/ (units[j].blocks = units[i].blocks /\ j <= i)})

Sorted == [n \in DOMAIN units |-> units[CHOOSE i \in DOMAIN units : Rank(i) = n]]

SortUnits ==
  /\ object = -1 /\ todo = {} /\ slices = <<>>
  /\ slices' = Sorted
  /\ UNCHANGED <<arguments, todo, list, object, offset, rowid_lo, blocks, units>>

Next == StartObject \/ FillUnit \/ CloseObject \/ SortUnits

Spec == Init /\ [][Next]_vars

-----------------------------------------------------------------------------
Unit == [lo : Nat, hi : Nat, blocks : Nat]

TypeOK ==
  /\ extents \subseteq Extents /\ IsFiniteSet(extents) /\ extents # {}
  /\ sessions \in 1 .. MaxSessions /\ target \in Nat \ {0}
  /\ todo \subseteq extents /\ list \subseteq extents
  /\ object \in -1 .. MaxObject
  /\ offset \in Nat /\ rowid_lo \in Nat /\ blocks \in 0 .. target
  /\ units \in Seq(Unit)

Done == slices # <<>>

(* Oracle's own order of blocks: object, file, block in the file.  The n-th   *)
(* block of a bigfile is the n-th of a run of files.                          *)
Position(o, f, b) == (o * (MaxFile + 1) + f) * BlockSpace + b
BlockPosition(e, n) ==
  Position(e.data_object_id, IF e.relative_fno = BigFile THEN 0 ELSE e.relative_fno, e.block_id + n)

(* The ROWIDs of an object. *)
Within(position, o) == Position(o, 0, 0) <= position /\ position < Position(o + 1, 0, 0)

Holds(unit, position) == unit.lo <= position /\ position < unit.hi
Holding(position) == {i \in DOMAIN slices : Holds(slices[i], position)}

(* Every ROWID of an object of the table is in exactly one slice, also in     *)
(* blocks of no extent seen (a segment may grow), and no ROWID of another     *)
(* object is in any.                                                          *)
RowidsOnce ==
  Done => \A o \in 0 .. MaxObject, f \in 0 .. MaxFile, b \in 0 .. BlockSpace - 1 :
    Cardinality(Holding(Position(o, f, b))) = (IF o \in ObjectsOf(extents) THEN 1 ELSE 0)

(* The size a unit is given is the number of its extents' blocks whose ROWIDs *)
(* are in its range: the cuts are where the counting says they are.           *)
CellsIn(unit) == {c \in Cells(extents) : Holds(unit, BlockPosition(c[1], c[2]))}

SizesAreTrue ==
  Done => \A i \in DOMAIN slices : slices[i].blocks = Cardinality(CellsIn(slices[i]))

(* At most four units per session for each object, each within the target,    *)
(* the largest first, so that the sessions end together.                      *)
UnitsOf(made, o) == {i \in DOMAIN made : Within(made[i].lo, o)}

UnitsAreBalanced ==
  Done =>
    /\ \A i, j \in DOMAIN slices : i < j => slices[i].blocks >= slices[j].blocks
    /\ \A i \in DOMAIN slices : slices[i].blocks \in 1 .. target
    /\ \A o \in ObjectsOf(extents) : Cardinality(UnitsOf(slices, o)) <= 4 * sessions

-----------------------------------------------------------------------------
(* The inductive invariant behind the properties above. *)
Finished == ObjectsOf(extents \ todo) \ {object}
Rowids == 0 .. Position(MaxObject + 1, 0, 0) - 1

(* The arguments: extents of an object share no block, a bigfile is its only  *)
(* file, and the target is large enough for each object.                      *)
ArgumentInv ==
  /\ \A a, b \in extents : a # b /\ SameObject(a, b) => Blocks(a) \cap Blocks(b) = {}
  /\ \A a, b \in extents : a.relative_fno = BigFile /\ SameObject(a, b) => b.relative_fno = BigFile
  /\ \A o \in ObjectsOf(extents) : SumBlocks(OfObject(extents, o)) <= 4 * sessions * target

(* The extents are used up in order, object by object. *)
ListInv ==
  /\ object = -1 => list = {}
  /\ object # -1 => /\ object \in ObjectsOf(extents \ todo)
                    /\ list \subseteq OfObject(extents, object)
  /\ \A e \in extents, x \in todo : e.data_object_id = x.data_object_id => e \in todo
  /\ \A e \in OfObject(extents, object) \ list, x \in list : Before(e, x)
  /\ list # {} => offset < First(list).blocks
  /\ list = {} => offset = 0

(* The units are disjoint and reach from the first ROWID of each object to    *)
(* where the filling is, or to its last ROWID.                                *)
RangeInv ==
  /\ object # -1 => Within(rowid_lo, object) /\ (list # {} => rowid_lo <= Boundary)
  /\ \A i \in DOMAIN units : \E o \in ObjectsOf(extents \ todo) : Within(units[i].lo, o)
  /\ \A x \in Rowids, i, j \in DOMAIN units : Holds(units[i], x) /\ Holds(units[j], x) => i = j
  /\ \A x \in Rowids :
       (\E i \in DOMAIN units : Holds(units[i], x)) <=>
         \/ \E o \in Finished : Within(x, o)
         \/ object # -1 /\ Position(object, 0, 0) <= x /\ x < rowid_lo

(* Blocks that were put into units. *)
Taken == {c \in Cells(OfObject(extents, object)) : c[1] \notin list \/ (c[1] = First(list) /\ c[2] < offset)}

SizeInv ==
  /\ \A i \in DOMAIN units : units[i].blocks \in 1 .. target /\ units[i].blocks = Cardinality(CellsIn(units[i]))
  /\ object # -1 => /\ blocks = Cardinality({c \in Taken : rowid_lo <= BlockPosition(c[1], c[2])})
                    /\ blocks = 0 => list # {}

BalanceInv ==
  /\ \A o \in Finished : Cardinality(UnitsOf(units, o)) <= 4 * sessions
  /\ object # -1 => Cardinality(UnitsOf(units, object)) * target + blocks = Cardinality(Taken)

SliceInv == Done => todo = {} /\ object = -1 /\ slices = Sorted

IInv ==
  TypeOK /\ ArgumentInv /\ ListInv /\ RangeInv /\ SizeInv /\ BalanceInv /\ SliceInv
=============================================================================
