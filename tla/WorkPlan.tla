------------------------------- MODULE WorkPlan -------------------------------
(***************************************************************************)
(* Planning and reading one scan while Oracle is written: PlanWork reads    *)
(* the SCN, then the extents (or falls back to a hash or to one statement), *)
(* then tries the snapshot; the units then run one statement each.  Between *)
(* any two of these calls other sessions commit, create segments, and move, *)
(* truncate or drop partitions.                                             *)
(*                                                                         *)
(* Oracle (external) is the history of the table, one placement of the rows *)
(* per SCN.  A placement gives each row the data object that holds it; the  *)
(* row itself stands for the rest of its ROWID, its file and block.         *)
(***************************************************************************)
EXTENDS Naturals, FiniteSets, Sequences

CONSTANTS
  MaxPart,     \* the partitions of the table are 1 .. MaxPart
  MaxRow,      \* bound: the rows are 1 .. MaxRow
  MaxSessions, \* bound: the sessions of a scan are 1 .. MaxSessions
  MaxCommits   \* bound: transactions of other sessions; the table is redefined once at most

ASSUME PlanAssumption ==
  /\ MaxPart \in Nat \ {0} /\ MaxRow \in Nat /\ MaxSessions \in Nat \ {0} /\ MaxCommits \in Nat

VARIABLES
  \* Oracle
  history,  \* per SCN, the placement of the rows
  object,   \* data object of each partition's segment, 0 without one
  objects,  \* data objects created so far
  ddl,      \* SCN of the last redefinition: AS OF an older SCN raises ORA-01466
  task,     \* the DBMS_PARALLEL_EXECUTE task of TaskName(): "absent", "ours", "theirs"
  error,    \* the exception SlicesFromParallelExecute drops the task under, "none" without one
  \* PlanWork and the scan
  split, snapshot, sessions,  \* its arguments
  pc,
  scn,        \* what ReadScn returned, 0 for ""
  seen,       \* what the extent query returned
  strategy, slices, plan_scn, noted,  \* WorkPlan: its strategy, units, SCN and note
  drop_failed,
  read,       \* the units whose statements ran
  result      \* per row, how often the units read it

oracle  == <<history, object, objects, ddl>>
options == <<split, snapshot, sessions>>
units   == <<strategy, slices>>
plan    == <<strategy, slices, plan_scn, noted>>
scan    == <<read, result>>
vars    == <<oracle, task, error, options, pc, scn, seen, plan, drop_failed, scan>>

Parts == 1 .. MaxPart
Rows == 1 .. MaxRow
Now  == Len(history)
MaxChanges == MaxCommits + 1
Redefined == ddl > 1
Objects == 1 .. MaxPart + MaxChanges
Placements == [Rows -> 0 .. MaxPart + MaxChanges]

Live(obj) == {obj[p] : p \in Parts} \ {0}

Slice ==
  [kind : {"none"}]
  \cup [kind : {"range"}, object : Objects, rows : SUBSET Rows]
  \cup [kind : {"hash"}, buckets : 1 .. MaxSessions, bucket : 0 .. MaxSessions - 1]

(* The WHERE clause of BuildScanSql for a row in data object o.  ORA_HASH of *)
(* the ROWID is some function of all its parts.                              *)
Selects(slice, r, o) ==
  \/ slice.kind = "none"
  \/ slice.kind = "range" /\ slice.object = o /\ r \in slice.rows
  \/ slice.kind = "hash" /\ (o + r) % slice.buckets = slice.bucket

Init ==
  /\ object \in {[p \in Parts |-> IF p \in segments THEN p ELSE 0] : segments \in SUBSET Parts}
  /\ objects = MaxPart
  /\ history \in {<<h>> : h \in [Rows -> Live(object) \cup {0}]}
  /\ ddl = 1
  /\ task \in {"absent", "theirs"} /\ error = "none"
  /\ split \in {"auto", "extents", "hash", "none"}
  /\ snapshot \in {"auto", "scn", "none"}
  /\ sessions \in 1 .. MaxSessions
  /\ pc = "begin"
  /\ scn = 0 /\ seen = {} /\ drop_failed = FALSE
  /\ strategy = "none" /\ slices = {} /\ plan_scn = 0 /\ noted = FALSE
  /\ read = {} /\ result = [r \in Rows |-> 0]

Ended == pc \in {"complete", "failed"}

-----------------------------------------------------------------------------
(* Other sessions; what they do before the plan or after the last statement   *)
(* is not seen.                                                               *)
Change(place) ==
  /\ pc # "begin" /\ ~Ended
  /\ pc = "read" => read # slices
  /\ history' = Append(history, place)
  /\ UNCHANGED <<task, error, options, pc, scn, seen, plan, drop_failed, scan>>

(* A transaction inserts, deletes and moves rows; rows for a partition that  *)
(* has no segment create it (an interval partition, a deferred segment).     *)
Commit ==
  /\ Now <= (IF Redefined THEN MaxChanges ELSE MaxCommits)
  /\ \/ /\ \E place \in [Rows -> Live(object) \cup {0}] : place # history[Now] /\ Change(place)
        /\ UNCHANGED <<object, objects, ddl>>
     \/ \E p \in Parts :
          /\ object[p] = 0
          /\ object' = [object EXCEPT ![p] = objects + 1]
          /\ objects' = objects + 1
          /\ \E place \in [Rows -> Live(object') \cup {0}] : Change(place)
          /\ UNCHANGED ddl

(* DDL gives a partition a new segment, with its rows (MOVE) or without       *)
(* (TRUNCATE), or drops it.                                                   *)
Redefine ==
  \E p \in Parts, o \in {0, objects + 1}, move \in BOOLEAN :
    /\ object[p] # 0 /\ ~Redefined
    /\ object' = [object EXCEPT ![p] = o]
    /\ objects' = objects + 1
    /\ Change([r \in Rows |-> IF history[Now][r] # object[p] THEN history[Now][r]
                              ELSE IF move THEN o ELSE 0])
    /\ ddl' = Now + 1

-----------------------------------------------------------------------------
(* PlanSingle: one unit, the whole table. *)
PlanSingle == strategy' = "none" /\ slices' = {[kind |-> "none"]} /\ UNCHANGED <<plan_scn, noted>>

(* One statement needs no snapshot and no slices. *)
BeginPlan ==
  /\ pc = "begin"
  /\ IF sessions <= 1 \/ split = "none"
       THEN PlanSingle /\ pc' = "read"
       ELSE UNCHANGED plan /\ pc' = IF snapshot # "none" THEN "scn" ELSE "units"
  /\ UNCHANGED <<oracle, task, error, options, scn, seen, drop_failed, scan>>

(* ReadScn tries its sources in turn; none may be readable. *)
ReadScn ==
  /\ pc = "scn"
  /\ scn' \in {Now, 0}
  /\ pc' = "units"
  /\ UNCHANGED <<oracle, task, error, options, seen, plan, drop_failed, scan>>

(* PlanUnits: a forced split that cannot run throws, 'auto' falls back. *)
PlanUnits ==
  /\ pc = "units"
  /\ \E view \in BOOLEAN :
       pc' = CASE split = "extents" /\ view -> "failed"
               [] split = "extents" \/ (split = "auto" /\ ~view) -> "heap"
               [] OTHER -> "hash"
  /\ UNCHANGED <<oracle, task, error, options, scn, seen, plan, drop_failed, scan>>

AfterUnits == IF snapshot = "none" THEN "read" ELSE "snapshot"

MutNoExtents == "hash"  \* falls back even from a forced split

NoExtents == IF split = "extents" THEN "failed" ELSE "hash"

NonHeapReason ==
  /\ pc = "heap"
  /\ pc' \in {"extents", NoExtents}
  /\ UNCHANGED <<oracle, task, error, options, scn, seen, plan, drop_failed, scan>>

(* SlicesFromDbaExtents, first query: the partitions with extents.  None: an *)
(* empty plan.  No privilege on DBA_EXTENTS: on to DBMS_PARALLEL_EXECUTE.    *)
DbaExtents ==
  /\ pc = "extents"
  /\ \/ /\ seen' = {p \in Parts : object[p] # 0}
        /\ pc' = IF seen' = {} THEN AfterUnits ELSE "objects"
        /\ strategy' = IF seen' = {} THEN "extents" ELSE strategy
     \/ pc' = "task" /\ UNCHANGED <<seen, strategy>>
  /\ UNCHANGED <<oracle, task, error, options, scn, slices, plan_scn, noted, drop_failed, scan>>

(* BuildRowidSlices: the whole ROWID space of each data object, cut in two   *)
(* at any row or left whole.                                                 *)
MutRangeSlices(objs, cut) ==  \* the second range starts one too far
  {s \in [kind : {"range"}, object : objs, rows : SUBSET Rows] :
     /\ s.rows # {}
     /\ s.rows \in {{r \in Rows : r <= cut[s.object]}, {r \in Rows : r > cut[s.object] + 1}}}

RangeSlices(objs, cut) ==
  {s \in [kind : {"range"}, object : objs, rows : SUBSET Rows] :
     /\ s.rows # {}
     /\ s.rows \in {{r \in Rows : r <= cut[s.object]}, {r \in Rows : r > cut[s.object]}}}

PlanRanges(objs) ==
  \E cut \in [objs -> Rows] :
    strategy' = "extents" /\ slices' = RangeSlices(objs, cut) /\ UNCHANGED <<plan_scn, noted>>

(* Second query: the data object of each partition seen, now.  One without   *)
(* any: the partitions changed in between.                                   *)
AllObjects ==
  /\ pc = "objects"
  /\ IF \A p \in seen : object[p] # 0
       THEN PlanRanges({object[p] : p \in seen}) /\ pc' = AfterUnits
       ELSE pc' = "task" /\ UNCHANGED plan
  /\ UNCHANGED <<oracle, task, error, options, scn, seen, drop_failed, scan>>

(* DropTask may fail: the session may be unusable. *)
MutDropTask(before) == task' = before /\ UNCHANGED drop_failed  \* never called

DropTask(before) ==
  \/ task' = "absent" /\ UNCHANGED drop_failed
  \/ before # "absent" /\ task' = before /\ drop_failed' = TRUE

(* Other sessions may use the name too. *)
OtherTask ==
  /\ pc \in {"task", "drop"}
  /\ \/ task = "absent" /\ task' = "theirs"
     \/ task = "theirs" /\ task' = "absent"
  /\ UNCHANGED <<oracle, error, options, pc, scn, seen, plan, drop_failed, scan>>

(* SlicesFromParallelExecute: the statistics, then the task and its chunks in *)
(* one call.  An Oracle error falls back, any other exception is thrown.      *)
StatisticsFail ==
  /\ pc = "task"
  /\ pc' \in {NoExtents, "failed"}
  /\ UNCHANGED <<oracle, task, error, options, scn, seen, plan, drop_failed, scan>>

CreateTask ==
  /\ pc = "task" /\ task = "absent"
  /\ task' = "ours"
  /\ seen' = Live(object)
  /\ pc' = "chunks"
  /\ UNCHANGED <<oracle, error, options, scn, plan, drop_failed, scan>>

(* ORA-29497 says that the name is another session's: nothing is dropped.     *)
(* Any other error, raised before or after the task exists, does not say      *)
(* whose it is.                                                               *)
MutCreateTaskFails ==  \* drops the task after ORA-29497 too
  /\ pc = "task"
  /\ \/ task = "theirs" /\ error' = "duplicate" /\ UNCHANGED task
     \/ /\ error' \in {"oracle", "other"}
        /\ task' \in {task} \cup (IF task = "absent" THEN {"ours"} ELSE {})
  /\ pc' = "drop"
  /\ UNCHANGED <<oracle, options, scn, seen, plan, drop_failed, scan>>

CreateTaskFails ==
  /\ pc = "task"
  /\ \/ task = "theirs" /\ pc' = NoExtents /\ UNCHANGED <<task, error>>
     \/ /\ error' \in {"oracle", "other"}
        /\ task' \in {task} \cup (IF task = "absent" THEN {"ours"} ELSE {})
        /\ pc' = "drop"
  /\ UNCHANGED <<oracle, options, scn, seen, plan, drop_failed, scan>>

ReadChunksFails ==
  /\ pc = "chunks"
  /\ error' \in {"oracle", "other"}
  /\ pc' = "drop"
  /\ UNCHANGED <<oracle, task, options, scn, seen, plan, drop_failed, scan>>

(* The drop, in a call of its own, whatever now bears the name; then the      *)
(* exception goes on.                                                         *)
DropTaskQuietly ==
  /\ pc = "drop"
  /\ DropTask(task)
  /\ pc' = IF error = "other" THEN "failed" ELSE NoExtents
  /\ error' = "none"
  /\ UNCHANGED <<oracle, options, scn, seen, plan, scan>>

(* The chunks are kept even when the task then cannot be dropped. *)
ReadChunks ==
  /\ pc = "chunks"
  /\ PlanRanges(seen)
  /\ DropTask(task)
  /\ pc' = AfterUnits
  /\ UNCHANGED <<oracle, error, options, scn, seen, scan>>

(* One slice per bucket, numbered from 0 as ORA_HASH does. *)
HashSlices == [kind : {"hash"}, buckets : {sessions}, bucket : 0 .. sessions - 1]

(* ORA_HASH(ROWID) is tried; a view may have no ROWID. *)
PlanHash ==
  /\ pc = "hash"
  /\ \/ /\ strategy' = "hash" /\ slices' = HashSlices /\ UNCHANGED <<plan_scn, noted>>
        /\ pc' = AfterUnits
     \/ /\ split = "hash" /\ pc' = "failed" /\ UNCHANGED plan
     \/ /\ split # "hash" /\ PlanSingle /\ pc' = AfterUnits
  /\ UNCHANGED <<oracle, task, error, options, scn, seen, drop_failed, scan>>

(* The SCN of the plan is the one read before the units. *)
MutSnapshotScn == Now  \* read after them

SnapshotScn == scn

Several == Cardinality(slices) > 1

(* PlanSnapshot, for several units: without an SCN, or when Oracle refuses   *)
(* AS OF, 'scn' throws and 'auto' reads per session and notes it.            *)
PlanSnapshot ==
  /\ pc = "snapshot"
  /\ \/ ~Several /\ pc' = "read" /\ UNCHANGED <<plan_scn, noted>>
     \/ Several /\ snapshot = "scn" /\ pc' = "failed" /\ UNCHANGED <<plan_scn, noted>>
     \/ Several /\ snapshot # "scn" /\ pc' = "read" /\ noted' = TRUE /\ UNCHANGED plan_scn
     \/ /\ Several /\ scn # 0 /\ scn >= ddl
        /\ pc' = "read" /\ plan_scn' = SnapshotScn /\ UNCHANGED noted
  /\ UNCHANGED <<oracle, task, error, options, scn, seen, units, drop_failed, scan>>

(* A call of the planner that nothing catches, a unit, or its fetches fail. *)
OracleError ==
  /\ pc \in {"heap", "extents", "objects", "read"}
  /\ pc' = "failed"
  /\ UNCHANGED <<oracle, task, error, options, scn, seen, plan, drop_failed, scan>>

-----------------------------------------------------------------------------
(* A unit's statement: one moment, its own or the plan's SCN. *)
Moment == IF plan_scn = 0 THEN Now ELSE plan_scn

ReadUnit(slice) ==
  LET place == history[Moment] IN
  /\ pc = "read" /\ slice \in slices \ read
  /\ Moment >= ddl
  /\ result' = [r \in Rows |->
       result[r] + IF place[r] # 0 /\ Selects(slice, r, place[r]) THEN 1 ELSE 0]
  /\ read' = read \cup {slice}
  /\ UNCHANGED <<oracle, task, error, options, pc, scn, seen, plan, drop_failed>>

ScanDone ==
  /\ pc = "read" /\ read = slices
  /\ pc' = "complete"
  /\ UNCHANGED <<oracle, task, error, options, scn, seen, plan, drop_failed, scan>>

Next ==
  \/ Commit \/ Redefine \/ OtherTask
  \/ BeginPlan \/ ReadScn \/ PlanUnits \/ NonHeapReason \/ DbaExtents \/ AllObjects
  \/ StatisticsFail \/ CreateTask \/ CreateTaskFails \/ ReadChunks \/ ReadChunksFails \/ DropTaskQuietly
  \/ PlanHash \/ PlanSnapshot \/ OracleError
  \/ (\E slice \in slices : ReadUnit(slice)) \/ ScanDone

Spec == Init /\ [][Next]_vars

-----------------------------------------------------------------------------
OracleType ==
  /\ history \in Seq(Placements)
  /\ Now \in 1 .. MaxChanges + 1 /\ (~Redefined => Now <= MaxCommits + 1)
  /\ objects \in MaxPart .. MaxPart + Now - 1
  /\ object \in [Parts -> 0 .. objects]
  /\ ddl \in 1 .. Now
  /\ task \in {"absent", "ours", "theirs"}

PlanType ==
  /\ split \in {"auto", "extents", "hash", "none"} /\ snapshot \in {"auto", "scn", "none"}
  /\ sessions \in 1 .. MaxSessions
  /\ pc \in {"begin", "scn", "units", "heap", "extents", "objects", "task", "chunks", "drop", "hash",
            "snapshot", "read", "complete", "failed"}
  /\ error \in {"none", "duplicate", "oracle", "other"}
  /\ scn \in 0 .. Now /\ plan_scn \in {0, scn}
  /\ pc = "objects" => seen \subseteq Parts
  /\ pc = "chunks" => seen \subseteq Objects
  /\ strategy \in {"extents", "hash", "none"} /\ noted \in BOOLEAN /\ drop_failed \in BOOLEAN
  /\ slices \subseteq Slice /\ read \subseteq slices
  /\ result \in [Rows -> Nat]

TypeOK == OracleType /\ PlanType

Content(s) == {r \in Rows : history[s][r] # 0}
Reads(rows) == result = [r \in Rows |-> IF r \in rows THEN 1 ELSE 0]

(* A scan with a snapshot returns the table of that SCN, each row once: the   *)
(* slices made after the SCN was read miss no row of it, whatever was         *)
(* committed, created or redefined in between.                                *)
SnapshotIsExact ==
  pc = "complete" /\ plan_scn # 0 => Reads(Content(plan_scn))

(* With or without a snapshot, a row that stayed where it was from the start  *)
(* of the planning to the end of the scan is read exactly once.               *)
StableRowsOnce ==
  pc = "complete" => \A r \in Rows :
    history[1][r] # 0 /\ (\A s \in 1 .. Now : history[s][r] = history[1][r]) => result[r] = 1

(* A forced option is met or refused: a forced split is the split of the      *)
(* plan, 'scn' gives several units a snapshot, and under 'auto' several units *)
(* without one are noted.                                                     *)
ForcedOptionsHold ==
  pc \in {"read", "complete"} =>
    /\ sessions > 1 /\ split \in {"extents", "hash"} => strategy = split
    /\ Several /\ plan_scn = 0 =>
         snapshot = "none" \/ (snapshot = "auto" /\ noted)

(* The planner's task outlives the planning only when dropping it failed. *)
TaskIsDropped ==
  task = "ours" => pc \in {"chunks", "drop"} \/ drop_failed

(* The planner drops another session's task of the same name only after an    *)
(* error that does not say whose it is: never after ORA-29497, and never with *)
(* the drop that follows the reading of its own chunks.                       *)
TheirTaskStays ==
  [][task = "theirs" /\ task' # "theirs" => UNCHANGED pc \/ error \in {"oracle", "other"}]_vars

(* A plan of one unit reads the table of one moment, whichever way the unit   *)
(* was made: what the code says of a single unit.                             *)
SingleUnitIsConsistent ==
  pc = "complete" /\ snapshot # "none" /\ Cardinality(slices) = 1 => \E s \in 1 .. Now : Reads(Content(s))

-----------------------------------------------------------------------------
(* The inductive invariant behind the properties above. *)
Stable(r) == history[1][r] # 0 /\ \A s \in 1 .. Now : history[s][r] = history[1][r]
Found(some, r, o) == \E s \in some : Selects(s, r, o)

(* Since the last redefinition rows are in segments that still exist. *)
PlaceInv == \A s \in ddl .. Now, r \in Rows : history[s][r] \in Live(object) \cup {0}

(* What the plan must find: row r in data object o, because r never left it   *)
(* or because it was there at the SCN, while Oracle can still go back to it.  *)
Due(r, o) ==
  /\ o # 0
  /\ \/ Stable(r) /\ o = history[1][r]
     \/ scn # 0 /\ (scn >= ddl \/ plan_scn # 0) /\ o = history[scn][r]

CoverInv == \A r \in Rows, o \in Objects : Due(r, o) =>
  /\ pc = "objects" => \E p \in seen : object[p] = o
  /\ pc = "chunks" => o \in seen
  /\ pc \in {"snapshot", "read", "complete"} => Found(slices, r, o)

(* No two units read the same place. *)
ApartInv == \A s, u \in slices, r \in Rows, o \in Objects :
  Selects(s, r, o) /\ Selects(u, r, o) => s = u

(* A row is counted once its unit ran. *)
CountInv ==
  /\ pc \notin {"read", "complete", "failed"} =>
       plan_scn = 0 /\ read = {} /\ result = [r \in Rows |-> 0]
  /\ pc = "complete" => read = slices
  /\ \A r \in Rows :
       /\ Stable(r) => result[r] = IF Found(read, r, history[1][r]) THEN 1 ELSE 0
       /\ plan_scn # 0 => result[r] = IF history[scn][r] # 0 /\ Found(read, r, history[scn][r]) THEN 1 ELSE 0

(* Which way the plan goes under a forced split, and where it may end. *)
OptionInv ==
  /\ pc \in {"heap", "extents", "objects", "task", "chunks", "drop"} => split \in {"auto", "extents"}
  /\ pc = "hash" => split \in {"auto", "hash"}
  /\ pc \notin {"begin", "read", "complete", "failed"} => sessions > 1 /\ split # "none"
  /\ pc = "snapshot" => snapshot # "none"
  /\ pc \in {"snapshot", "read", "complete"} /\ sessions > 1 /\ split \in {"extents", "hash"} =>
       strategy = split

(* The chunks are read from the planner's own task, and it is dropped under   *)
(* an error that says nothing of another's.                                   *)
OursInv ==
  /\ pc = "chunks" => task = "ours"
  /\ pc = "drop" => error \in {"oracle", "other"}

IInv ==
  /\ TypeOK /\ PlaceInv /\ CoverInv /\ ApartInv /\ CountInv /\ OptionInv
  /\ ForcedOptionsHold /\ TaskIsDropped /\ OursInv
=============================================================================
