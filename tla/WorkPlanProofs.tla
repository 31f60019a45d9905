---------------------------- MODULE WorkPlanProofs ----------------------------
EXTENDS WorkPlan, FiniteSetTheorems, TLAPS

(* The buckets of ORA_HASH: every row falls in one. *)
LEMMA HashFinds ==
  ASSUME NEW r \in Nat, NEW o \in Nat, sessions \in Nat \ {0}
  PROVE  \E s \in HashSlices : Selects(s, r, o)
<1>1. (o + r) % sessions \in 0 .. sessions - 1
  OBVIOUS
<1> DEFINE s == [kind |-> "hash", buckets |-> sessions, bucket |-> (o + r) % sessions]
<1>2. s \in HashSlices
  BY <1>1 DEF HashSlices
<1>3. Selects(s, r, o)
  BY DEF Selects
<1> QED BY <1>2, <1>3

(* And in one only. *)
LEMMA HashApart ==
  ASSUME NEW s \in HashSlices, NEW u \in HashSlices, NEW r, NEW o, Selects(s, r, o), Selects(u, r, o)
  PROVE  s = u
<1>1. s.kind = "hash" /\ s.buckets = sessions /\ u.kind = "hash" /\ u.buckets = sessions
  BY DEF HashSlices
<1>2. s.bucket = u.bucket
  BY <1>1 DEF Selects
<1> QED BY <1>1, <1>2 DEF HashSlices

(* The ranges of a data object: its whole ROWID space, whatever the cut. *)
LEMMA RangeFinds ==
  ASSUME NEW objs, NEW cut \in [objs -> Rows], NEW r \in Rows, NEW o \in objs
  PROVE  \E s \in RangeSlices(objs, cut) : Selects(s, r, o)
<1> DEFINE half == IF r <= cut[o] THEN {x \in Rows : x <= cut[o]} ELSE {x \in Rows : x > cut[o]}
           s == [kind |-> "range", object |-> o, rows |-> half]
<1>1. r \in half /\ half \in SUBSET Rows
  BY DEF Rows
<1>2. half \in {{x \in Rows : x <= cut[o]}, {x \in Rows : x > cut[o]}}
  OBVIOUS
<1> HIDE DEF half
<1>3. s \in [kind : {"range"}, object : objs, rows : SUBSET Rows] /\ s.rows = half /\ s.object = o /\ s.kind = "range"
  BY <1>1
<1> HIDE DEF s
<1>4. s \in RangeSlices(objs, cut)
  BY <1>1, <1>2, <1>3 DEF RangeSlices
<1>5. Selects(s, r, o)
  BY <1>1, <1>3 DEF Selects
<1> QED BY <1>4, <1>5

(* And no place is in two of them. *)
LEMMA RangeApart ==
  ASSUME NEW objs, NEW cut \in [objs -> Rows], NEW r \in Rows, NEW o,
         NEW s \in RangeSlices(objs, cut), NEW u \in RangeSlices(objs, cut),
         Selects(s, r, o), Selects(u, r, o)
  PROVE  s = u
<1>1. /\ s \in [kind : {"range"}, object : objs, rows : SUBSET Rows]
      /\ u \in [kind : {"range"}, object : objs, rows : SUBSET Rows]
  BY DEF RangeSlices
<1>2. s.object = o /\ r \in s.rows /\ u.object = o /\ r \in u.rows
  BY <1>1 DEF Selects
<1>3. /\ s.rows \in {{x \in Rows : x <= cut[o]}, {x \in Rows : x > cut[o]}}
      /\ u.rows \in {{x \in Rows : x <= cut[o]}, {x \in Rows : x > cut[o]}}
  BY <1>2 DEF RangeSlices
<1>4. cut[o] \in Nat /\ r \in Nat
  BY <1>1, <1>2 DEF Rows
<1>5. s.rows = u.rows
  BY <1>2, <1>3, <1>4
<1> QED BY <1>1, <1>2, <1>5

(* What the bounds are. *)
LEMMA Bounds ==
  /\ MaxPart \in Nat /\ MaxRow \in Nat /\ MaxSessions \in Nat /\ MaxCommits \in Nat /\ MaxChanges \in Nat
  /\ MaxChanges = MaxCommits + 1
BY PlanAssumption DEF MaxChanges

(* The history grows by one placement. *)
LEMMA HistoryGrows ==
  ASSUME OracleType, NEW place \in Placements, history' = Append(history, place)
  PROVE  /\ history' \in Seq(Placements) /\ Now' = Now + 1
         /\ \A s \in 1 .. Now : history'[s] = history[s]
         /\ history'[Now + 1] = place
BY DEF OracleType, Now

(* Another session's transaction creates segments and removes none. *)
LEMMA CommitFacts ==
  ASSUME OracleType, PlaceInv, Commit
  PROVE  /\ OracleType' /\ PlaceInv'
         /\ Now' = Now + 1 /\ ddl' = ddl
         /\ \A s \in 1 .. Now : history'[s] = history[s]
         /\ \A p \in Parts : object[p] # 0 => object'[p] = object[p]
<1>1. PICK place \in [Rows -> Live(object') \cup {0}] :
        /\ history' = Append(history, place)
        /\ UNCHANGED task
        /\ \/ UNCHANGED <<object, objects>>
           \/ \E p \in Parts : object[p] = 0 /\ object' = [object EXCEPT ![p] = objects + 1] /\ objects' = objects + 1
  BY DEF Commit, Change
<1>2. ddl' = ddl /\ Now <= IF Redefined THEN MaxChanges ELSE MaxCommits
  BY DEF Commit
<1>3. objects \in Nat /\ objects <= MaxPart + Now - 1 /\ Now \in Nat /\ Now >= 1 /\ ddl \in Nat /\ ddl >= 1 /\ objects >= MaxPart /\ ddl <= Now
  BY Bounds DEF OracleType
<1>4. Now <= MaxChanges /\ (~Redefined => Now <= MaxCommits)
  BY <1>2, <1>3, Bounds
<1>5. object' \in [Parts -> 0 .. objects'] /\ objects' \in MaxPart .. MaxPart + Now
  BY <1>1, <1>3, Bounds DEF OracleType
<1>6. \A p \in Parts : object[p] # 0 => object'[p] = object[p]
  BY <1>1 DEF OracleType
<1>7. place \in Placements
  <2>1. Live(object') \cup {0} \subseteq 0 .. MaxPart + MaxChanges
    BY <1>3, <1>4, <1>5, Bounds DEF Live
  <2> QED BY <1>1, <2>1 DEF Placements
<1>8. /\ history' \in Seq(Placements) /\ Now' = Now + 1
      /\ \A s \in 1 .. Now : history'[s] = history[s]
      /\ history'[Now + 1] = place
  BY <1>1, <1>7, HistoryGrows
<1>9. Live(object) \subseteq Live(object')
  BY <1>6 DEF Live
<1>10. PlaceInv'
  <2> SUFFICES ASSUME NEW s \in ddl .. Now + 1, NEW r \in Rows
               PROVE  history'[s][r] \in Live(object') \cup {0}
    BY <1>2, <1>8 DEF PlaceInv, Rows
  <2>1. CASE s \in ddl .. Now
    BY <2>1, <1>3, <1>8, <1>9 DEF PlaceInv
  <2>2. CASE s = Now + 1
    BY <2>2, <1>1, <1>8
  <2> QED BY <2>1, <2>2, <1>3
<1>11. OracleType'
  <2>1. Now' \in 1 .. MaxChanges + 1 /\ (~Redefined' => Now' <= MaxCommits + 1)
    BY <1>2, <1>3, <1>4, <1>8, Bounds DEF Redefined
  <2>2. task' \in {"absent", "ours", "theirs"} /\ ddl' \in 1 .. Now'
    BY <1>1, <1>2, <1>3, <1>8 DEF OracleType
  <2>3. objects' \in MaxPart .. MaxPart + Now' - 1
    BY <1>3, <1>5, <1>8, Bounds
  <2> QED BY <1>5, <1>8, <2>1, <2>2, <2>3 DEF OracleType
<1> QED BY <1>2, <1>6, <1>8, <1>10, <1>11

(* DDL: the rows of the segment it replaces are in it no more, and no SCN      *)
(* before it can be read.                                                     *)
LEMMA RedefineFacts ==
  ASSUME OracleType, PlaceInv, Redefine
  PROVE  /\ OracleType' /\ PlaceInv'
         /\ Now' = Now + 1 /\ ddl' = Now + 1
         /\ \A s \in 1 .. Now : history'[s] = history[s]
         /\ \A p \in Parts, r \in Rows :
              object[p] # 0 /\ object'[p] # object[p] => history'[Now + 1][r] # object[p]
<1>1. PICK p \in Parts, o \in {0, objects + 1}, move \in BOOLEAN :
        /\ object[p] # 0 /\ ~Redefined
        /\ object' = [object EXCEPT ![p] = o]
        /\ objects' = objects + 1
        /\ history' = Append(history, [r \in Rows |-> IF history[Now][r] # object[p] THEN history[Now][r]
                              ELSE IF move THEN o ELSE 0])
        /\ UNCHANGED task
        /\ ddl' = Now + 1
  BY DEF Redefine, Change
<1> DEFINE place == [r \in Rows |-> IF history[Now][r] # object[p] THEN history[Now][r]
                              ELSE IF move THEN o ELSE 0]
<1>3. objects \in Nat /\ objects <= MaxPart + Now - 1 /\ Now \in Nat /\ Now >= 1 /\ ddl \in Nat /\ ddl >= 1 /\ objects >= MaxPart /\ ddl <= Now
  BY Bounds DEF OracleType
<1>4. Now <= MaxCommits + 1 /\ o \in 0 .. objects + 1 /\ o # object[p]
  BY <1>1, <1>3 DEF OracleType
<1>5. object' \in [Parts -> 0 .. objects'] /\ objects' \in MaxPart .. MaxPart + Now
  BY <1>1, <1>3, <1>4, Bounds DEF OracleType
<1>6. \A r \in Rows : history[Now][r] \in Live(object) \cup {0} /\ history[Now][r] \in 0 .. objects
  BY <1>3, Bounds DEF PlaceInv, Live, OracleType
<1>7. \A r \in Rows : place[r] \in Live(object') \cup {0} /\ place[r] # object[p]
  <2> SUFFICES ASSUME NEW r \in Rows PROVE place[r] \in Live(object') \cup {0} /\ place[r] # object[p]
    OBVIOUS
  <2>1. CASE history[Now][r] # object[p] /\ history[Now][r] # 0
    <3>1. PICK q \in Parts : object[q] = history[Now][r]
      BY <2>1, <1>6 DEF Live
    <3>2. object'[q] = object[q] /\ place[r] = object[q]
      BY <3>1, <2>1, <1>1 DEF OracleType
    <3> QED BY <3>1, <3>2, <2>1 DEF Live
  <2>2. CASE history[Now][r] = 0
    BY <2>2, <1>1
  <2>3. CASE history[Now][r] = object[p]
    <3>1. object'[p] = o
      BY <1>1 DEF OracleType
    <3> QED BY <3>1, <2>3, <1>1, <1>4 DEF Live
  <2> QED BY <2>1, <2>2, <2>3
<1>8. place \in Placements
  <2>1. Live(object') \cup {0} \subseteq 0 .. MaxPart + MaxChanges
    BY <1>3, <1>4, <1>5, Bounds DEF Live
  <2> QED BY <1>7, <2>1 DEF Placements
<1>9. /\ history' \in Seq(Placements) /\ Now' = Now + 1
      /\ \A s \in 1 .. Now : history'[s] = history[s]
      /\ history'[Now + 1] = place
  <2> HIDE DEF place
  <2>1. history' = Append(history, place)
    BY <1>1 DEF place
  <2> QED BY <2>1, <1>8, HistoryGrows
<1> HIDE DEF place
<1>10. PlaceInv'
  <2> SUFFICES ASSUME NEW s \in Now + 1 .. Now + 1, NEW r \in Rows
               PROVE  history'[s][r] \in Live(object') \cup {0}
    BY <1>1, <1>9 DEF PlaceInv, Rows
  <2> QED BY <1>3, <1>7, <1>9
<1>11. OracleType'
  <2>1. Now' \in 1 .. MaxChanges + 1 /\ Redefined'
    BY <1>1, <1>3, <1>4, <1>9, Bounds DEF Redefined
  <2>2. task' \in {"absent", "ours", "theirs"} /\ ddl' \in 1 .. Now'
    BY <1>1, <1>3, <1>9 DEF OracleType
  <2>3. objects' \in MaxPart .. MaxPart + Now' - 1
    BY <1>3, <1>5, <1>9, Bounds
  <2> QED BY <1>5, <1>9, <2>1, <2>2, <2>3 DEF OracleType
<1>12. ASSUME NEW q \in Parts, object[q] # 0, object'[q] # object[q] PROVE q = p
  BY <1>12, <1>1 DEF OracleType
<1> QED BY <1>1, <1>7, <1>9, <1>10, <1>11, <1>12

(* Every step but the other sessions' leaves the table alone. *)
LEMMA OnlyOthersWrite == [Next]_vars => Commit \/ Redefine \/ UNCHANGED oracle
<1> USE DEF oracle
<1> QED BY DEF Next, vars, BeginPlan, ReadScn, PlanUnits, NonHeapReason, DbaExtents, AllObjects, CreateTask, StatisticsFail, CreateTaskFails, DropTaskQuietly, OtherTask, ReadChunks, ReadChunksFails, PlanHash, PlanSnapshot, OracleError, ReadUnit, ScanDone

(* The task of the name is created, dropped, or stays. *)
LEMMA TaskMoves == TypeOK /\ [Next]_vars => task' \in {"absent", "ours", "theirs"}
<1> SUFFICES ASSUME task \in {"absent", "ours", "theirs"}, [Next]_vars PROVE task' \in {"absent", "ours", "theirs"}
  BY DEF TypeOK, OracleType
<1>1. CASE CreateTask \/ StatisticsFail \/ CreateTaskFails \/ DropTaskQuietly \/ OtherTask \/ ReadChunks \/ ReadChunksFails
  BY <1>1 DEF CreateTask, StatisticsFail, CreateTaskFails, DropTaskQuietly, OtherTask, ReadChunks, ReadChunksFails, DropTask
<1>2. CASE Commit \/ Redefine \/ UNCHANGED vars \/ BeginPlan \/ ReadScn \/ PlanUnits \/ NonHeapReason \/ DbaExtents \/ AllObjects
  BY <1>2 DEF Commit, Redefine, Change, BeginPlan, ReadScn, PlanUnits, NonHeapReason, DbaExtents, AllObjects, vars
<1>3. CASE PlanHash \/ PlanSnapshot \/ OracleError \/ (\E slice \in slices : ReadUnit(slice)) \/ ScanDone
  BY <1>3 DEF PlanHash, PlanSnapshot, OracleError, ReadUnit, ScanDone
<1> QED BY <1>1, <1>2, <1>3 DEF Next

(* Rows are only ever in segments that exist. *)
LEMMA OracleStep == IInv /\ [Next]_vars => OracleType' /\ PlaceInv'
<1> SUFFICES ASSUME IInv, [Next]_vars PROVE OracleType' /\ PlaceInv'
  OBVIOUS
<1>0. TypeOK /\ OracleType /\ PlaceInv
  BY DEF IInv, TypeOK
<1>1. CASE UNCHANGED oracle
  <2>1. task' \in {"absent", "ours", "theirs"}
    BY <1>0, TaskMoves
  <2>2. Live(object)' = Live(object)
    BY <1>1 DEF oracle, Live
  <2> QED BY <1>0, <1>1, <2>1, <2>2 DEF oracle, OracleType, PlaceInv, Now, Redefined
<1> QED BY <1>0, <1>1, OnlyOthersWrite, CommitFacts, RedefineFacts

(* The units of a plan, and when they are made: no statement has run then. *)
LEMMA UnitsStep ==
  ASSUME IInv, [Next]_vars
  PROVE  \/ UNCHANGED slices
         \/ /\ pc \notin {"read", "complete", "failed"} /\ UNCHANGED <<scn, plan_scn, scan, oracle>>
            /\ \/ slices' = {[kind |-> "none"]}
               \/ slices' = HashSlices /\ strategy' = "hash"
               \/ \E objs \in SUBSET Objects : \E cut \in [objs -> Rows] :
                    slices' = RangeSlices(objs, cut)
<1>0. OracleType /\ PlanType
  BY DEF IInv, TypeOK
<1>1. CASE BeginPlan
  BY <1>1 DEF BeginPlan, PlanSingle, plan
<1>2. CASE AllObjects
  <2>1. \A p \in seen : p \in Parts
    BY <1>0, <1>2 DEF PlanType, AllObjects
  <2>2. ASSUME \A p \in seen : object[p] # 0 PROVE {object[p] : p \in seen} \in SUBSET Objects
    BY <1>0, <2>1, <2>2, Bounds DEF OracleType, Objects
  <2> HIDE <1>0
  <2> QED BY <1>2, <2>2 DEF AllObjects, PlanRanges, plan
<1>3. CASE ReadChunks
  <2>1. seen \in SUBSET Objects
    BY <1>0, <1>3 DEF PlanType, ReadChunks
  <2> QED BY <1>3, <2>1 DEF ReadChunks, PlanRanges
<1>4. CASE PlanHash
  BY <1>4 DEF PlanHash, PlanSingle, plan
<1>5. CASE \/ Commit \/ Redefine \/ UNCHANGED vars \/ ReadScn \/ PlanUnits \/ NonHeapReason \/ DbaExtents
           \/ CreateTask \/ StatisticsFail \/ CreateTaskFails \/ DropTaskQuietly \/ OtherTask \/ ReadChunksFails
  BY <1>5 DEF Commit, Redefine, Change, ReadScn, PlanUnits, NonHeapReason, DbaExtents, CreateTask, StatisticsFail, CreateTaskFails, DropTaskQuietly, OtherTask,
     ReadChunksFails, vars, plan
<1>6. CASE PlanSnapshot \/ OracleError \/ (\E slice \in slices : ReadUnit(slice)) \/ ScanDone
  BY <1>6 DEF PlanSnapshot, OracleError, ReadUnit, ScanDone, plan, units
<1> QED BY <1>1, <1>2, <1>3, <1>4, <1>5, <1>6 DEF Next

(* No place is read by two units. *)
LEMMA ApartStep == IInv /\ [Next]_vars => ApartInv'
<1> SUFFICES ASSUME IInv, [Next]_vars,
                    NEW s \in slices', NEW u \in slices', NEW r \in Rows, NEW o \in Objects,
                    Selects(s, r, o), Selects(u, r, o)
             PROVE  s = u
  BY DEF ApartInv, Rows, Objects, MaxChanges, Selects
<1>1. CASE UNCHANGED slices
  BY <1>1 DEF IInv, ApartInv
<1>2. CASE slices' = {[kind |-> "none"]}
  BY <1>2
<1>3. CASE slices' = HashSlices
  BY <1>3, HashApart
<1>4. ASSUME NEW objs \in SUBSET Objects, NEW cut \in [objs -> Rows], slices' = RangeSlices(objs, cut) PROVE s = u
  BY <1>4, RangeApart
<1> QED BY <1>1, <1>2, <1>3, <1>4, UnitsStep

(* The options stay, and control goes from one step of the planner to another. *)
LEMMA ControlStep ==
  ASSUME PlanType, [Next]_vars
  PROVE  /\ UNCHANGED options
         /\ pc' \in {"begin", "scn", "units", "heap", "extents", "objects", "task", "chunks", "drop", "hash",
                     "snapshot", "read", "complete", "failed"}
         /\ strategy' \in {"extents", "hash", "none"}
         /\ noted' \in BOOLEAN /\ drop_failed' \in BOOLEAN
         /\ error' \in {"none", "duplicate", "oracle", "other"}
<1> USE DEF PlanType, options, plan, units
<1>1. CASE BeginPlan
  BY <1>1 DEF BeginPlan, PlanSingle
<1>2. CASE \/ Commit \/ Redefine \/ UNCHANGED vars \/ ReadScn \/ PlanUnits
  <2>1. UNCHANGED <<options, strategy, noted, drop_failed, error>>
    BY <1>2 DEF Commit, Redefine, Change, ReadScn, PlanUnits, vars
  <2>2. pc' \in {pc, "units", "failed", "heap", "hash"}
    BY <1>2 DEF Commit, Redefine, Change, ReadScn, PlanUnits, vars
  <2> QED BY <2>1, <2>2
<1>3. CASE NonHeapReason \/ DbaExtents \/ AllObjects
  BY <1>3 DEF NonHeapReason, DbaExtents, AllObjects, NoExtents, AfterUnits, PlanRanges
<1>4. CASE CreateTask
  BY <1>4 DEF CreateTask
<1>5. CASE StatisticsFail \/ CreateTaskFails \/ ReadChunksFails \/ OtherTask
  <2>1. UNCHANGED <<options, strategy, noted, drop_failed>> /\ pc' \in {pc, NoExtents, "failed", "drop"}
    BY <1>5 DEF StatisticsFail, CreateTaskFails, ReadChunksFails, OtherTask
  <2>2. error' \in {error, "oracle", "other"}
    BY <1>5 DEF StatisticsFail, CreateTaskFails, ReadChunksFails, OtherTask
  <2> QED BY <2>1, <2>2 DEF NoExtents
<1>9. CASE DropTaskQuietly \/ ReadChunks
  <2>1. UNCHANGED options /\ (UNCHANGED strategy \/ strategy' = "extents") /\ pc' \in {NoExtents, "failed", AfterUnits} /\ UNCHANGED noted
        /\ error' \in {error, "none"}
    BY <1>9 DEF DropTaskQuietly, ReadChunks, PlanRanges
  <2>2. drop_failed' \in {drop_failed, TRUE}
    BY <1>9, Zenon DEF DropTaskQuietly, ReadChunks, DropTask
  <2>3. drop_failed' \in BOOLEAN
    BY <2>2
  <2> QED BY <2>1, <2>3 DEF NoExtents, AfterUnits
<1>6. CASE PlanHash
  BY <1>6 DEF PlanHash, AfterUnits, PlanSingle
<1>7. CASE PlanSnapshot
  <2>1. UNCHANGED options /\ UNCHANGED <<strategy, drop_failed, error>> /\ pc' \in {"read", "failed"}
    BY <1>7 DEF PlanSnapshot
  <2>2. noted' \in {noted, TRUE}
    BY <1>7, Zenon DEF PlanSnapshot
  <2>3. noted' \in BOOLEAN
    BY <2>2
  <2> QED BY <2>1, <2>3
<1>8. CASE OracleError \/ (\E slice \in slices : ReadUnit(slice)) \/ ScanDone
  BY <1>8 DEF OracleError, ReadUnit, ScanDone
<1> QED BY <1>1, <1>2, <1>3, <1>4, <1>5, <1>6, <1>7, <1>8, <1>9 DEF Next

(* The SCN of the plan is one that was read, and what the extent query found   *)
(* are partitions, or data objects.                                           *)
LEMMA SeenStep ==
  ASSUME IInv, [Next]_vars
  PROVE  /\ scn' \in 0 .. Now' /\ plan_scn' \in {0, scn'}
         /\ pc' = "objects" => seen' \subseteq Parts
         /\ pc' = "chunks" => seen' \subseteq Objects
<1>0. /\ scn \in Nat /\ scn <= Now /\ Now \in Nat /\ plan_scn \in {0, scn}
      /\ (pc = "objects" => seen \subseteq Parts) /\ (pc = "chunks" => seen \subseteq Objects)
      /\ object \in [Parts -> 0 .. objects] /\ objects \in Nat /\ objects <= MaxPart + MaxChanges
  BY Bounds DEF IInv, TypeOK, PlanType, OracleType
<1>1. CASE Commit \/ Redefine
  <2>1. UNCHANGED <<pc, scn, plan_scn, seen>>
    BY <1>1 DEF Commit, Redefine, Change, plan
  <2>2. Now' = Now + 1
    BY <1>1, CommitFacts, RedefineFacts DEF IInv, TypeOK
  <2> QED BY <1>0, <2>1, <2>2
<1>2. CASE ReadScn
  <2>1. scn' \in {Now, 0} /\ pc' = "units" /\ UNCHANGED history /\ plan_scn' = 0
    BY <1>2 DEF ReadScn, oracle, plan, IInv, CountInv
  <2>2. Now' = Now
    BY <2>1 DEF Now
  <2> QED BY <2>1, <2>2, <1>0
<1> DEFINE Rest == /\ UNCHANGED <<history, scn>> /\ plan_scn' \in {0, scn}
                   /\ pc' = "objects" => seen' \subseteq Parts
                   /\ pc' = "chunks" => seen' \subseteq Objects
<1>3. ASSUME Rest 
      PROVE /\ scn' \in 0 .. Now' /\ plan_scn' \in {0, scn'}
            /\ pc' = "objects" => seen' \subseteq Parts
            /\ pc' = "chunks" => seen' \subseteq Objects
  <2>1. Now' = Now
    BY <1>3 DEF Now
  <2> QED BY <2>1, <1>3, <1>0
<1>4. ASSUME BeginPlan \/ PlanUnits \/ NonHeapReason \/ UNCHANGED vars PROVE Rest
  BY <1>0, <1>4 DEF BeginPlan, PlanUnits, NonHeapReason, NoExtents, PlanSingle, vars, oracle, plan
<1>5. ASSUME DbaExtents \/ AllObjects PROVE Rest
  BY <1>0, <1>5 DEF DbaExtents, AllObjects, AfterUnits, PlanRanges, oracle, plan
<1>6. ASSUME CreateTask PROVE Rest
  <2>1. Live(object) \subseteq Objects
    BY <1>0, Bounds DEF Live, Objects
  <2> QED BY <1>0, <1>6, <2>1 DEF CreateTask, oracle, plan
<1>7. ASSUME StatisticsFail \/ CreateTaskFails \/ DropTaskQuietly \/ OtherTask \/ ReadChunks \/ ReadChunksFails \/ PlanHash PROVE Rest
  BY <1>0, <1>7 DEF StatisticsFail, CreateTaskFails, DropTaskQuietly, OtherTask, ReadChunks, ReadChunksFails, PlanHash, NoExtents, AfterUnits, PlanRanges, PlanSingle, oracle, plan
<1>8. ASSUME PlanSnapshot \/ OracleError \/ (\E slice \in slices : ReadUnit(slice)) \/ ScanDone PROVE Rest
  BY <1>0, <1>8 DEF PlanSnapshot, OracleError, ReadUnit, ScanDone, SnapshotScn, oracle, plan
<1> HIDE DEF Rest
<1> QED BY <1>1, <1>2, <1>3, <1>4, <1>5, <1>6, <1>7, <1>8 DEF Next

(* The result counts rows. *)
LEMMA ScanStep ==
  ASSUME IInv, [Next]_vars
  PROVE  result' \in [Rows -> Nat] /\ slices' \subseteq Slice /\ read' \subseteq slices'
<1>0. /\ slices \subseteq Slice /\ read \subseteq slices /\ result \in [Rows -> Nat] /\ sessions \in 1 .. MaxSessions
      /\ (pc \notin {"read", "complete", "failed"} => read = {})
  BY DEF IInv, TypeOK, PlanType, CountInv
<1>1. slices' \subseteq Slice
  <2>1. HashSlices \subseteq Slice
    BY <1>0, Bounds DEF HashSlices, Slice
  <2>2. ASSUME NEW objs \in SUBSET Objects, NEW cut \in [objs -> Rows] PROVE RangeSlices(objs, cut) \subseteq Slice
    BY DEF RangeSlices, Slice
  <2>3. {[kind |-> "none"]} \subseteq Slice
    BY DEF Slice
  <2> QED BY <1>0, <2>1, <2>2, <2>3, UnitsStep
<1>2. \/ UNCHANGED scan
      \/ \E slice \in slices :
           /\ read' = read \cup {slice} /\ UNCHANGED slices
           /\ result' = [r \in Rows |->
                result[r] + IF history[Moment][r] # 0 /\ Selects(slice, r, history[Moment][r]) THEN 1 ELSE 0]
  <2>1. CASE \E slice \in slices : ReadUnit(slice)
    BY <2>1 DEF ReadUnit, plan
  <2>2. CASE ~\E slice \in slices : ReadUnit(slice)
    BY <2>2 DEF Next, vars, Commit, Redefine, Change, BeginPlan, ReadScn, PlanUnits, NonHeapReason, DbaExtents, AllObjects,
       CreateTask, StatisticsFail, CreateTaskFails, DropTaskQuietly, OtherTask, ReadChunks, ReadChunksFails, PlanHash, PlanSnapshot, OracleError, ScanDone
  <2> QED BY <2>1, <2>2
<1>3. read' \subseteq slices'
  BY <1>0, <1>2, UnitsStep DEF scan
<1>4. result' \in [Rows -> Nat]
  BY <1>0, <1>2 DEF scan
<1> QED BY <1>1, <1>3, <1>4

(* Types are kept. *)
LEMMA TypeStep == IInv /\ [Next]_vars => TypeOK'
<1> SUFFICES ASSUME IInv, [Next]_vars PROVE TypeOK'
  OBVIOUS
<1>1. PlanType
  BY DEF IInv, TypeOK
<1>2. PlanType'
  <2>1. split' = split /\ snapshot' = snapshot /\ sessions' = sessions
    BY <1>1, ControlStep DEF options
  <2> QED BY <1>1, <2>1, ControlStep, SeenStep, ScanStep DEF PlanType, Rows, Parts, Objects, Slice, MaxChanges
<1> QED BY <1>2, OracleStep DEF TypeOK

(* What is due is in a segment that exists, as long as no snapshot was chosen. *)
LEMMA DueIsLive ==
  ASSUME OracleType, PlanType, PlaceInv, plan_scn = 0, NEW r \in Rows, NEW o, Due(r, o)
  PROVE  \E p \in Parts : object[p] = o
<1>1. Now \in ddl .. Now /\ Now \in 1 .. Now /\ (scn >= ddl => scn \in ddl .. Now)
  BY Bounds DEF OracleType, PlanType
<1>2. \E s \in ddl .. Now : history[s][r] = o /\ o # 0
  BY <1>1 DEF Due, Stable
<1> QED BY <1>2 DEF PlaceInv, Live

(* Nothing becomes due by a change of the table or a step of the plan. *)
LEMMA DueShrinks ==
  ASSUME IInv, [Next]_vars, pc' # "units", NEW r \in Rows, NEW o, Due(r, o)'
  PROVE  Due(r, o)
<1>0. /\ Now \in Nat /\ Now >= 1 /\ scn \in Nat /\ scn <= Now /\ ddl \in Nat /\ ddl <= Now /\ plan_scn \in {0, scn}
      /\ Now' \in Nat /\ ddl' \in Nat
  BY OracleStep, Bounds DEF IInv, TypeOK, OracleType, PlanType
<1>1. CASE Commit \/ Redefine
  <2>1. UNCHANGED <<scn, plan_scn>>
    BY <1>1 DEF Commit, Redefine, Change, plan
  <2>2. Now' = Now + 1 /\ (\A s \in 1 .. Now : history'[s] = history[s]) /\ ddl' >= ddl
    BY <1>0, <1>1, CommitFacts, RedefineFacts DEF IInv, TypeOK
  <2>3. Stable(r)' => Stable(r)
    BY <1>0, <2>2 DEF Stable
  <2> QED BY <1>0, <2>1, <2>2, <2>3 DEF Due
<1>2. CASE UNCHANGED oracle
  <2>1. \/ UNCHANGED <<scn, plan_scn>>
        \/ UNCHANGED scn /\ scn >= ddl
    BY <1>2 DEF Next, vars, Commit, Redefine, Change, BeginPlan, ReadScn, PlanUnits, NonHeapReason, DbaExtents, AllObjects,
       CreateTask, StatisticsFail, CreateTaskFails, DropTaskQuietly, OtherTask, ReadChunks, ReadChunksFails, PlanHash, PlanSnapshot, OracleError, ReadUnit, ScanDone,
       plan, PlanSingle, PlanRanges
  <2>2. Stable(r)' = Stable(r)
    BY <1>2 DEF Stable, Now, oracle
  <2> QED BY <1>2, <2>1, <2>2 DEF Due, oracle
<1> QED BY <1>1, <1>2, OnlyOthersWrite

(* What is due is found by the query, then by the units made from it. *)
LEMMA CoverStep == IInv /\ [Next]_vars => CoverInv'
<1> SUFFICES ASSUME IInv, [Next]_vars, NEW r \in Rows, NEW o \in Objects, Due(r, o)'
             PROVE  /\ pc' = "objects" => \E p \in seen' : object'[p] = o
                    /\ pc' = "chunks" => o \in seen'
                    /\ pc' \in {"snapshot", "read", "complete"} => Found(slices', r, o)
  BY DEF CoverInv, Rows, Objects, MaxChanges, Found
<1> DEFINE Goal == /\ pc' = "objects" => \E p \in seen' : object'[p] = o
                   /\ pc' = "chunks" => o \in seen'
                   /\ pc' \in {"snapshot", "read", "complete"} => Found(slices', r, o)
<1>0. /\ pc' # "units" => Due(r, o)
      /\ OracleType /\ PlanType /\ PlaceInv /\ r \in Nat /\ o \in Nat /\ r \in Rows
      /\ (pc \notin {"read", "complete", "failed"} => plan_scn = 0)
      /\ sessions \in Nat \ {0}
  BY DueShrinks, Bounds DEF IInv, TypeOK, CountInv, PlanType, Rows, Objects
<1>I. /\ pc = "objects" /\ Due(r, o) => \E p \in seen : object[p] = o
      /\ pc = "chunks" /\ Due(r, o) => o \in seen
      /\ pc \in {"snapshot", "read", "complete"} /\ Due(r, o) => Found(slices, r, o)
  BY DEF IInv, CoverInv
<1>S. slices' = {[kind |-> "none"]} => Found(slices', r, o)
  BY DEF Found, Selects
<1>1. ASSUME Commit PROVE Goal
  <2>1. UNCHANGED <<pc, seen, slices>>
    BY <1>1 DEF Commit, Change, plan
  <2>2. \A p \in Parts : object[p] # 0 => object'[p] = object[p]
    BY <1>0, <1>1, CommitFacts
  <2>3. pc = "objects" => seen \subseteq Parts
    BY <1>0 DEF PlanType
  <2>4. o # 0
    BY DEF Due
  <2> QED BY <1>0, <1>I, <2>1, <2>2, <2>3, <2>4
<1>2. ASSUME Redefine PROVE Goal
  <2>1. UNCHANGED <<pc, seen, slices, scn, plan_scn>>
    BY <1>2 DEF Redefine, Change, plan
  <2>2. /\ \A p \in Parts : object[p] # 0 /\ object'[p] # object[p] => history'[Now + 1][r] # object[p]
        /\ ddl' = Now + 1 /\ Now' = Now + 1
    BY <1>0, <1>2, RedefineFacts
  <2>3. pc = "objects" => seen \subseteq Parts
    BY <1>0 DEF PlanType
  <2>4. pc = "objects" => o = history'[Now + 1][r]
    <3>1. ASSUME pc = "objects" PROVE plan_scn' = 0 /\ ~(scn' >= ddl')
      BY <1>0, <2>1, <2>2, <3>1 DEF PlanType, OracleType
    <3>2. pc = "objects" => Stable(r)' /\ o = history'[1][r]
      BY <3>1 DEF Due
    <3>3. Now + 1 \in 1 .. Now'
      BY <1>0, <2>2, Bounds DEF OracleType
    <3> QED BY <3>2, <3>3 DEF Stable
  <2>5. o # 0
    BY DEF Due
  <2> QED BY <1>0, <1>I, <2>1, <2>2, <2>3, <2>4, <2>5
<1>3. ASSUME UNCHANGED vars PROVE Goal
  <2>1. UNCHANGED <<pc, seen, slices, object>>
    BY <1>3 DEF vars, oracle, plan
  <2> QED BY <1>0, <1>I, <2>1
<1>4. ASSUME BeginPlan \/ PlanHash PROVE Goal
  <2>1. pc' \notin {"objects", "chunks"}
    BY <1>4 DEF BeginPlan, PlanHash, AfterUnits
  <2>2. pc' \in {"snapshot", "read", "complete"} => slices' = {[kind |-> "none"]} \/ slices' = HashSlices
    BY <1>4 DEF BeginPlan, PlanHash, PlanSingle
  <2> QED BY <1>0, <1>S, <2>1, <2>2, HashFinds DEF Found
<1>5. ASSUME ReadScn \/ PlanUnits \/ NonHeapReason \/ StatisticsFail \/ CreateTaskFails \/ DropTaskQuietly \/ OtherTask \/ ReadChunksFails \/ OracleError PROVE Goal
  <2>1. pc' \in {"units", "failed", "heap", "hash", "extents", "task", "drop"}
    BY <1>5 DEF ReadScn, PlanUnits, NonHeapReason, StatisticsFail, CreateTaskFails, DropTaskQuietly, OtherTask, ReadChunksFails, OracleError, NoExtents
  <2> QED BY <2>1
<1>6. ASSUME DbaExtents PROVE Goal
  <2>1. PICK p \in Parts : object[p] = o
    BY <1>0, <1>6, DueIsLive DEF DbaExtents, AfterUnits
  <2>2. o # 0
    BY DEF Due
  <2>3. \/ seen' = {q \in Parts : object[q] # 0} /\ pc' = IF seen' = {} THEN AfterUnits ELSE "objects"
        \/ pc' = "task"
    BY <1>6 DEF DbaExtents
  <2>4. pc' = "objects" \/ pc' = "task"
    BY <2>1, <2>2, <2>3
  <2>5. UNCHANGED object
    BY <1>6 DEF DbaExtents, oracle
  <2> QED BY <2>1, <2>2, <2>3, <2>4, <2>5 DEF AfterUnits
<1>7. ASSUME AllObjects PROVE Goal
  <2>1. \/ pc' = "task"
        \/ pc' = AfterUnits /\ \E cut \in [{object[p] : p \in seen} -> Rows] : slices' = RangeSlices({object[p] : p \in seen}, cut)
    BY <1>7 DEF AllObjects, PlanRanges
  <2>2. pc' # "units" /\ pc' \notin {"objects", "chunks"} /\ pc = "objects"
    BY <1>7, <2>1 DEF AfterUnits, AllObjects
  <2>3. o \in {object[p] : p \in seen}
    BY <1>0, <1>I, <2>2
  <2>4. pc' # "task" => Found(slices', r, o)
    BY <1>0, <2>1, <2>3, RangeFinds DEF Found
  <2> QED BY <2>2, <2>4
<1>8. ASSUME CreateTask PROVE Goal
  <2>1. pc' = "chunks" /\ pc = "task" /\ seen' = Live(object)
    BY <1>8 DEF CreateTask
  <2>2. \E p \in Parts : object[p] = o
    BY <1>0, <2>1, DueIsLive
  <2>3. o # 0
    BY DEF Due
  <2> QED BY <2>1, <2>2, <2>3 DEF Live
<1>9. ASSUME ReadChunks PROVE Goal
  <2>1. pc' = AfterUnits /\ pc = "chunks" /\ \E cut \in [seen -> Rows] : slices' = RangeSlices(seen, cut)
    BY <1>9 DEF ReadChunks, PlanRanges
  <2>2. pc' \in {"read", "snapshot"}
    BY <2>1 DEF AfterUnits
  <2>3. o \in seen
    BY <1>0, <1>I, <2>1, <2>2
  <2>4. Found(slices', r, o)
    BY <1>0, <2>1, <2>3, RangeFinds DEF Found
  <2> QED BY <2>2, <2>4
<1>10. ASSUME PlanSnapshot \/ (\E slice \in slices : ReadUnit(slice)) \/ ScanDone PROVE Goal
  <2>1. pc \in {"snapshot", "read"} /\ pc' \in {"read", "failed", "complete"} /\ UNCHANGED slices
    BY <1>10 DEF PlanSnapshot, ReadUnit, ScanDone, plan, units
  <2> QED BY <1>0, <1>I, <2>1
<1> HIDE DEF Goal
<1>11. Goal
  BY <1>1, <1>2, <1>3, <1>4, <1>5, <1>6, <1>7, <1>8, <1>9, <1>10 DEF Next
<1> QED BY <1>11 DEF Goal

(* A unit adds one to the rows it selects, and no unit before it did. *)
LEMMA UnitCounts ==
  ASSUME IInv, NEW slice \in slices \ read, NEW r \in Rows, NEW o \in Objects,
         result[r] = IF Found(read, r, o) THEN 1 ELSE 0
  PROVE  result[r] + (IF o # 0 /\ Selects(slice, r, o) THEN 1 ELSE 0) = IF Found(read \cup {slice}, r, o) THEN 1 ELSE 0
<1>1. Selects(slice, r, o) => ~Found(read, r, o)
  <2> SUFFICES ASSUME NEW s \in read, Selects(slice, r, o), Selects(s, r, o) PROVE FALSE
    BY DEF Found
  <2>1. s \in slices
    BY DEF IInv, TypeOK, PlanType
  <2> QED BY <2>1 DEF IInv, ApartInv
<1>2. Found(read \cup {slice}, r, o) <=> Found(read, r, o) \/ Selects(slice, r, o)
  BY DEF Found
<1>3. o # 0
  BY Bounds DEF Objects
<1> QED BY <1>1, <1>2, <1>3

(* Nobody reads before the plan is made, and ScanDone when all was read. *)
LEMMA PhaseStep ==
  ASSUME IInv, [Next]_vars
  PROVE  /\ pc' \notin {"read", "complete", "failed"} => plan_scn' = 0 /\ read' = {} /\ result' = [r \in Rows |-> 0]
         /\ pc' = "complete" => read' = slices'
<1>0. /\ pc \notin {"read", "complete", "failed"} => plan_scn = 0 /\ read = {} /\ result = [r \in Rows |-> 0]
      /\ pc = "complete" => read = slices
  BY DEF IInv, CountInv
<1> USE DEF plan, scan, units
<1>1. CASE Commit \/ Redefine \/ UNCHANGED vars
  BY <1>0, <1>1 DEF Commit, Redefine, Change, Ended, vars
<1>2. CASE BeginPlan \/ ReadScn \/ PlanUnits \/ NonHeapReason
  BY <1>0, <1>2 DEF BeginPlan, ReadScn, PlanUnits, NonHeapReason, NoExtents, PlanSingle
<1>3. CASE DbaExtents \/ AllObjects \/ CreateTask
  BY <1>0, <1>3 DEF DbaExtents, AllObjects, CreateTask, AfterUnits, PlanRanges
<1>4. CASE StatisticsFail \/ CreateTaskFails \/ DropTaskQuietly \/ OtherTask \/ ReadChunks \/ ReadChunksFails \/ PlanHash
  BY <1>0, <1>4 DEF StatisticsFail, CreateTaskFails, DropTaskQuietly, OtherTask, ReadChunks, ReadChunksFails, PlanHash, NoExtents, AfterUnits, PlanRanges, PlanSingle
<1>5. CASE PlanSnapshot \/ OracleError \/ (\E slice \in slices : ReadUnit(slice)) \/ ScanDone
  BY <1>0, <1>5 DEF PlanSnapshot, OracleError, ReadUnit, ScanDone
<1> QED BY <1>1, <1>2, <1>3, <1>4, <1>5 DEF Next

(* Each row that is due is counted when its unit ran, and once. *)
LEMMA CountStep == IInv /\ [Next]_vars => CountInv'
<1> SUFFICES ASSUME IInv, [Next]_vars, NEW r \in Rows
             PROVE  /\ Stable(r)' => result'[r] = IF Found(read', r, history'[1][r]) THEN 1 ELSE 0
                    /\ plan_scn' # 0 => result'[r] = IF history'[scn'][r] # 0 /\ Found(read', r, history'[scn'][r]) THEN 1 ELSE 0
  BY PhaseStep DEF CountInv, Rows
<1>0. /\ Stable(r) => result[r] = IF Found(read, r, history[1][r]) THEN 1 ELSE 0
      /\ plan_scn # 0 => result[r] = IF history[scn][r] # 0 /\ Found(read, r, history[scn][r]) THEN 1 ELSE 0
      /\ Now \in Nat /\ Now >= 1 /\ scn \in Nat /\ scn <= Now /\ plan_scn \in {0, scn} /\ ddl \in Nat
  BY Bounds DEF IInv, TypeOK, OracleType, PlanType, CountInv
<1>1. \A s \in 1 .. Now : history[s][r] \in 0 .. MaxPart + MaxChanges
  BY DEF IInv, TypeOK, OracleType, Now, Placements
<1>2. ASSUME Commit \/ Redefine
      PROVE /\ UNCHANGED <<scn, plan_scn, read, result>>
            /\ history'[1] = history[1]
            /\ history'[scn][r] = history[scn][r] \/ scn = 0
            /\ Stable(r)' => Stable(r)
  <2>1. UNCHANGED <<scn, plan_scn, read, result>>
    BY <1>2 DEF Commit, Redefine, Change, plan, scan
  <2>2. Now' = Now + 1 /\ (\A s \in 1 .. Now : history'[s] = history[s])
    BY <1>2, CommitFacts, RedefineFacts DEF IInv, TypeOK
  <2> QED BY <1>0, <2>1, <2>2 DEF Stable
<1>3. CASE Commit \/ Redefine
  <2>1. history'[1] = history[1]
    BY <1>0, <1>3, CommitFacts, RedefineFacts DEF IInv, TypeOK
  <2>2. plan_scn # 0 => scn # 0
    BY <1>0
  <2> QED BY <1>0, <1>2, <1>3, <2>1, <2>2
<1>4. CASE \E slice \in slices : ReadUnit(slice)
  <2>1. PICK slice \in slices : ReadUnit(slice)
    BY <1>4
  <2>2. /\ slice \in slices \ read /\ read' = read \cup {slice} /\ UNCHANGED <<history, scn, plan_scn>>
        /\ result'[r] = result[r] + IF history[Moment][r] # 0 /\ Selects(slice, r, history[Moment][r]) THEN 1 ELSE 0
    BY <2>1 DEF ReadUnit, plan, oracle
  <2>3. Moment \in 1 .. Now
    BY <1>0 DEF Moment
  <2>4. Stable(r)' => result'[r] = IF Found(read', r, history'[1][r]) THEN 1 ELSE 0
    <3> SUFFICES ASSUME Stable(r) PROVE result'[r] = IF Found(read', r, history'[1][r]) THEN 1 ELSE 0
      BY <2>2 DEF Stable, Now
    <3>1. history[Moment][r] = history[1][r] /\ history[1][r] # 0
      BY <2>3 DEF Stable
    <3>2. history[1][r] \in Objects
      BY <1>0, <1>1, <3>1, Bounds DEF Objects
    <3> QED BY <1>0, <2>2, <3>1, <3>2, UnitCounts
  <2>5. plan_scn' # 0 => result'[r] = IF history'[scn'][r] # 0 /\ Found(read', r, history'[scn'][r]) THEN 1 ELSE 0
    <3> SUFFICES ASSUME plan_scn # 0
                 PROVE result'[r] = IF history[scn][r] # 0 /\ Found(read', r, history[scn][r]) THEN 1 ELSE 0
      BY <2>2
    <3>1. Moment = scn /\ scn \in 1 .. Now
      BY <1>0 DEF Moment
    <3>2. CASE history[scn][r] = 0
      BY <1>0, <2>2, <3>1, <3>2
    <3>3. CASE history[scn][r] # 0
      <4>1. history[scn][r] \in Objects
        BY <1>0, <1>1, <3>1, <3>3, Bounds DEF Objects
      <4> QED BY <1>0, <2>2, <3>1, <3>3, <4>1, UnitCounts
    <3> QED BY <3>2, <3>3
  <2> QED BY <2>4, <2>5
<1>5. CASE PlanSnapshot
  <2>1. /\ UNCHANGED <<history, read, result>> /\ read = {} /\ result = [x \in Rows |-> 0]
    BY <1>5 DEF PlanSnapshot, oracle, scan, IInv, CountInv
  <2>2. \A o : ~Found(read, r, o)
    BY <2>1 DEF Found
  <2> QED BY <2>1, <2>2
<1>6. CASE ReadScn
  <2>1. UNCHANGED <<history, read, result, plan_scn>> /\ plan_scn = 0
    BY <1>6 DEF ReadScn, oracle, scan, plan, IInv, CountInv
  <2> QED BY <1>0, <2>1 DEF Stable, Now
<1>7. ASSUME ~Commit, ~Redefine, ~ReadScn, ~PlanSnapshot, ~\E slice \in slices : ReadUnit(slice)
      PROVE UNCHANGED <<history, scn, plan_scn, read, result>>
  <2> USE DEF oracle, plan, scan
  <2>1. CASE BeginPlan \/ PlanUnits \/ NonHeapReason \/ UNCHANGED vars \/ OracleError \/ ScanDone
    BY <2>1 DEF BeginPlan, PlanUnits, NonHeapReason, PlanSingle, vars, OracleError, ScanDone
  <2>2. CASE DbaExtents \/ AllObjects \/ CreateTask
    BY <2>2 DEF DbaExtents, AllObjects, CreateTask, PlanRanges
  <2>3. CASE StatisticsFail \/ CreateTaskFails \/ DropTaskQuietly \/ OtherTask \/ ReadChunks \/ ReadChunksFails \/ PlanHash
    BY <2>3 DEF StatisticsFail, CreateTaskFails, DropTaskQuietly, OtherTask, ReadChunks, ReadChunksFails, PlanHash, PlanRanges, PlanSingle
  <2> QED BY <1>7, <2>1, <2>2, <2>3 DEF Next
<1>8. CASE UNCHANGED <<history, scn, plan_scn, read, result>>
  BY <1>0, <1>8 DEF Stable, Now
<1> QED BY <1>3, <1>4, <1>5, <1>6, <1>7, <1>8

(* A forced option decides the way, and the plan that comes out of it. *)
LEMMA OptionStep == IInv /\ [Next]_vars => OptionInv' /\ ForcedOptionsHold'
<1> SUFFICES ASSUME IInv, [Next]_vars PROVE OptionInv' /\ ForcedOptionsHold'
  OBVIOUS
<1>0. /\ OptionInv /\ ForcedOptionsHold
      /\ split \in {"auto", "extents", "hash", "none"} /\ snapshot \in {"auto", "scn", "none"} /\ sessions \in Nat
      /\ plan_scn = scn \/ plan_scn = 0
  BY Bounds DEF IInv, TypeOK, PlanType
<1>S. ASSUME slices' = {[kind |-> "none"]} PROVE ~Several'
  <2>1. Cardinality({[kind |-> "none"]}) = 1
    BY FS_Singleton
  <2> QED BY <1>S, <2>1 DEF Several
<1> USE DEF options, plan, units
<1>1. CASE BeginPlan
  <2>1. /\ UNCHANGED options
        /\ \/ (sessions <= 1 \/ split = "none") /\ pc' = "read" /\ slices' = {[kind |-> "none"]}
           \/ sessions > 1 /\ split # "none" /\ pc' \in {"scn", "units"}
    BY <1>0, <1>1 DEF BeginPlan, PlanSingle
  <2> QED BY <1>0, <1>S, <2>1 DEF OptionInv, ForcedOptionsHold
<1>2. CASE Commit \/ Redefine \/ UNCHANGED vars \/ OracleError \/ ScanDone \/ \E slice \in slices : ReadUnit(slice)
  <2>1. UNCHANGED <<split, snapshot, sessions, strategy, slices, plan_scn, noted>>
        /\ (UNCHANGED pc \/ pc' = "failed" \/ (pc = "read" /\ pc' = "complete"))
    BY <1>2 DEF Commit, Redefine, Change, vars, OracleError, ScanDone, ReadUnit
  <2>2. Several' = Several
    BY <2>1 DEF Several
  <2> QED BY <1>0, <2>1, <2>2 DEF OptionInv, ForcedOptionsHold
<1>3. CASE ReadScn \/ PlanUnits \/ NonHeapReason \/ CreateTask \/ StatisticsFail \/ CreateTaskFails \/ DropTaskQuietly \/ OtherTask \/ ReadChunksFails
  BY <1>0, <1>3 DEF ReadScn, PlanUnits, NonHeapReason, CreateTask, StatisticsFail, CreateTaskFails, DropTaskQuietly, OtherTask, ReadChunksFails, NoExtents, OptionInv, ForcedOptionsHold
<1>4. CASE DbaExtents \/ AllObjects \/ ReadChunks
  BY <1>0, <1>4 DEF DbaExtents, AllObjects, ReadChunks, AfterUnits, PlanRanges, OptionInv, ForcedOptionsHold
<1>5. CASE PlanHash
  BY <1>0, <1>5 DEF PlanHash, AfterUnits, PlanSingle, OptionInv, ForcedOptionsHold
<1>6. CASE PlanSnapshot
  BY <1>0, <1>6 DEF PlanSnapshot, SnapshotScn, OptionInv, ForcedOptionsHold, Several
<1> QED BY <1>1, <1>2, <1>3, <1>4, <1>5, <1>6 DEF Next

(* The task is ours between its creation and the drop, unless that failed. *)
LEMMA TaskStep == IInv /\ [Next]_vars => TaskIsDropped'
<1> SUFFICES ASSUME TaskIsDropped, [Next]_vars, task' = "ours" PROVE pc' \in {"chunks", "drop"} \/ drop_failed'
  BY DEF TaskIsDropped, IInv
<1>1. CASE CreateTask
  BY <1>1 DEF CreateTask
<1>2. CASE DropTaskQuietly \/ ReadChunks
  BY <1>2 DEF DropTaskQuietly, ReadChunks, DropTask
<1>5. CASE StatisticsFail \/ OtherTask
  <2>1. UNCHANGED drop_failed /\ ((task' = task /\ pc = "task") \/ task' \in {"theirs", "absent"})
    BY <1>5 DEF StatisticsFail, OtherTask
  <2> QED BY <2>1 DEF TaskIsDropped
<1>6. CASE CreateTaskFails \/ ReadChunksFails
  <2>1. pc' = "drop" \/ (task = "theirs" /\ UNCHANGED task)
    BY <1>6 DEF CreateTaskFails, ReadChunksFails
  <2> QED BY <2>1
<1>3. CASE Commit \/ Redefine \/ UNCHANGED vars
  BY <1>3 DEF Commit, Redefine, Change, vars, TaskIsDropped
<1>4. CASE \/ BeginPlan \/ ReadScn \/ PlanUnits \/ NonHeapReason \/ DbaExtents \/ AllObjects
           \/ PlanHash \/ PlanSnapshot \/ OracleError \/ (\E slice \in slices : ReadUnit(slice)) \/ ScanDone
  <2>1. UNCHANGED <<task, drop_failed>> /\ pc \notin {"chunks", "drop"}
    BY <1>4 DEF BeginPlan, ReadScn, PlanUnits, NonHeapReason, DbaExtents, AllObjects, PlanHash, PlanSnapshot, OracleError,
       ReadUnit, ScanDone
  <2> QED BY <2>1 DEF TaskIsDropped
<1> QED BY <1>1, <1>2, <1>3, <1>4, <1>5, <1>6 DEF Next

(* The task whose chunks are read is the one the planner created. *)
LEMMA OursStep == IInv /\ [Next]_vars => OursInv'
<1> SUFFICES ASSUME OursInv, [Next]_vars
             PROVE  (pc' = "chunks" => task' = "ours") /\ (pc' = "drop" => error' \in {"oracle", "other"})
  BY DEF IInv, OursInv
<1>1. CASE CreateTask \/ Commit \/ Redefine \/ UNCHANGED vars
  BY <1>1 DEF CreateTask, Commit, Redefine, Change, vars, OursInv
<1>2. CASE CreateTaskFails \/ ReadChunksFails
  BY <1>2 DEF CreateTaskFails, ReadChunksFails, NoExtents
<1>5. CASE StatisticsFail \/ DropTaskQuietly \/ ReadChunks \/ PlanHash \/ DbaExtents \/ AllObjects
  <2>1. pc' \notin {"chunks", "drop"}
    BY <1>5 DEF StatisticsFail, DropTaskQuietly, ReadChunks, PlanHash, DbaExtents, AllObjects, NoExtents, AfterUnits
  <2> QED BY <2>1
<1>6. CASE OtherTask
  BY <1>6 DEF OtherTask, OursInv
<1>3. CASE BeginPlan \/ ReadScn \/ PlanUnits \/ NonHeapReason \/ PlanSnapshot \/ OracleError \/ ScanDone
  BY <1>3 DEF BeginPlan, ReadScn, PlanUnits, NonHeapReason, NoExtents, PlanSnapshot, OracleError, ScanDone
<1>4. CASE \E slice \in slices : ReadUnit(slice)
  BY <1>4 DEF ReadUnit
<1> QED BY <1>1, <1>2, <1>3, <1>4, <1>5, <1>6 DEF Next

(* A scan starts in a state of the invariant. *)
LEMMA InitIInv == Init => IInv
<1> SUFFICES ASSUME Init PROVE IInv
  OBVIOUS
<1>1. PICK segments \in SUBSET Parts : object = [p \in Parts |-> IF p \in segments THEN p ELSE 0]
  BY DEF Init
<1>2. PICK h \in [Rows -> Live(object) \cup {0}] : history = <<h>>
  BY DEF Init
<1>3. objects = MaxPart /\ ddl = 1 /\ object \in [Parts -> 0 .. objects]
  BY <1>1, Bounds DEF Init, Parts
<1>4. h \in Placements
  <2>1. Live(object) \cup {0} \subseteq 0 .. MaxPart + MaxChanges
    BY <1>3, Bounds DEF Live
  <2> QED BY <2>1 DEF Placements
<1>5. history \in Seq(Placements) /\ Now = 1 /\ history[1] = h
  BY <1>2, <1>4 DEF Now
<1>6. OracleType
  BY <1>3, <1>5, Bounds DEF OracleType, Init, Redefined
<1>7. PlaceInv
  BY <1>2, <1>3, <1>5 DEF PlaceInv
<1>8. noted \in BOOLEAN /\ drop_failed \in BOOLEAN
  BY Zenon DEF Init
<1>9. /\ split \in {"auto", "extents", "hash", "none"} /\ snapshot \in {"auto", "scn", "none"}
      /\ sessions \in 1 .. MaxSessions /\ pc = "begin" /\ scn = 0 /\ plan_scn = 0 /\ strategy = "none"
      /\ slices = {} /\ read = {} /\ result = [r \in Rows |-> 0] /\ task # "ours"
      /\ error = "none"
  BY DEF Init
<1>10. PlanType
  BY <1>5, <1>8, <1>9 DEF PlanType
<1>11. CoverInv /\ ApartInv /\ OptionInv /\ ForcedOptionsHold /\ TaskIsDropped /\ OursInv
  BY <1>9 DEF CoverInv, ApartInv, OptionInv, ForcedOptionsHold, TaskIsDropped, OursInv
<1>12. CountInv
  BY <1>9 DEF CountInv, Found
<1> QED BY <1>6, <1>7, <1>10, <1>11, <1>12 DEF IInv, TypeOK

(* The invariant holds while a scan is planned and read, whatever the other    *)
(* sessions do, for every number of partitions, rows, sessions and commits.   *)
THEOREM PlanInvariant == Spec => []IInv
<1>1. IInv /\ [Next]_vars => IInv'
  BY TypeStep, OracleStep, CoverStep, ApartStep, CountStep, OptionStep, TaskStep, OursStep DEF IInv
<1> QED BY InitIInv, <1>1, PTL DEF Spec

(* Types. *)
THEOREM PlanTypeCorrect == Spec => []TypeOK
<1>1. IInv => TypeOK
  BY DEF IInv
<1> QED BY PlanInvariant, <1>1, PTL

(* A scan with a snapshot returns the table of its SCN, each row once, although *)
(* the units were made from extents read after it (PlanWork, PlanSnapshot).   *)
THEOREM SnapshotsAreExact == Spec => []SnapshotIsExact
<1>1. ASSUME IInv PROVE SnapshotIsExact
  <2>0. TypeOK /\ OracleType /\ PlanType /\ CoverInv /\ CountInv
    BY <1>1 DEF IInv, TypeOK
  <2> SUFFICES ASSUME pc = "complete", plan_scn # 0 PROVE Reads(Content(plan_scn))
    BY DEF SnapshotIsExact
  <2>1. plan_scn = scn /\ scn \in 1 .. Now /\ read = slices /\ result \in [Rows -> Nat]
    BY <2>0, Bounds DEF PlanType, OracleType, CountInv
  <2>2. ASSUME NEW r \in Rows PROVE result[r] = IF history[scn][r] # 0 THEN 1 ELSE 0
    <3>1. result[r] = IF history[scn][r] # 0 /\ Found(slices, r, history[scn][r]) THEN 1 ELSE 0
      BY <2>0, <2>1, <2>2 DEF CountInv
    <3>2. history[scn][r] \in 0 .. MaxPart + MaxChanges
      BY <2>0, <2>1 DEF OracleType, Placements, Now
    <3>3. ASSUME history[scn][r] # 0 PROVE Found(slices, r, history[scn][r])
      <4>1. history[scn][r] \in Objects /\ scn # 0
        BY <2>1, <3>2, <3>3, Bounds DEF Objects
      <4>2. Due(r, history[scn][r])
        BY <4>1, <3>3 DEF Due
      <4> QED BY <2>0, <2>2, <4>1, <4>2 DEF CoverInv
    <3> QED BY <3>1, <3>3
  <2>3. \A r \in Rows : r \in Content(plan_scn) <=> history[scn][r] # 0
    BY <2>1 DEF Content
  <2> QED BY <2>1, <2>2, <2>3 DEF Reads
<1> QED BY PlanInvariant, <1>1, PTL

(* With or without a snapshot, a row that stayed where it was is read exactly  *)
(* once: no gap and no overlap between the units, whichever way they were made. *)
THEOREM StableRowsAreReadOnce == Spec => []StableRowsOnce
<1>1. ASSUME IInv PROVE StableRowsOnce
  <2>0. TypeOK /\ OracleType /\ PlanType /\ CoverInv /\ CountInv
    BY <1>1 DEF IInv, TypeOK
  <2> SUFFICES ASSUME pc = "complete", NEW r \in Rows, Stable(r) PROVE result[r] = 1
    BY DEF StableRowsOnce, Stable
  <2>1. history[1][r] \in 0 .. MaxPart + MaxChanges /\ history[1][r] # 0
    BY <2>0, Bounds DEF OracleType, Placements, Now, Stable
  <2>2. history[1][r] \in Objects
    BY <2>1, Bounds DEF Objects
  <2>3. Due(r, history[1][r])
    BY <2>1 DEF Due
  <2>4. Found(slices, r, history[1][r])
    BY <2>0, <2>2, <2>3 DEF CoverInv
  <2> QED BY <2>0, <2>4 DEF CountInv
<1> QED BY PlanInvariant, <1>1, PTL

(* A forced split is the split of the plan or the planning fails; several     *)
(* units without a snapshot were asked for or are noted.                      *)
THEOREM ForcedOptionsAreMet == Spec => []ForcedOptionsHold
<1>1. IInv => ForcedOptionsHold
  BY DEF IInv
<1> QED BY PlanInvariant, <1>1, PTL

(* The planner's DBMS_PARALLEL_EXECUTE task outlives the planning only when   *)
(* dropping it failed.                                                        *)
THEOREM NoTaskIsLeft == Spec => []TaskIsDropped
<1>1. IInv => TaskIsDropped
  BY DEF IInv
<1> QED BY PlanInvariant, <1>1, PTL

(* Another session's task of the same name is dropped by the planner only     *)
(* after an error other than ORA-29497 (SlicesFromParallelExecute,            *)
(* DropTaskQuietly): the chunks come from a task of its own.                  *)
THEOREM OthersTasksStay == Spec => TheirTaskStays
<1>1. ASSUME IInv, [Next]_vars, task = "theirs", task' # "theirs" PROVE UNCHANGED pc \/ error \in {"oracle", "other"}
  <2>1. CASE CreateTask \/ StatisticsFail \/ CreateTaskFails \/ ReadChunks \/ ReadChunksFails
    BY <1>1, <2>1 DEF CreateTask, StatisticsFail, CreateTaskFails, ReadChunks, ReadChunksFails, IInv, OursInv
  <2>2. CASE DropTaskQuietly \/ OtherTask
    BY <1>1, <2>2 DEF DropTaskQuietly, OtherTask, IInv, OursInv
  <2>3. CASE Commit \/ Redefine \/ UNCHANGED vars \/ BeginPlan \/ ReadScn \/ PlanUnits \/ NonHeapReason \/ DbaExtents \/ AllObjects
    BY <1>1, <2>3 DEF Commit, Redefine, Change, BeginPlan, ReadScn, PlanUnits, NonHeapReason, DbaExtents, AllObjects, vars
  <2>4. CASE PlanHash \/ PlanSnapshot \/ OracleError \/ (\E slice \in slices : ReadUnit(slice)) \/ ScanDone
    BY <1>1, <2>4 DEF PlanHash, PlanSnapshot, OracleError, ReadUnit, ScanDone
  <2> QED BY <1>1, <2>1, <2>2, <2>3, <2>4 DEF Next
<1> QED BY PlanInvariant, <1>1, PTL DEF Spec, TheirTaskStays
=============================================================================
