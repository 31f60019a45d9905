------------------------------- MODULE Transfer -------------------------------
(***************************************************************************)
(* One query over an Oracle table, and COPY of its result into another: the *)
(* scan is bound to a description of the source, COPY to one of the target, *)
(* the optimizer pushes filters down, and only then statements are built    *)
(* and run and rows loaded, while other sessions alter both tables.         *)
(*                                                                         *)
(* A column is [name, family, nullable]; a value is known by the column of  *)
(* the source it was read from.                                             *)
(***************************************************************************)
EXTENDS StatementText

CONSTANTS
  Tables,   \* the column lists a table may have; <<>>: no such table
  Queries,  \* [select : columns by position, filters, copy, skip_index_maintenance]
  Plans,    \* what PlanWork may answer: [scn, slices]
  Null,     \* the value of an output that is no Oracle column
  MaxDdl    \* bound: changes of the two tables

(* The tokens of an Oracle name: no double quote among them. *)
IsSpelling(tokens) == tokens \in Seq(Range(tokens)) /\ Range(tokens) \cap {Double, <<>>} = {}

(* A comparison with a column, by position, and the constants its operator takes. *)
IsComparison(leaf) ==
  /\ DOMAIN leaf = {"op", "column", "binds"}
  /\ leaf.binds \in Seq(Range(leaf.binds))
  /\ \/ leaf.op \in {"eq", "ts"} /\ Len(leaf.binds) = 1
     \/ leaf.op = "date" /\ Len(leaf.binds) = 2
     \/ leaf.op = "null" /\ leaf.binds = <<>>
     \/ leaf.op = "in"

(* A table has each column name once. *)
ASSUME TransferAssumption ==
  /\ \A t \in Tables :
       /\ t \in Seq(Range(t))
       /\ \A i \in DOMAIN t : t[i].name[3] \in Seq(Nat) /\ IsSpelling(Spelling(t[i].name)) /\ t[i].nullable \in BOOLEAN
       /\ \A i, j \in DOMAIN t : t[i].name = t[j].name => i = j
  /\ \A q \in Queries :
       /\ q.select \in Seq(Nat \ {0}) /\ q.copy \in BOOLEAN /\ q.skip_index_maintenance \in BOOLEAN
       /\ q.filters \in Seq(Range(q.filters))
       /\ \A filter \in Range(q.filters) :
            filter \in Seq(Range(filter)) /\ \A leaf \in Range(filter) : IsComparison(leaf)
  /\ \A work \in Plans :
       work.slices \in Seq(Range(work.slices)) /\ \A slice \in Range(work.slices) : slice.kind \in {"none", "range", "hash"}
  /\ MaxDdl \in Nat

VARIABLES
  source, target, indexes,  \* the tables in Oracle now, and whether the target has an index
  ddl,                      \* changes so far
  query, pc,
  described, names,         \* bind data of the scan: source.columns, and the names DuckDB shows
  table,                    \* bind data of COPY: table.columns
  plan,                     \* bind data of COPY: per query column, its column of table
  input,                    \* global state of the scan: its ScanSqlInput
  slices, outputs,          \* global state of the scan: the work plan, and per output its fetched column
  unit, cursor, chunk,      \* local state of the scan: the unit, its cursor's text and binds, a row
  writer, loaded            \* the loader is open; what was loaded, [from, to]

oracle == <<source, target, indexes, ddl>>
bound  == <<described, names, table, plan>>
global == <<input, slices, outputs>>
local  == <<unit, cursor, chunk>>
load   == <<writer, loaded>>
vars   == <<oracle, query, pc, bound, global, local, load>>

NoInput == [columns |-> <<>>, filters |-> <<>>, snapshot_scn |-> NoScn]
NoStatement == [sql |-> <<>>, binds |-> <<>>]

Init ==
  /\ source \in Tables \ {<<>>} /\ target \in Tables /\ indexes \in BOOLEAN /\ ddl = 0
  /\ query \in Queries /\ pc = "describe"
  /\ ~query.copy => target = <<>> /\ ~indexes
  /\ described = <<>> /\ names = <<>> /\ table = <<>> /\ plan = <<>>
  /\ input = NoInput /\ slices = <<>> /\ outputs = <<>>
  /\ unit = 0 /\ cursor = NoStatement /\ chunk = <<>>
  /\ writer = FALSE /\ loaded = {}

(* Other sessions alter a table, or create or drop its indexes. *)
Ddl ==
  /\ ddl < MaxDdl /\ pc \notin {"end", "error"}
  /\ ddl' = ddl + 1
  /\ \/ source' \in Tables \ {source} /\ UNCHANGED <<target, indexes>>
     \/ query.copy /\ target' \in Tables \ {target} /\ UNCHANGED <<source, indexes>>
     \/ query.copy /\ indexes' = ~indexes /\ UNCHANGED <<source, target>>
  /\ UNCHANGED <<query, pc, bound, global, local, load>>

Throws == pc' = "error" /\ UNCHANGED <<oracle, query, bound, global, local, load>>

-----------------------------------------------------------------------------
ComparedColumns(q) == {leaf.column : leaf \in UNION {Range(filter) : filter \in Range(q.filters)}}

(* The scan's description of the source, at its bind or earlier, from the     *)
(* catalog's entry.  A query refers to columns the description has.           *)
DescribeSource ==
  /\ pc = "describe"
  /\ Range(query.select) \cup ComparedColumns(query) \subseteq DOMAIN source
  /\ described' = source
  /\ pc' = "bind"
  /\ UNCHANGED <<oracle, query, names, table, plan, global, local, load>>

(* BindOraduckScan. *)
BindScan ==
  /\ pc = "bind"
  /\ IF described = <<>> THEN Throws
     ELSE /\ names' = DuckColumnNames(described)
          /\ pc' = IF query.copy THEN "copy" ELSE "optimize"
          /\ UNCHANGED <<oracle, query, described, table, plan, global, local, load>>

(* OraduckBind's first checks (the connection, stream_size, a file of that    *)
(* name) may throw; then DescribeTarget reads the columns ...                 *)
DescribeTarget ==
  /\ pc = "copy"
  /\ \/ Throws
     \/ /\ target # <<>>
        /\ table' = target
        /\ pc' = "indexes"
        /\ UNCHANGED <<oracle, query, described, names, plan, global, local, load>>

Columns(of, ids) == [i \in DOMAIN ids |-> of[ids[i]]]
Families(columns) == [i \in DOMAIN columns |-> columns[i].family]

(* ... and counts the indexes, in another query; BuildColumnPlan.             *)
BindCopy ==
  /\ pc = "indexes"
  /\ LET built == BuildColumnPlan(Columns(names, query.select), Families(Columns(described, query.select)), table)
     IN IF (indexes /\ ~query.skip_index_maintenance) \/ built = NoPlan THEN Throws
        ELSE /\ plan' = built
             /\ pc' = "optimize"
             /\ UNCHANGED <<oracle, query, described, names, table, global, local, load>>

(* Filters that were not pushed stay with DuckDB. *)
NamedLeaf(leaf) == [leaf EXCEPT !.column = described[leaf.column].name]
Translated(filter) == TranslateFilter([i \in DOMAIN filter |-> NamedLeaf(filter[i])])

PushFilters ==
  /\ pc = "optimize"
  /\ \E pushed \in {query.filters, <<>>} :
       input' = [NoInput EXCEPT !.filters = [i \in DOMAIN pushed |-> Translated(pushed[i])]]
  /\ pc' = "init"
  /\ UNCHANGED <<oracle, query, bound, slices, outputs, local, load>>

-----------------------------------------------------------------------------
(* OraduckScanInitGlobal.  DuckDB asks for the selected columns, or for the   *)
(* empty column, an id beyond the columns, when there is none (count( * )).   *)
Ids == IF query.select = <<>> THEN <<Len(described) + 1>> ELSE query.select
IsOracleColumn(id) == id \in DOMAIN described

(* The fetched columns, each once, in the order they are first asked for. *)
FirstAsked == {i \in DOMAIN Ids : IsOracleColumn(Ids[i]) /\ \A j \in 1 .. i - 1 : Ids[j] # Ids[i]}
AskedUpTo(i) == {j \in FirstAsked : j <= i}
Projected == [k \in 1 .. Cardinality(FirstAsked) |->
               Ids[CHOOSE i \in FirstAsked : Cardinality(AskedUpTo(i)) = k]]

Fetched   == [k \in DOMAIN Projected |-> described[Projected[k]].name]

(* Where each output is among the fetched columns. *)
Outputs == [i \in DOMAIN Ids |->
  IF IsOracleColumn(Ids[i]) THEN CHOOSE k \in DOMAIN Projected : Projected[k] = Ids[i] ELSE 0]

(* An unsupported type, logon or PlanWork throws. *)
InitGlobal ==
  /\ pc = "init"
  /\ \/ Throws
     \/ /\ \A id \in Range(Projected) : described[id].family # "unsupported"
        /\ outputs' = Outputs
        /\ \E work \in Plans :
             /\ slices' = work.slices
             /\ input' = [columns |-> Fetched, filters |-> input.filters, snapshot_scn |-> work.scn]
        /\ pc' = "next"
        /\ UNCHANGED <<oracle, query, bound, local, load>>

(* Names a text refers to. *)
Referred == Range(input.columns) \cup
  UNION {{described[leaf.column].name : leaf \in Range(query.filters[i])} : i \in DOMAIN input.filters}

(* NextBatch takes a unit and runs its statement, on the cursor at hand when  *)
(* it has the text: the binds are replaced, the text is not.  Oracle          *)
(* (external) refuses a text with a column the source has no more.            *)
Run(statement) ==
  IF cursor.sql = statement.sql THEN [cursor EXCEPT !.binds = statement.binds] ELSE statement

NextUnit ==
  /\ pc = "next"
  /\ IF unit = Len(slices) THEN pc' = "end" /\ UNCHANGED <<unit, cursor>>
     ELSE /\ unit' = unit + 1
          /\ cursor' = Run(BuildScanSql(input, slices[unit + 1]))
          /\ pc' = IF source # <<>> /\ Referred \subseteq Names(source) THEN "fetch" ELSE "error"
  /\ UNCHANGED <<oracle, query, bound, global, chunk, load>>

(* A row: the k-th column fetched is the k-th of the select list.             *)
Fetch ==
  /\ pc = "fetch"
  /\ chunk' = [i \in DOMAIN outputs |-> IF outputs[i] = 0 THEN Null ELSE input.columns[outputs[i]]]
  /\ pc' = IF query.copy THEN "load" ELSE "next"
  /\ UNCHANGED <<oracle, query, bound, global, unit, cursor, load>>

(* Oracle (external) refuses columns the target does not have, and indexes    *)
(* that are not skipped.                                                      *)
OracleAccepts ==
  /\ {table[plan[i]].name : i \in DOMAIN plan} \subseteq Names(target)
  /\ ~indexes \/ query.skip_index_maintenance

(* OpenWriter: the loader is prepared by column names. *)
OpenWriter ==
  /\ pc = "load" /\ ~writer
  /\ IF OracleAccepts THEN writer' = TRUE /\ UNCHANGED pc ELSE pc' = "error" /\ UNCHANGED writer
  /\ UNCHANGED <<oracle, query, bound, global, local, loaded>>

(* WriteChunk: plan[i] takes the i-th column of the query. *)
WriteChunk ==
  /\ pc = "load" /\ writer
  /\ loaded' = loaded \cup {[from |-> chunk[i], to |-> table[plan[i]].name] : i \in DOMAIN plan}
  /\ pc' = "next"
  /\ UNCHANGED <<oracle, query, bound, global, local, writer>>

Next ==
  \/ Ddl
  \/ DescribeSource \/ BindScan \/ DescribeTarget \/ BindCopy \/ PushFilters
  \/ InitGlobal \/ NextUnit \/ Fetch \/ OpenWriter \/ WriteChunk

Spec == Init /\ [][Next]_vars

-----------------------------------------------------------------------------
TypeOK ==
  /\ source \in Tables /\ target \in Tables
  /\ described \in Tables \cup {<<>>} /\ table \in Tables \cup {<<>>} /\ query \in Queries
  /\ indexes \in BOOLEAN /\ writer \in BOOLEAN
  /\ slices \in {<<>>} \cup {work.slices : work \in Plans}
  /\ ddl \in 0 .. MaxDdl /\ unit \in 0 .. Len(slices)
  /\ pc \in {"describe", "bind", "copy", "indexes", "optimize", "init", "next", "fetch", "load", "end", "error"}

(* The statement a unit is read with, as Oracle reads it: the scan's own      *)
(* filters and slices with their own values.                                  *)
Operands(binds) == [j \in DOMAIN binds |-> Literal(binds[j])]
Meaning(scn, pushed, slice) ==
  LET leaves(filter) == [i \in DOMAIN filter |-> NamedLeaf(filter[i])]
  IN SelectFrom(input.columns)
     \o (IF scn = NoScn THEN <<>> ELSE AsOf(Literal(scn)))
     \o Where([i \in DOMAIN pushed |-> FilterText(leaves(pushed[i]), [j \in DOMAIN pushed[i] |-> Operands(pushed[i][j].binds)])]
              \o SliceText(slice, Operands(SliceBinds(slice))))

(* Every unit is read with the statement that was meant for it: each          *)
(* placeholder of the text that Oracle sees has its own value, of the         *)
(* snapshot, of a filter or of this unit's slice, although OCI binds by       *)
(* position, the filters were numbered each on their own, names may hold      *)
(* quotes and what looks like a placeholder, and one cursor runs all units;   *)
(* EXPLAIN ANALYZE shows that same statement.                                 *)
StatementMeansItsParts ==
  pc = "fetch" =>
    LET pushed == SubSeq(query.filters, 1, Len(input.filters))
        meaning == Meaning(input.snapshot_scn, pushed, slices[unit])
    IN /\ Cardinality(Positions(cursor.sql)) = Len(cursor.binds)
       /\ OracleReads(cursor.sql, cursor.binds) = meaning
       /\ InlineBinds(cursor) = meaning

(* A value that was loaded is in the column of its own name, in the same case *)
(* if the target has it; or, when DuckDB had to rename its column, in a       *)
(* column that none of the source's has the name of.  Never in the place of   *)
(* another column, whatever was altered between the two binds and the load;   *)
(* and each output of a scan is the column that was asked for.                *)
ValuesKeepTheirColumn ==
  /\ \A v \in loaded :
       /\ Lower(v.to) = Lower(v.from) \/ Lower(v.to) \notin LowerNames(described)
       /\ Lower(v.to) = Lower(v.from) /\ v.from \in Names(table) => v.to = v.from
  /\ chunk # <<>> => \A i \in DOMAIN Ids :
       chunk[i] = IF IsOracleColumn(Ids[i]) THEN described[Ids[i]].name ELSE Null

(* A load gives each column of the target one source and leaves out none that *)
(* must not be NULL; and what COPY accepted at its bind, Oracle accepts when  *)
(* the load starts, unless a table was altered in between.                    *)
LoadFillsTheTarget ==
  /\ \A v, w \in loaded : v.to = w.to => v.from = w.from
  /\ writer => \A c \in Range(table) : ~c.nullable => \E i \in DOMAIN plan : table[plan[i]] = c
  /\ pc = "load" /\ ddl = 0 => OracleAccepts

-----------------------------------------------------------------------------
(* The inductive invariant behind these properties. *)

(* What COPY found at its bind. *)
Planned ==
  /\ Range(query.select) \subseteq DOMAIN described
  /\ names = DuckColumnNames(described)
  /\ plan = BuildColumnPlan(Columns(names, query.select), Families(Columns(described, query.select)), table)
  /\ plan # NoPlan

Prepared == {"optimize", "init", "next", "fetch", "load", "end"}
Running  == {"next", "fetch", "load", "end"}

BindInv ==
  /\ pc \notin {"describe", "error"} => Range(query.select) \subseteq DOMAIN described
  /\ pc \notin {"describe", "bind", "error"} => names = DuckColumnNames(described)
  /\ pc \in {"copy", "indexes", "load"} => query.copy
  /\ query.copy /\ pc \in Prepared => Planned
  /\ writer \/ loaded # {} => Planned

(* What the scan fetches, and where each output finds it. *)
ProjectionInv ==
  pc \in Running => outputs = Outputs /\ input.columns = Fetched

(* A row holds what was asked for, and is loaded where the plan says. *)
Asked == [i \in DOMAIN Ids |-> IF IsOracleColumn(Ids[i]) THEN described[Ids[i]].name ELSE Null]

ValueInv ==
  /\ pc \notin Running \cup {"error"} => chunk = <<>> /\ ~writer /\ loaded = {} /\ unit = 0
  /\ chunk \in {<<>>, Asked} /\ (pc = "load" => chunk = Asked)
  /\ loaded \subseteq
       {[from |-> described[query.select[i]].name, to |-> table[plan[i]].name] : i \in DOMAIN plan}

(* As long as nothing was altered, the target is as the bind saw it. *)
UnalteredInv ==
  ddl = 0 =>
    /\ pc = "indexes" => table = target
    /\ query.copy /\ pc \in Prepared => table = target /\ (indexes => query.skip_index_maintenance)

(* The text of a unit is built from the filters that were pushed, whose       *)
(* columns the description has, and from the unit's slice.                    *)
Pushed(filters) == [i \in DOMAIN filters |-> Translated(filters[i])]

TextInv ==
  /\ pc \notin {"describe", "error"} => ComparedColumns(query) \subseteq DOMAIN described
  /\ pc \in Running \cup {"init"} => \E filters \in {query.filters, <<>>} : input.filters = Pushed(filters)
  /\ cursor = [sql |-> cursor.sql, binds |-> cursor.binds]
  /\ pc = "fetch" => unit \in DOMAIN slices /\ cursor = BuildScanSql(input, slices[unit])

IInv == TypeOK /\ BindInv /\ ProjectionInv /\ ValueInv /\ UnalteredInv /\ TextInv
=============================================================================
