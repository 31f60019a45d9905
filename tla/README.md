# OraDuck in TLA+

OraDuck is a DuckDB extension that reads Oracle tables (`oraduck_scan`, `ATTACH`)
and loads them (`COPY ... TO (FORMAT oraduck)`) over OCI. This directory holds
TLA+ modules of its core logic, TLC configurations that check them on small
instances, and TLAPS proofs for every size about the load, the parallel scan, its
planning and ranges, the cursor, a transfer from one table to another, and the caches
of an attached database.

To check a run: `tlc -config CopyLoad.cfg CopyLoad`. To check the proofs:
`tlapm CopyLoadProofs.tla`. `PROJECT.json` maps each definition to the source
lines it models and lists the runs, hazards, findings and theorems.

## 1. Inventory

| Component | State it keeps | Operations | What is hard | What makes it correct |
|---|---|---|---|---|
| Direct path loader (`direct_path_loader.cpp`) | column array, stream buffer, counters, OCI context | constructor, `ConvertAndLoad`, `Flush`, `Finish`, `Abort`, destructor | a stream fills in the middle of a batch or of a row; any call fails; the answer to the commit is lost | rows neither lost nor sent twice; a commit is complete and final; the loop ends |
| COPY (`oraduck_copy.cpp`) | the target's description and column plan from the bind; pool of sessions under a lock | bind, `PrepareBatch`, `Finalize`, teardown | threads race for sessions; several commits, any of which fails; crash between them; the target is altered after the bind | one thread per session, at most one session per thread, the report says what is visible, values reach the column of their name |
| Scan execution (`oraduck_scan.cpp`) | description and column names from the bind, projection, atomic unit counter, planning session, a session, cursor and batch per thread | bind, init, `OraduckScan`, `NextBatch`, `TakeSession` | threads share units; the last rows come with "no data"; buffers are reused | each row once, sessions bounded and released, the scan ends |
| Work planning (`work_units.cpp`) | the plan | `PlanWork` and its strategies | Oracle is written and redefined between any two queries of the planner; fallbacks; a named server-side task | the units together return one state of the table; forced options hold; no task is left |
| ROWID ranges (`rowid_ranges.cpp`) | none (pure) | `BuildRowidSlices`, `EncodeRowid` | bit fields that overflow for bigfiles, the last object number, cuts inside extents | every ROWID in exactly one range |
| Fetch cursor (`fetch_cursor.cpp`) | statement, locators, define buffers, LOB buffer, batch size | `Open`, `Define`, `Execute`, `Fetch`, `ReadLob`, `Close` | the LOB buffer moves and shrinks while values point into it; any allocation fails half way | values intact, memory bounded, every handle freed |
| OCI session (`oci_session.cpp`, `oci.cpp`) | environment, error and service handles | constructor, `Execute`, destructor | a constructor that throws runs no destructor; a cursor outlives its session | every handle freed, in order, after every failure |
| Catalog (`oraduck_catalog.cpp`) | user list, schema entries | `LoadUsers`, `LookupSchema`, `ScanSchemas` | Oracle is asked outside the lock | entries never replaced, an error is not an answer |
| Schema entries (`oraduck_catalog_entries.cpp`) | described tables, names found missing | `LookupEntry`, `LoadTables`, `Scan` | as above, two caches that can contradict each other | entries stable, caches true |
| Filter pushdown (`oraduck_scan_filters.cpp`, `filter_sql.cpp`) | pushed fragments of the bind data | `PushdownComplexFilter`, translation, binds | two databases with different comparisons; DuckDB drops what was pushed; the optimizer runs twice | same rows with and without pushdown |
| NUMBER and date codecs, column plans, vectors | none (pure) | encode, decode, plan, convert | carries, rounding, negative mantissas, years before 1970, no year 0 | what is stored is what is read |
| Source description (`describe_source.cpp`) | none, but several queries make one description | `DescribeSource`, `DescribeSchema` | the dictionary changes between two of its queries; synonyms lead in a circle | each part is what the object once was; unchanged names resolve as in Oracle; every call ends |
| Column names (`oraduck_scan.cpp`, `column_plan.cpp`) | none (pure) | `DuckColumnNames`, `BuildColumnPlan` | Oracle's names differ in case, DuckDB's do not | one column per name, never another one's |
| Statement text (`read_sql.cpp`, `sql_binds.cpp`) | none (pure) | `BuildScanSql`, `ShiftPlaceholders`, `InlineBinds` | binds are by position, fragments are numbered each on their own, names hold quotes and `:b1` | each placeholder has its own value |
| Registration, secrets, tools | none | | | not modelled |

How they interact. A COPY owns a pool of *sessions*; each is one
`DirectPathLoader` used by one thread at a time, and `Finalize` finishes them in
parallel. A scan first calls `PlanWork` once, which leaves a list of units (each a
ROWID range, a hash bucket or the whole table), perhaps an SCN, and the planning
session; DuckDB's threads then call `OraduckScan` concurrently, take units from an
atomic counter and read them with a `FetchCursor`. The filters of the query were
moved into the statement while the query was optimized. An attached database resolves
a schema, then a table, and describes it with several queries outside its locks. A
query that copies from Oracle to Oracle binds to two descriptions, and the statements
and the load run later, when either table may have been altered.

## 2. Modules

```
 AtomicLoad <--refines-- CopyLoad          RowSource <--refines-- ScanWork
     sessions of CopyLoad have the states of:      units of ScanWork are made by:
 LoadSession <--refines-- DirectPathLoader WorkPlan, RowidRanges; batches: FetchCursor
 SourceDescription <- SchemaEntry <- AttachedDatabase -> Catalog
 OciSession <- FetchCursor
 ColumnNames <- StatementText <- Transfer
 OracleNumber, OracleDate <- ColumnValues <- FilterPushdown
```

(`A <- B`: B extends A; `->`: takes it as an instance.)

Names follow the source: a C++ field `rows_in_stream_` is `rows_in_stream`, an action has the name of the function it models, and a string `pc` says at which
statement a thread is between two calls that other actors can observe. A block
under a mutex is one step, a call to OCI or Oracle is one step with an alternative
action for its failure. Operators named `Mut...` are single mistakes, kept to show
that the properties notice them; no specification uses them.

**DirectPathLoader** - one session. A row is its number, so the stream buffer, the
rows with Oracle and the rows handed over are counts. Actions: `AllocContext`,
`LoginFails`, `Prepare`, `PrepareFails` (constructor); `ConvertAndLoad`,
`StreamTakesAll`, `StreamFull`, `ConversionFails`, `LoopEnds`, `EndOfBatch`
(conversion loop); `LoadStream`, `LoadStreamRejected`, `StreamResetFails`;
`Finish`, `DirPathFinish`, `DirPathFinishFails`; `Destroy`. OCI decides how many
rows fit and whether the next row is cut. `LoadSession` is the promise: rows are
accepted, then all of them become visible in one step or none ever does.

**CopyLoad** - the writer pool, `Finalize`, teardown after an error, and a crash of
the client at any step. Rows are pairs of batch and chunk, so that one can say which
rows are visible. A session has the states of `LoadSession`. What clears the pool, in
`Finalize` or in the destructor of the global state, aborts the unfinished sessions the
pool owns and no others (`ClearWriters`); a crash rolls back what Oracle has open
(`RollBackAll`). DuckDB decides which
thread gets which batch, and calls `Finalize` only when every batch was prepared.
`AtomicLoad` is the promise to the user: nothing visible before the commit; success
means every row, failure none, PARTIAL something in between.

**ScanWork** - threads, units, sessions, batches and output vectors of a scan. Each
field of `OraduckScanLocalState` and of its cursor is a function of the thread. The
define buffers are memory: a fetch overwrites their first slots, and what a thread copies
into its chunk is what the slots hold then. The
number of rows a fetch asks for is a choice (`FetchCursor` adapts it). An error in
one thread, an interrupt and a query that needs no more rows (`LIMIT`) stop the scan.
`RowSource` is the promise to the query.

**WorkPlan** - `PlanWork` with all its fallbacks, then one statement per unit, against
an Oracle table given as its history: one placement of rows in data objects per SCN.
`Commit` inserts, deletes and moves rows (also into a partition that had no segment);
`Redefine` moves, truncates or drops a partition. `task` is the
DBMS_PARALLEL_EXECUTE task, a name that other sessions can take and free too, and `error`
the exception under which `DropTaskQuietly` runs. The code spares a task that is not its
own when it is told so, by ORA-29497; after any other error it drops whatever bears the
name, and so does the model. An exception that is not Oracle's is thrown past the
fallbacks.

**RowidRanges** - `BuildRowidSlices` as a loop over the sorted extents, with the bit
fields of a ROWID scaled down. The reference is Oracle's order of objects, files and
blocks, computed without the packing. The extents of a data object share no block, and
lie in one tablespace, so that a bigfile is the object's only file; two objects may use
the same file numbers and blocks of different tablespaces.

**OciSession, FetchCursor** - a thread's session and cursor from logon to logoff. The
handles are what OCI has allocated, and every call that allocates one can fail: the
constructor frees what it has, `Close` runs when `Open` throws, and the destructors of
cursor and session run in the order of the fields. In between, batches with a LOB
column: every byte of the LOB buffer records which value it belongs to.

**SourceDescription, SchemaEntry, Catalog, AttachedDatabase** - an attached database.
`SourceDescription` is one action per dictionary query, through synonyms, for one name
or for a whole schema. `SchemaEntry` holds the caches of each schema and `Catalog` the
users; a block under a lock is one step. `AttachedDatabase` composes them: a connection
resolves a schema and looks a table up in it or lists it, several connections at once,
with DDL between any two steps, which may drop a user with its objects. A name is a
word with its case, so that the exact and the upper-cased candidate differ. `past`
keeps what each object was since ATTACH; only properties read it.

**ColumnNames, StatementText, Transfer** - a query, or a COPY from one Oracle table to
another, from its binds to its load. `Transfer` composes `DescribeSource`, the bind of
the scan (`DuckColumnNames`), the bind of COPY (`DescribeTarget`, the count of indexes,
`BuildColumnPlan`), the pushed filters, the projection of `OraduckScanInitGlobal`, one
statement per unit on a cursor that is kept when its text is the same, and the load by
column names, while both tables are altered between any two steps. A text is a sequence
of tokens; `OracleReads` (external) gives it the meaning OCI does, where placeholders are
bound by position and quotes are closed by the next quote. A value is known by the
column it was read from.

**OracleNumber, OracleDate, ColumnValues, FilterPushdown** - the codecs as operators;
the column plans and conversions of one value; and a state machine that loads a value
(or takes a cell written by another tool), pushes the query's filters one by one as
the loop of `PushdownComplexFilter` does, lets Oracle evaluate the SQL on the stored
bytes, reads the cell and lets DuckDB apply the filters that are left. Oracle's and
DuckDB's own evaluation are external and written from how the code's comments and
guards treat them.

## 3. What the runs check

| Run | Configuration | States | Properties | What it shows |
|---|---|---|---|---|
| `loader` | 5 rows, array of 3, 2 streams without progress, lost answers allowed | 3.7 thousand | `RowsAreKept`, `CommitIsComplete`, `OutcomeIsFinal`, `SessionEnds`, `ImplementsLoadSession` | Under every split of the rows over streams and every failing call, rows are neither lost nor sent twice, a commit holds all rows handed over and is never undone, and the session ends. |
| `copy` | 2 threads, 3 sessions, 4 batches of 2 chunks | 215 thousand | `WriterIsExclusive`, `SessionsWithinThreads`, `NothingVisibleBeforeFinalize`, `ReportIsTrue`, `NoSessionLeft`, `SpoiledIsNeverUsed`, `ImplementsAtomicLoad`, `CopyEnds` | The pool is safe and owns every session when it is cleared, every way the statement ends tells what is in the table, and it ends. |
| `copy_lost_ack` | 2 batches, a commit may succeed and its answer be lost | - | `NoDataMeansNone` is violated | Finding 1. |
| `scan` | 2 threads, 2 sessions, up to 3 units of up to 3 rows, vectors and fetches of 2 | 1.7 million | `ExactlyOnce`, `SessionsWithinPlan`, `ImplementsRowSource`, `ScanEnds` | Rows once although their buffers are reused, sessions bounded and closed, the scan ends. |
| `plan` | 2 partitions, 2 rows, 2 sessions, one transaction and one redefinition in either order | 18 million | `SnapshotIsExact`, `StableRowsOnce`, `ForcedOptionsHold`, `TaskIsDropped`, `TheirTaskStays` | With a snapshot the units return exactly the table of the SCN; without one a row nobody touches is still read once. The planner's task is dropped, another's only after an error that does not say whose it is. |
| `plan_single` | as `plan` | - | `SingleUnitIsConsistent` is violated | Finding 2. |
| `catalog` | 2 connections, 2 users, one table name in both cases, 4 dictionaries, 2 calls, one change | 386 thousand | `CacheWasTrue`, `UnchangedNamesResolve`, `EntriesAreStable`, `CallsEnd` | The caches hold what Oracle once said, an unchanged name resolves as in Oracle, entries stay, calls end. |
| `schema_missing` | as `catalog` | - | `MissingStaysMissing` is violated | Finding 3. |
| `ranges` | every set of up to 3 extents among 48, 1 or 2 sessions | 136 thousand | `RowidsOnce`, `SizesAreTrue`, `UnitsAreBalanced` | Ranges partition the ROWIDs of the objects, also blocks of no extent. |
| `cursor` | values of up to 3 characters of up to 2 bytes, 3 rows, 3 batches, budget 3 | 636 thousand | `ValuesAreIntact`, `HandlesAreFreed`, `BufferIsBounded`, `FreedInOrder` | The LOB buffer through growing, moving and shrinking; the handles through every failure. |
| `transfer` | 9 tables, 2 alterations, queries of up to 3 outputs, 3 filter lists, 5 plans | 2.0 million | `StatementMeansItsParts`, `ValuesKeepTheirColumn`, `LoadFillsTheTarget` | Every unit runs the statement meant for it; values reach the column of their name or the load fails. |
| `filters` | values and constants at the edges of each format, up to 2 filters, 2 passes | 791 thousand | `SameRows`, `ReadIsExact`, `LoadedIsRead` | Pushing filters changes no answer; what is stored is what is read. |

`FilterPushdown!Cases` lists the columns with their values and queries
(`MCFilterPushdown`); the other constants are in the cfg files.

### Bounds and why they are enough

Every bound is a constant marked `bound:` where it is declared.

* `loader`: an array of 3 rows lets a batch be cut at its start, middle and end; 5
  rows need two batches with a stream that spans both; 2 streams without progress let
  the counter be reset and overrun. 4096 in the code is the same loop.
* `copy`: 2 threads and 3 sessions: one session can be spoiled while the other is
  shared, and the bound on sessions would be exceeded if it could. 4 batches let a
  session be given back and taken again by the other thread while a third batch waits.
  Chunks of 2 put a failure between two writes of a batch. The run does not lose
  answers, since what it then reports is finding 1; the loader's run does.
* `scan`: 3 units for 2 threads, so that one thread takes a second unit; 3 rows with
  vectors and fetches of 2, so that batch and vector boundaries differ, and units end
  with a full, a short and an empty last fetch.
* `plan`: the history holds one transaction before or after one DDL statement, at any
  point of planning and reading. A second transaction changes what is read, not which
  plans are possible; with 2 partitions one can be read while the other appears.
* `catalog`: two connections are enough for every race on two steps under a lock, and
  two calls let a lookup race a lookup or a listing, or follow it. The dictionaries lead
  a lookup each way: to a table, to the exact name before the upper-cased one, through a
  public synonym, around a circle of synonyms (longer than the limit of 1; 8 in the
  code), to a database link and past the recycle bin. A change falls between any two
  queries.
* `ranges`: two objects, the second being the last object number, which may share file
  numbers and blocks; 6 blocks in a file field, with bigfile extents that start below
  and above it and cross it.
* `cursor`: three batches or units, the first of which may be too large and must be
  given back; 3 locators, so that their allocation can fail at the start, the middle
  and the end.
* `transfer`: the tables hold names that differ only in case and names that look like
  generated ones, before and after the names that generate them, a column that must not
  be NULL, one of an unsupported type and one of another type; one name is spelled with
  an apostrophe and a `:b1`. Two alterations change both tables, or one of them and its
  index. The plans have no unit, one unit and two units of each kind, with and without
  an SCN.
* `filters`: the machine word is 2^8 with half words of 2^4, so that a chunk has 2
  digits (18 in the code), a DECIMAL 4 (38) and a mantissa 3 pairs (20): carries,
  overflow and rounding happen at the same places relative to the sizes. The
  assumptions of `OracleNumber` and `ColumnValues` state the relations between these
  sizes that the code relies on. The calendar is the real one, from 4712 BC to 9999;
  only the day is short (2 hours of 2 minutes of 2 seconds of 2 microseconds) so that
  TLC's integers hold the microseconds.

`CHECK_DEADLOCK FALSE` is used throughout: a load, a scan, a plan and a lookup end.

### Fairness

* Loader: weak fairness of the loader's own steps. Its thread keeps running, and C++
  destroys the object when it leaves its scope. Nothing makes the caller hand over
  more rows.
* Copy: weak fairness of each thread's step inside `PrepareBatch`, of each thread of
  `Finalize`, of calling `Finalize` and of the teardown. DuckDB schedules its tasks,
  joins them, and destroys the global state. None for interrupts or crashes.
* Scan: weak fairness of each thread's step, of DuckDB calling the scan again while
  the query runs and of its completion; after an error DuckDB stops the other tasks.
  None for an interrupt or a `LIMIT`.
* Catalog: weak fairness of each connection's step inside a call. Its thread keeps
  running, a lock is never held while Oracle is asked, and a query is answered or
  fails. None for new calls or DDL.

All steps need weak fairness only: no step is disabled by another thread again and
again, since no thread waits while it holds a session or a lock.

## 4. Proofs

TLAPS checks the theorems for every value of the constants: rows, threads, sessions,
batches, units, partitions, extents, tables and names. They rest on the named
assumptions of the modules, which say that counts are naturals, that sets of threads and
sessions are finite, that a `None` is no session, and in three places more:
`RangesAssumption` says that an extent fits the block numbers of its file, which is
Oracle's ROWID format, `TransferAssumption` that a table has each column name once and no
double quote in it, which Oracle enforces, and that a comparison has as many constants as
its operator takes, and `AttachedAssumption` that the upper-case form of a name is a
name, that synonyms stand for names, and that `Absent` is none of the values it stands in
for the lack of.

Each proof module states the inductive invariant `IInv` of its component as a
conjunction of named parts, mostly with a lemma per part and a step per action below it.
TLC checked each `IInv` as an invariant of the component's run before it was proved.

**DirectPathLoaderProofs.** `RowsAreKept` alone is not inductive: that the stream
is empty at the commit follows only from where the thread is. `IInv` adds `Control`
(offsets within the batch, a pending stream before a load, no stream and no fragment
before a finish) and `HandleMatchesOracle` (the fields `done_` and `ctx_` against the
state in Oracle). From it: `LoaderTypes`, `RowsAreConserved`, `CommitsAreComplete`,
`OutcomesAreFinal`, and `LoaderImplementsLoadSession` (initial states map to initial
states, every step to a step of `LoadSession` or a stutter). They hold with lost
answers as well: a commit whose answer is lost is complete too.

**CopyLoadProofs.** `PoolInv` (a session in the pool is idle, spoiled or held by the
thread that writes it), `BatchInv` (a batch is in one place), `RowInv` (where the rows
of a batch are), `PhaseInv` (which session states each phase allows) and `SpoiledInv`.
The bound on sessions is a counting argument. A thread opens a session only when none is
idle; then every open session is held by another thread or was spoiled by one that left,
and the two kinds of threads are disjoint, so there is room for one more
(`RoomForOneMore`). That clearing the pool reaches every session that loads is
`EveryWriterIsOwned`: the thread that opens one puts it there before it can leave, and no
query ends meanwhile. From the invariant: `WritersAreExclusive`, `PoolNeedsNoLimit`,
`NothingIsEarly`, `NoLoadIsLeft`, `ReportsAreTrue`, `SpoiledSessionsAreDropped` and
`CopyImplementsAtomicLoad`. `ReportsAreTrue` and `CopyImplementsAtomicLoad` assume
`~LostAck`, and finding 1 shows that they need to.

**ScanWorkProofs.** That a row is delivered at most once says nothing about the next
step unless one knows where the other rows are. `RowInv` places each of them: no two
threads have the same unit (`OneReader`); of the unit a thread reads exactly the first
`Handed` rows are delivered (`FirstRowsHanded`); of any other unit that was taken all
are, or a thread still owes them (`AllElseHanded`); and no row of a unit nobody took is
(`NoStrayRow`). `ThreadInv` ties the batch to the position in the unit, `StatusInv` says
that a thread is out of a running query only when no unit is left, and `SessionInv`
follows the planning session. `BufferInv` says that the slots still to be copied hold the
last rows fetched of the unit; with `BatchCopied` (nothing is left to copy when a thread
asks for the next batch) a fetch overwrites none of them, and `EmitDelivers` counts, slot
by slot, that a copy hands over the next rows of the unit. From it `EachRowOnce`,
`SessionsStayWithinPlan` (sessions are held by the threads DuckDB started) and
`ScanImplementsRowSource`: every step of the scan delivers rows of the table not
delivered before, ends it, or is a stutter.

**WorkPlanProofs.** `CoverInv` says what the plan has to find (`Due`): a row in the data
object where it stayed all the time, or where it was at the SCN as long as Oracle can go
back to it, is among the extents, then among the chunks, then in a slice. `PlaceInv` is
why: since the last redefinition rows are only in segments that still exist, so that a
query for segments sees each one that matters. `ApartInv` says that no place is in two
units, and `CountInv` how often a row was read so far. With `OptionInv` and `OursInv`
they give `SnapshotsAreExact`, `StableRowsAreReadOnce`, `ForcedOptionsAreMet`,
`NoTaskIsLeft` and `OthersTasksStay` (the chunks come from a task of its own, and under
ORA-29497 nothing is dropped). The lemmas `HashFinds`, `HashApart`, `RangeFinds`
and `RangeApart` say that buckets and ranges partition.

**RowidRangesProofs.** The order of rowids comes first: `RowidIsPosition`
(`EncodeRowid`, bit fields and bigfiles included, is Oracle's order of object, file and
block) and `ExtentsInOrder` (an extent that comes first ends before the next starts).
`ListInv` is the loop over extents; `RangeInv` says that the units so far are disjoint
and cover the finished objects and the current one up to `rowid_lo`; `SizeInv` that each
has the blocks it reports; `BalanceInv` that full units times the target plus the
current one are the blocks taken. From it `EachRowidOnce`, `SizesTrue` and
`UnitsBalanced`. That sorting keeps the units is the bijection `RankNumbersTheUnits`.

**FetchCursorProofs.** `HandlesInv` says which handles each `pc` has, whichever call
failed; `ValueInv` that `ReadLob` wrote the first bytes of its value into room it
reserved, and `BatchInv` that the values before it are whole. `MovedBytes` shows that
growing keeps them. From it `LobValuesStayIntact`, `BufferStaysBounded`,
`NoHandleLeft` and `HandlesDieInOrder`.

**TransferProofs.** `BindInv` keeps the plan what `BuildColumnPlan` made of the two
descriptions, `ProjectionInv` the outputs of the scan, `ValueInv` says that a row is
what was asked for and that what was loaded went where the plan says, `UnalteredInv`
that without DDL the target is as the bind saw it. The lemma `DuckNames` carries the
weight: the names a scan shows are distinct up to case, and each is its column's own or
none of Oracle's; a free suffix exists among one more than there are names to avoid
(`GeneratedIsFree`, a pigeonhole argument). Where
that proof needs induction over the columns, it takes the least counterexample.
`OutputFindsItsColumn` does the same for the projection, and `AcceptedPlan` says what a
plan that is not refused fulfils. From it `EachValueKeepsItsColumn` and
`LoadsFillTheTarget`.

`UnitsAreReadAsMeant` is about the text itself. `TextInv` says that the statement at hand
is the one `BuildScanSql` makes of what was pushed and of the unit's slice, also when the
cursor kept its text and got new binds. The rest is about `Fills(s, m, v, r)`: the quotes
of the text `s` are closed, its placeholders outside quotes are numbered from `m + 1` on
in their order, and `r` is `s` with the values `v` in their places. A text then means what
it should for three readers: `ShiftFills` (renumbered by `k`, it continues after `k`
binds; placeholders inside names stay), `InlineFills` (EXPLAIN ANALYZE, by number) and
`OracleFills` (Oracle, by position, with its own reading of quotes). And it composes:
`FillsConcat` for one text after another, `FlattenFills` and `JoinedFills` for any number
of them. What is left is a lemma per clause, up to `ScanFills`, and none of them is about
the quotes or numbers of another. A quoted name is read as it is because it holds no
double quote (`IdentifierFills`); an apostrophe or `:b1` in it changes nothing. The folds
and recursive functions of the texts are reached by their equations (`QuoteEquations`,
`FlatEquations`), and those by the least length at which they would fail (`Recursion`).
The proof corrected the model: two arms of `OpenAfter`'s CASE overlapped, and TLC always
took the first.

**AttachedDatabaseProofs.** `EntriesStay` needs little: the two steps that write entries,
`AddFound` and `LoadTables`, write only free ones. `CachesAreTrue` is about moments: a
description is put together from queries that saw different dictionaries. `PastInv` says
that the history holds what there is now, and that a name which was a synonym and is one
no more was dropped in between, since `CREATE OR REPLACE` keeps the kind. `CallInv` ties
the description of a connection to its call; `FindInv` says how it got to where it is
(`OnTheWay`: through synonyms that each were, from the name or, when the name was absent,
from the public synonym of that name) and that the parts it has were so (`WasTrue`);
`ListInv` the same for a listing; `ResolveInv` what the lookup of a schema read.
History only grows, so all of it stays true while others go on (`WhatWasStays`), and
where a synonym leads is a set closed under steps, not a recursion. An error is none of
these, and so nothing of it is cached.

`UnchangedNamesAreResolved` goes the other way: not that what is cached once was so, but
that a name whose objects stayed what they are at ATTACH gets the one right answer,
whatever else changed between any two queries. `RInv` (checked on the `catalog` instance
before it was proved) adds to `IInv` what is known of such a name at each place it can be
in: of an entry and of a name found missing (`EntryInv`), of a description on its way
(`WayInv`: with the synonyms it may still follow it ends where `Follow` ends), of a
listing (`SchemaInv`), and of a lookup with the candidates it has left (`LookupInv`). All
of it is conditional on "did not change", and that is what makes it inductive: an object
that is as it was at ATTACH after a step was so before it (`UnchangedBefore`), so a name
that depends on unchanged objects after a step depended on the same ones before, and led
to the same (`LedSoBefore`); nothing new has to be shown of the steps of other sessions
and connections (`RightStays`, `FindsStays`, `OthersKeepTheirWay`). The steps of the
connection itself go one synonym along the way (`FoundOnTheWay`). `Follow` is a
function defined by recursion on the depth; that it exists and meets its equations
(`WayExists`, `FollowIsWay`), and that two dictionaries which agree along a way lead the
same way (`WaysAgree`), is shown with the least depth at which it would fail.

**Only model-checked.**

* Liveness (`SessionEnds`, `CopyEnds`, `ScanEnds`, `CallsEnd`): fairness is out of the
  prover's reach.
* `SameRows`, `ReadIsExact`, `LoadedIsRead`: what the codecs compute, digit by digit, and
  what a filter tree keeps needs induction over data.

A `TypeOK` is not a property of a run; it documents the state and is where a proof
starts.

## 5. Findings

1. `copy_lost_ack`: "OraDuck: commit failed, no data loaded"
   (`src/oraduck_copy.cpp:240`), and `docs/design.md:256` names another window as the
   only one. When the connection breaks after Oracle committed and before
   `OCIDirPathFinish` returned, the only session counts as failed and the rows are
   visible.
2. `plan_single`: "One unit is one statement, read-consistent without a snapshot"
   (`src/oraduck_scan.cpp:219`). True of a whole-table statement. A plan of one ROWID
   range also gets no SCN: when one transaction inserts a row into the object of that range
   and one into a partition that gets its segment by it, after the extent query, the scan
   returns the first without the second and 'auto' notes nothing.
3. `schema_missing`: "A name found missing stays missing until DETACH"
   (`src/oraduck_catalog_entries.cpp:56`). `LoadTables` adds a table without looking
   at `missing`, and `LookupEntry` looks at `tables` first. `README.md:271` tells users
   the same: "A name found missing stays missing".

## 6. Not modelled

* Loading the client library (`oci_api.cpp`): once, behind a static, before any session.
  `QueryStrings` is one step that answers or fails.
* Registration, options and secrets: no state of their own once registered. An invalid
  option throws before anything is read.
* Probes, benchmarks and infrastructure: outside the extension.
* The texts and metrics of EXPLAIN, except the statement it shows (`InlineBinds`), and
  the serialization of the scan, which throws.
* The parsing of target names, settings and dictionary rows into words.
* RAW, BLOB and BINARY_FLOAT values, which are copied bytes, and NaN.
* The cells of the column array and the define buffers of inline columns: a row of the
  loader is a number, and `ColumnValues` converts one value at a time.
* Write operations of the catalog: each one throws. The suggestions for a name that is
  not found read what `ListedTables` gives and change nothing.
* A failing `OCIAttrGet` after a conversion (`direct_path_loader.cpp:142`) has no step of
  its own: it throws where `ConversionFails` does, with the rows in the stream unsent.
* The chunks of DBMS_PARALLEL_EXECUTE cover the whole ROWID space of each data object in
  `WorkPlan`, as the ranges of `RowidRanges` do; how Oracle cuts them is its own.
* `Transfer` pushes all filters of a query or none; which of them are pushed is
  `FilterPushdown`'s.
* The column names a COPY binds with reach `OraduckBind` as the query gave them: what
  DuckDB does before that to names that occur twice is not part of the model.
* Lost connections other than as the failure of the call under way.

## 7. Plan

Done: every component with state or control of its own as a model with runs, and proofs
about all of them but the conversion of values and filters.

Left: `ParseTargetName` (quoted and unquoted parts), as an operator against a reference.
