------------------------------- MODULE ScanWork -------------------------------
(***************************************************************************)
(* The parallel scan: the DuckDB threads of one oraduck_scan share a list   *)
(* of work units behind an atomic counter, and each reads its units with a  *)
(* session and a cursor of its own (OraduckScanGlobalState,                 *)
(* OraduckScanLocalState, NextBatch, OraduckScan, FetchCursor).             *)
(*                                                                         *)
(* Row i of unit u is <<u, i>>; Oracle (external) returns the rows of one   *)
(* execution in order, and chooses nothing but failures.  How many rows a   *)
(* fetch asks for is a choice here: FetchCursor adapts it to the LOB sizes. *)
(***************************************************************************)
EXTENDS Naturals, FiniteSets

CONSTANTS
  Threads,      \* DuckDB threads
  MaxSessions,  \* the sessions option, or the number of DuckDB threads
  MaxUnits,     \* bound: work units of a plan
  MaxUnitRows,  \* bound: rows of a unit
  VectorSize,   \* STANDARD_VECTOR_SIZE
  FetchRows     \* rows_: size of the define arrays

ASSUME ScanAssumption ==
  /\ IsFiniteSet(Threads) /\ Threads # {}
  /\ MaxSessions \in Nat \ {0} /\ MaxUnits \in Nat /\ MaxUnitRows \in Nat
  /\ VectorSize \in Nat \ {0} /\ FetchRows \in Nat \ {0}

VARIABLES
  unit_rows,     \* the plan: the rows each unit's slice selects
  threads,       \* the threads DuckDB starts: at most MaxThreads()
  \* OraduckScanGlobalState
  next_unit,     \* atomic counter
  spare_session, \* is the planning session still there?
  \* per thread: OraduckScanLocalState, its cursor, and where it is
  pc,
  session,       \* is there a session?
  cursor,        \* is there a cursor, prepared once for the text the units share?
  unit,          \* the unit being read
  pos,           \* rows of the unit fetched so far
  done,          \* FetchCursor::done_
  reading, batch_rows, batch_next,
  buffer,        \* the cursor's define buffers: the row each slot holds
  finished,
  filled,        \* rows of the output chunk
  \* the query
  delivered,     \* per row: how often it was copied into a chunk of the query
  status

plan    == <<unit_rows, threads>>
shared  == <<next_unit, spare_session>>
handles == <<session, cursor>>
fetch   == <<unit, pos, done, reading>>
batch   == <<batch_rows, batch_next, buffer>>
query   == <<delivered, status>>
vars    == <<plan, shared, pc, handles, fetch, batch, finished, filled, query>>

Least(a, b) == IF a <= b THEN a ELSE b

Units == DOMAIN unit_rows

(* The sessions the plan can use, and the threads DuckDB may start for it. *)
Sessions   == Least(MaxSessions, Cardinality(Units))
MaxThreads == IF Sessions >= 1 THEN Sessions ELSE 1

Row == (1 .. MaxUnits) \X (1 .. MaxUnitRows)

(* Define buffers: a row in each slot; NoBuffer where no fetch has written yet. *)
Buffer == [1 .. FetchRows -> Nat \X Nat]
NoBuffer == [i \in 1 .. FetchRows |-> <<0, 0>>]

(* A new OraduckScanLocalState per thread. *)
LocalInit ==
  /\ pc = [t \in Threads |-> "idle"]
  /\ session = [t \in Threads |-> FALSE] /\ cursor = [t \in Threads |-> FALSE]
  /\ unit = [t \in Threads |-> 0] /\ pos = [t \in Threads |-> 0] /\ done = [t \in Threads |-> FALSE]
  /\ reading = [t \in Threads |-> FALSE]
  /\ batch_rows = [t \in Threads |-> 0] /\ batch_next = [t \in Threads |-> 0]
  /\ buffer = [t \in Threads |-> NoBuffer]
  /\ finished = [t \in Threads |-> FALSE] /\ filled = [t \in Threads |-> 0]

(* The plan is made; the planning session is kept when there is a unit. *)
Init ==
  /\ \E n \in 0 .. MaxUnits : unit_rows \in [1 .. n -> 0 .. MaxUnitRows]
  /\ threads \in SUBSET Threads
  /\ Cardinality(threads) \in 1 .. MaxThreads
  /\ next_unit = 0
  /\ spare_session = (Units # {})
  /\ LocalInit
  /\ delivered = [r \in Row |-> 0]
  /\ status = "running"

Goes(t, to) == pc' = [pc EXCEPT ![t] = to]

-----------------------------------------------------------------------------
(* OraduckScan: fill a chunk from the batches of NextBatch. *)
Call(t) ==
  /\ status \in {"running", "error"}
  /\ pc[t] = "idle"
  /\ Goes(t, "scan")
  /\ filled' = [filled EXCEPT ![t] = 0]
  /\ UNCHANGED <<plan, shared, handles, fetch, batch, finished, query>>

InLoop(t) == pc[t] = "scan" /\ filled[t] < VectorSize /\ ~finished[t]

(* Rows to copy at once: no more than the chunk has room for. *)
CopyCount(t) == Least(VectorSize - filled[t], batch_rows[t] - batch_next[t])

(* How often the slots that are copied hold row r. *)
Copies(t, r) ==
  Cardinality({i \in batch_next[t] + 1 .. batch_next[t] + CopyCount(t) : buffer[t][i] = r})

(* Copy what the next slots of the batch hold into the chunk. *)
Emit(t) ==
  /\ InLoop(t) /\ batch_next[t] < batch_rows[t]
  /\ delivered' = [r \in Row |-> delivered[r] + Copies(t, r)]
  /\ batch_next' = [batch_next EXCEPT ![t] = @ + CopyCount(t)]
  /\ filled' = [filled EXCEPT ![t] = @ + CopyCount(t)]
  /\ UNCHANGED <<plan, shared, pc, handles, fetch, batch_rows, buffer, finished, status>>

MutBatchUsed(t) ==  \* fetches while rows of the batch are left
  /\ InLoop(t) /\ batch_next[t] <= batch_rows[t]
  /\ Goes(t, "next")
  /\ UNCHANGED <<plan, shared, handles, fetch, batch, finished, filled, query>>

BatchUsed(t) ==
  /\ InLoop(t) /\ batch_next[t] = batch_rows[t]
  /\ Goes(t, "next")
  /\ UNCHANGED <<plan, shared, handles, fetch, batch, finished, filled, query>>

(* The chunk is full or the thread has nothing left: an empty chunk tells   *)
(* DuckDB that this thread is done.                                         *)
MutReturn(t) ==  \* an empty chunk does not end the thread
  /\ pc[t] = "scan" /\ ~InLoop(t)
  /\ Goes(t, "idle")
  /\ UNCHANGED <<plan, shared, handles, fetch, batch, finished, filled, query>>

Return(t) ==
  /\ pc[t] = "scan" /\ ~InLoop(t)
  /\ Goes(t, IF filled[t] = 0 THEN "out" ELSE "idle")
  /\ UNCHANGED <<plan, shared, handles, fetch, batch, finished, filled, query>>

-----------------------------------------------------------------------------
(* NextBatch.  BlockingInterruptCheck throws between two fetches once the   *)
(* query is interrupted; a query that merely needs no more rows is not.     *)
Interrupted(t) ==
  /\ pc[t] = "next" /\ status = "stopping"
  /\ Goes(t, "out")
  /\ UNCHANGED <<plan, shared, handles, fetch, batch, finished, filled, query>>

(* What OCI_ATTR_ROWS_FETCHED says after asking for k of the rows left: fewer *)
(* than k come with OCI_NO_DATA, and they count.                              *)
MutFetched(t, k, left) == IF done[t] \/ left < k THEN 0 ELSE k  \* OCI_NO_DATA taken for no rows

Fetched(t, k, left) == IF done[t] THEN 0 ELSE Least(k, left)

(* The buffers after a fetch of n rows: those rows are written over the first *)
(* slots, the others keep what they held.                                     *)
Overwritten(t, n) ==
  [i \in 1 .. FetchRows |-> IF i <= n THEN <<unit[t], pos[t] + i>> ELSE buffer[t][i]]

(* FetchCursor::Fetch asking for k rows. *)
Fetch(t, k) ==
  LET left == unit_rows[unit[t]] - pos[t]
      n == Fetched(t, k, left)
  IN
  /\ pc[t] = "next" /\ reading[t]
  /\ done' = [done EXCEPT ![t] = done[t] \/ left < k]
  /\ pos' = [pos EXCEPT ![t] = @ + n]
  /\ reading' = [reading EXCEPT ![t] = n > 0]
  /\ IF n > 0 THEN /\ batch_rows' = [batch_rows EXCEPT ![t] = n]
                   /\ batch_next' = [batch_next EXCEPT ![t] = 0]
                   /\ buffer' = [buffer EXCEPT ![t] = Overwritten(t, n)]
                   /\ Goes(t, "scan")
     ELSE UNCHANGED batch /\ Goes(t, "claim")
  /\ UNCHANGED <<plan, shared, handles, unit, finished, filled, query>>

(* next_unit.fetch_add(1) *)
FetchAdd(t) ==
  /\ pc[t] = "claim" \/ (pc[t] = "next" /\ ~reading[t])
  /\ next_unit' = next_unit + 1

Claim(t) ==
  /\ FetchAdd(t) /\ next_unit < Cardinality(Units)
  /\ unit' = [unit EXCEPT ![t] = next_unit + 1]
  /\ Goes(t, IF session[t] THEN "execute" ELSE "session")
  /\ UNCHANGED <<plan, spare_session, handles, pos, done, reading, batch, finished, filled, query>>

(* No unit is left: the thread releases its statement, with the buffers, and  *)
(* its session.                                                               *)
NoUnitLeft(t) ==
  /\ FetchAdd(t) /\ next_unit >= Cardinality(Units)
  /\ buffer' = [buffer EXCEPT ![t] = NoBuffer]
  /\ cursor' = [cursor EXCEPT ![t] = FALSE]
  /\ session' = [session EXCEPT ![t] = FALSE]
  /\ finished' = [finished EXCEPT ![t] = TRUE]
  /\ Goes(t, "scan")
  /\ UNCHANGED <<plan, spare_session, fetch, batch_rows, batch_next, filled, query>>

(* TakeSession: the planning session, under the lock, else a logon outside. *)
MutTakeSpare(t) ==  \* the planning session is not moved out
  /\ pc[t] = "session" /\ spare_session
  /\ session' = [session EXCEPT ![t] = TRUE]
  /\ Goes(t, "execute")
  /\ UNCHANGED <<plan, shared, cursor, fetch, batch, finished, filled, query>>

TakeSpare(t) ==
  /\ pc[t] = "session" /\ spare_session
  /\ spare_session' = FALSE
  /\ session' = [session EXCEPT ![t] = TRUE]
  /\ Goes(t, "execute")
  /\ UNCHANGED <<plan, next_unit, cursor, fetch, batch, finished, filled, query>>

NoSpare(t) ==
  /\ pc[t] = "session" /\ ~spare_session
  /\ Goes(t, "login")
  /\ UNCHANGED <<plan, shared, handles, fetch, batch, finished, filled, query>>

Login(t) ==
  /\ pc[t] = "login"
  /\ session' = [session EXCEPT ![t] = TRUE]
  /\ Goes(t, "execute")
  /\ UNCHANGED <<plan, shared, cursor, fetch, batch, finished, filled, query>>

(* Run the unit's statement: bound and executed again on the cursor at hand,  *)
(* or prepared on a new one.  The slices of a plan are all of one kind and     *)
(* differ in their binds only, so a plan has one text.                         *)
Execute(t) ==
  /\ pc[t] = "execute"
  /\ cursor' = [cursor EXCEPT ![t] = TRUE]
  /\ reading' = [reading EXCEPT ![t] = TRUE]
  /\ done' = [done EXCEPT ![t] = FALSE]
  /\ pos' = [pos EXCEPT ![t] = 0]
  /\ Goes(t, "next")
  /\ UNCHANGED <<plan, shared, session, unit, batch, finished, filled, query>>

(* A logon, an execution, a fetch or the conversion of a value fails. *)
Throws(t) ==
  /\ \/ pc[t] \in {"login", "execute"}
     \/ pc[t] = "next" /\ reading[t]
     \/ InLoop(t) /\ batch_next[t] < batch_rows[t]
  /\ Goes(t, "out")
  /\ status' = IF status = "running" THEN "error" ELSE status
  /\ UNCHANGED <<plan, shared, handles, fetch, batch, finished, filled, delivered>>

-----------------------------------------------------------------------------
(* DuckDB: an interrupt, an error elsewhere, or a LIMIT that is satisfied.  *)
Stop ==
  /\ status \in {"running", "error"}
  /\ status' = "stopping"
  /\ UNCHANGED <<plan, shared, pc, handles, fetch, batch, finished, filled, delivered>>

(* The states of the scan are destroyed, with every session they hold. *)
CloseSessions ==
  /\ spare_session' = FALSE
  /\ session' = [t \in Threads |-> FALSE] /\ cursor' = [t \in Threads |-> FALSE]
  /\ buffer' = [t \in Threads |-> NoBuffer]
  /\ UNCHANGED <<plan, next_unit, pc, fetch, batch_rows, batch_next, finished, filled, delivered>>

Complete ==
  /\ status = "running"
  /\ \A t \in threads : pc[t] = "out"
  /\ status' = "complete"
  /\ CloseSessions

Teardown ==
  /\ status \in {"error", "stopping"}
  /\ \A t \in threads : pc[t] \in {"idle", "out"}
  /\ status' = "abandoned"
  /\ CloseSessions

Ended == status \in {"complete", "abandoned"}

Step(t) ==
  /\ ~Ended
  /\ \/ Emit(t) \/ BatchUsed(t) \/ Return(t)
     \/ Interrupted(t)
     \/ \E k \in 1 .. FetchRows : Fetch(t, k)
     \/ Claim(t) \/ NoUnitLeft(t) \/ TakeSpare(t) \/ NoSpare(t) \/ Login(t)
     \/ Execute(t) \/ Throws(t)

Next ==
  \/ \E t \in threads : Call(t) \/ Step(t)
  \/ Stop \/ Complete \/ Teardown

Spec == Init /\ [][Next]_vars

(* DuckDB keeps calling every thread of a running query and OCI calls       *)
(* return; it destroys the states in the end.  Nothing forces an interrupt. *)
Fairness ==
  /\ \A t \in Threads : WF_vars(t \in threads /\ Step(t))
                     /\ WF_vars(t \in threads /\ status = "running" /\ Call(t))
  /\ WF_vars(Complete) /\ WF_vars(Teardown)
  /\ WF_vars(status = "error" /\ Stop)

FairSpec == Spec /\ Fairness

-----------------------------------------------------------------------------
PlanType ==
  /\ Cardinality(Units) \in 0 .. MaxUnits
  /\ unit_rows \in [1 .. Cardinality(Units) -> 0 .. MaxUnitRows]
  /\ threads \subseteq Threads

TypeOK ==
  /\ PlanType
  /\ next_unit \in Nat /\ spare_session \in BOOLEAN
  /\ pc \in [Threads -> {"idle", "scan", "next", "claim", "session", "login", "execute", "out"}]
  /\ session \in [Threads -> BOOLEAN] /\ cursor \in [Threads -> BOOLEAN]
  /\ unit \in [Threads -> 0 .. MaxUnits] /\ pos \in [Threads -> 0 .. MaxUnitRows]
  /\ done \in [Threads -> BOOLEAN] /\ reading \in [Threads -> BOOLEAN]
  /\ batch_rows \in [Threads -> 0 .. FetchRows] /\ batch_next \in [Threads -> 0 .. FetchRows]
  /\ buffer \in [Threads -> Buffer]
  /\ finished \in [Threads -> BOOLEAN] /\ filled \in [Threads -> 0 .. VectorSize]
  /\ delivered \in [Row -> Nat]
  /\ status \in {"running", "error", "stopping", "complete", "abandoned"}

Table == {r \in Row : r[1] \in Units /\ r[2] <= unit_rows[r[1]]}
Delivered == {r \in Row : delivered[r] > 0}

(* Each row of the table reaches DuckDB at most once, rows the table does   *)
(* not have never, whatever the threads' order; a scan that completes       *)
(* without error delivered every one.  A row reaches DuckDB when it is      *)
(* copied from a buffer that the next fetch overwrites.                     *)
ExactlyOnce ==
  /\ \A r \in Row : delivered[r] <= 1
  /\ Delivered \subseteq Table
  /\ status = "complete" => Delivered = Table

(* Sessions open at once, the planning session and the logons under way     *)
(* included, stay within min(sessions option, units); a thread that found   *)
(* no unit left holds none, nor a cursor, and a scan that ended has none.   *)
SessionsWithinPlan ==
  /\ Cardinality({t \in Threads : session[t] \/ pc[t] = "login"})
       + (IF spare_session THEN 1 ELSE 0) <= Sessions
  /\ \A t \in Threads : finished[t] => ~session[t] /\ ~cursor[t]
  /\ Ended => ~spare_session /\ \A t \in Threads : ~session[t] /\ ~cursor[t]

-----------------------------------------------------------------------------
(* The inductive invariant behind the properties above.                       *)
(* No row of the batch is left to copy between two batches.                   *)
BatchCopied ==
  \A t \in Threads : pc[t] \in {"next", "claim", "session", "login", "execute"} =>
    batch_next[t] = batch_rows[t]

(* The slots still to be copied hold the last rows fetched of the unit. *)
BufferInv ==
  ~Ended => \A t \in Threads : reading[t] =>
    \A i \in batch_next[t] + 1 .. batch_rows[t] :
      buffer[t][i] = <<unit[t], pos[t] - batch_rows[t] + i>>

(* Where a thread is, and what its batch and its unit have to do with it:     *)
(* the rows of the batch are the last fetched of the unit, a cursor that is   *)
(* done has fetched all rows, and only a thread that reads has rows to copy.  *)
Starting(t) == pc[t] \in {"session", "login", "execute"}

ThreadInv(t) ==
  /\ unit[t] \in 0 .. Cardinality(Units) /\ unit[t] <= next_unit
  /\ batch_next[t] <= batch_rows[t]
  /\ reading[t] => /\ unit[t] # 0 /\ batch_rows[t] - batch_next[t] <= pos[t]
                   /\ pos[t] <= unit_rows[unit[t]] /\ (done[t] => pos[t] = unit_rows[unit[t]])
  /\ ~reading[t] => batch_next[t] = batch_rows[t]
  /\ Starting(t) => ~reading[t] /\ unit[t] # 0
  /\ pc[t] = "claim" => ~reading[t]
  /\ finished[t] => ~reading[t] /\ pc[t] \in {"scan", "idle", "out"} /\ next_unit >= Cardinality(Units)
  /\ t \notin threads => pc[t] = "idle" /\ unit[t] = 0 /\ ~session[t] /\ ~reading[t]

(* The rows of the unit a thread reads that were copied into a chunk. *)
Handed(t) == pos[t] - (batch_rows[t] - batch_next[t])

(* A thread has the rest of a unit: it is to read it, or left it unread. *)
Owes(t, u) ==
  unit[t] = u /\ (Starting(t) \/ reading[t] \/ (pc[t] = "out" /\ ~finished[t]))

(* No two threads have the same unit. *)
OneReader == \A t, w \in Threads : t # w /\ unit[t] = unit[w] => unit[t] = 0

(* Only rows of units that were taken are delivered, and once. *)
NoStrayRow ==
  \A u \in 1 .. MaxUnits, i \in 1 .. MaxUnitRows :
    /\ delivered[<<u, i>>] <= 1
    /\ delivered[<<u, i>>] = 1 => u <= Cardinality(Units) /\ u <= next_unit /\ i <= unit_rows[u]

(* Of a unit a thread is at, the first rows are delivered and no others. *)
FirstRowsHanded ==
  \A t \in Threads, i \in 1 .. MaxUnitRows :
    /\ Starting(t) => delivered[<<unit[t], i>>] = 0
    /\ reading[t] => (delivered[<<unit[t], i>>] = 1 <=> i <= Handed(t))

(* Of any other unit that was taken, all rows are. *)
AllElseHanded ==
  \A u \in 1 .. Cardinality(Units) : u <= next_unit =>
    \/ \A i \in 1 .. unit_rows[u] : delivered[<<u, i>>] = 1
    \/ \E t \in Threads : Owes(t, u)

RowInv == OneReader /\ NoStrayRow /\ FirstRowsHanded /\ AllElseHanded

(* Only a thread that found no unit left is out of a running query; a query   *)
(* that completed has delivered the table.                                    *)
StatusInv ==
  /\ status = "running" => \A t \in threads : pc[t] = "out" => finished[t]
  /\ status = "complete" =>
       \A u \in 1 .. Cardinality(Units), i \in 1 .. MaxUnitRows : i <= unit_rows[u] => delivered[<<u, i>>] = 1

(* The planning session is there until the first session is taken. *)
SessionInv ==
  /\ threads # {} /\ Cardinality(threads) <= MaxThreads
  /\ spare_session => Units # {} /\ \A t \in Threads : ~session[t] /\ pc[t] # "login"
  /\ \A t \in Threads : session[t] \/ pc[t] = "login" => Units # {}
  /\ \A t \in Threads : finished[t] => ~session[t] /\ ~cursor[t]
  /\ Ended => ~spare_session /\ \A t \in Threads : /\ ~session[t] /\ ~cursor[t]
                                                   /\ pc[t] # "login"

(* The inductive invariant. *)
IInv ==
  /\ TypeOK /\ BatchCopied /\ BufferInv /\ (\A t \in Threads : ThreadInv(t)) /\ RowInv /\ StatusInv /\ SessionInv

(* The scan ends: no thread is left waiting for a unit or a session. *)
ScanEnds == <>Ended

(* The scan implements a row source. *)
Source == INSTANCE RowSource WITH
  table <- Table,
  delivered <- Delivered,
  state <- IF status \in {"complete", "abandoned"} THEN status ELSE "open"

ImplementsRowSource == Source!Spec
=============================================================================
