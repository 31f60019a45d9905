------------------------------ MODULE FetchCursor ------------------------------
(***************************************************************************)
(* A thread's session and its FetchCursor with a LOB column, from logon to  *)
(* logoff: the cursor is opened, run for each unit and closed; each batch's *)
(* LOB values are read one after the other into one buffer that grows,      *)
(* moves, and is given back when a batch made it too large; the size of a   *)
(* batch follows the LOB bytes of the previous one.                         *)
(*                                                                         *)
(* Byte j of the i-th LOB value of the batch is <<i, j>>, so that a cell of *)
(* the buffer tells what was written there.  Oracle (external) chooses the  *)
(* rows, which values are NULL, their lengths in characters, and how much   *)
(* each OCILobRead2 returns.                                                *)
(***************************************************************************)
EXTENDS OciSession, Sequences, FiniteSets

CONSTANTS
  budget,                \* bytes of a batch
  row_bytes,             \* budgeted bytes of a row without its LOB values
  kInitialLobBytes,
  kMaxUtf8BytesPerChar,
  MaxChars,              \* bound: characters of a value
  MaxRows,               \* options.max_rows
  MaxBatches,            \* bound: fetches and further runs
  Null                   \* a NULL value

ASSUME CursorAssumption ==
  /\ budget \in Nat /\ row_bytes \in Nat \ {0} /\ MaxRows \in Nat \ {0}
  /\ kInitialLobBytes \in Nat \ {0} /\ kMaxUtf8BytesPerChar \in Nat \ {0}
  /\ MaxChars \in Nat /\ MaxBatches \in Nat
  /\ Null \notin Nat

VARIABLES
  done,           \* done_
  next_rows,      \* next_rows_
  values,         \* the batch: characters of each LOB value in reading order, or Null
  item,           \* the value ReadLob is at
  read, used,     \* locals of ReadLob: characters read (done), bytes written
  capacity_here,  \* local of ReadLob: capacity
  lob_offset, lob_length,      \* where each value is
  lob_used, lob_capacity, lob_data,
  peak,           \* the most this batch needed: lob_used plus what was reserved
  batches         \* fetches and further runs so far

fetch  == <<done, next_rows, values, batches>>
locals == <<item, read, used, capacity_here>>
index  == <<lob_offset, lob_length>>
buffer == <<lob_used, lob_capacity, lob_data>>
cursor == <<fetch, locals, index, buffer, peak>>
vars   == <<pc, handles, cursor>>

Greatest(a, b) == IF a >= b THEN a ELSE b
Least(a, b)    == IF a <= b THEN a ELSE b

RowsWithin(bytes, max) == Least(Greatest(budget \div bytes, 1), max)

(* Rows of the define arrays. *)
Rows == RowsWithin(row_bytes, MaxRows)
Keep == Greatest(2 * budget, kInitialLobBytes)

Junk == <<0, 0>>
NoBytes == [i \in 1 .. 0 |-> Junk]
NoValues == [i \in 1 .. 0 |-> 0]

(* ReserveLob: room for n bytes after u, doubling; what was used is copied. *)
Reserved(u, cap, n) ==
  IF cap - u >= n THEN cap ELSE Greatest(u + n, Greatest(2 * cap, kInitialLobBytes))

MutMoved(u, cap, data, n) ==  \* the buffer moves, its values do not
  IF cap - u >= n THEN data
  ELSE [i \in 1 .. Reserved(u, cap, n) |-> Junk]

Moved(u, cap, data, n) ==
  IF cap - u >= n THEN data
  ELSE [i \in 1 .. Reserved(u, cap, n) |-> IF i <= u THEN data[i] ELSE Junk]

ReserveLob(u, cap, data, n) ==
  lob_used' = u /\ lob_capacity' = Reserved(u, cap, n) /\ lob_data' = Moved(u, cap, data, n)

(* No cursor, no buffer. *)
NoCursor ==
  /\ done' = FALSE /\ next_rows' = 1 /\ values' = <<>>
  /\ item' = 0 /\ read' = 0 /\ used' = 0 /\ capacity_here' = 0
  /\ lob_offset' = NoValues /\ lob_length' = NoValues
  /\ lob_used' = 0 /\ lob_capacity' = 0 /\ lob_data' = NoBytes
  /\ peak' = 0

Init ==
  /\ pc = "off" /\ NoHandles
  /\ done = FALSE /\ next_rows = 1 /\ values = <<>> /\ batches = 0
  /\ item = 0 /\ read = 0 /\ used = 0 /\ capacity_here = 0
  /\ lob_offset = NoValues /\ lob_length = NoValues
  /\ lob_used = 0 /\ lob_capacity = 0 /\ lob_data = NoBytes
  /\ peak = 0

-----------------------------------------------------------------------------
(* Close: the statement, with its binds and defines, then the locators that   *)
(* were allocated.                                                            *)
MutClosed ==  \* none of an unfinished column
  stmt' = FALSE /\ locators' = (IF locators < Rows THEN locators ELSE 0) /\ UNCHANGED <<env, err, svc, guarded>>

Closed == stmt' = FALSE /\ locators' = 0 /\ UNCHANGED <<env, err, svc, guarded>>

Close(then) == Closed /\ pc' = then /\ NoCursor /\ UNCHANGED batches

(* Open, in the constructor: Close when it throws, then the query fails and   *)
(* its session goes.                                                          *)
Prepare ==
  /\ pc = "open"
  /\ \/ stmt' = TRUE /\ pc' = "define" /\ UNCHANGED <<env, err, svc, guarded, locators>>
     \/ Fails("logoff")
  /\ UNCHANGED cursor

(* Define: one locator per row of the LOB column. *)
AllocLocator ==
  /\ pc = "define" /\ locators < Rows
  /\ \/ locators' = locators + 1 /\ UNCHANGED <<pc, env, err, svc, guarded, stmt, cursor>>
     \/ Close("logoff")

(* The first batch asks for fewer rows, by the LOB prefetch. *)
Opened ==
  /\ pc = "define" /\ locators = Rows
  /\ \/ /\ pc' = "first"
        /\ next_rows' \in 1 .. Rows
        /\ ReserveLob(0, 0, NoBytes, kInitialLobBytes)
        /\ UNCHANGED <<handles, done, values, batches, locals, index, peak>>
     \/ Close("logoff")

(* Execute: binds, and runs; the values of the last batch die. *)
Executes == done' = FALSE /\ lob_used' = 0 /\ values' = <<>> /\ pc' = "ready"

FirstExecute ==
  /\ pc = "first"
  /\ \/ Executes /\ UNCHANGED <<handles, next_rows, batches, locals, index, lob_capacity, lob_data, peak>>
     \/ Close("logoff")

(* NextBatch, with the statement of another unit: run on the cursor at hand   *)
(* when it has its text, else on a new one; an error leaves the cursor.       *)
HasCursor == pc \in {"ready", "batch"}

NextUnit ==
  /\ HasCursor /\ batches < MaxBatches
  /\ batches' = batches + 1
  /\ \/ Executes /\ UNCHANGED <<handles, next_rows, locals, index, lob_capacity, lob_data, peak>>
     \/ pc' = "failed" /\ UNCHANGED <<handles, done, next_rows, values, locals, index, buffer, peak>>
     \/ Closed /\ pc' = "open" /\ NoCursor

(* No unit is left, or the query is over and its local state is destroyed:    *)
(* the cursor goes before the session.                                        *)
MutRelease ==  \* the session is declared after the cursor
  /\ HasCursor \/ pc = "failed"
  /\ pc' = "logoff" /\ UNCHANGED <<handles, cursor>>

Release == (HasCursor \/ pc = "failed") /\ Close("logoff")

(* What ReadLobs keeps of the buffer before a batch. *)
MutShrunk == lob_used' = 0 /\ UNCHANGED <<lob_capacity, lob_data>>  \* an oversized buffer stays

Shrunk ==
  IF lob_capacity > Keep THEN ReserveLob(0, 0, NoBytes, Keep)
  ELSE lob_used' = 0 /\ UNCHANGED <<lob_capacity, lob_data>>

(* Fetch: n rows come, all that was asked for or fewer with OCI_NO_DATA;      *)
(* ReadLobs starts on an empty buffer, given back when too large.             *)
Fetch(n, lobs) ==
  /\ HasCursor /\ ~done /\ batches < MaxBatches
  /\ n <= next_rows
  /\ batches' = batches + 1
  /\ done' \in IF n < next_rows THEN {TRUE} ELSE {FALSE, TRUE}
  /\ values' = lobs
  /\ item' = 1
  /\ lob_offset' = [i \in 1 .. n |-> 0] /\ lob_length' = [i \in 1 .. n |-> 0]
  /\ Shrunk
  /\ peak' = 0
  /\ pc' = "lobs"
  /\ UNCHANGED <<handles, next_rows, read, used, capacity_here>>

(* A value was truncated or not converted (CheckValues), a call of OCI        *)
(* failed, or a LOB is larger than 4 GiB: Fetch throws.                       *)
FetchFails ==
  /\ pc \in {"ready", "batch", "lobs", "read"}
  /\ pc' = "failed"
  /\ UNCHANGED <<handles, cursor>>

(* ReadLobs: a NULL has no LOB to read. *)
SkipNull ==
  /\ pc = "lobs" /\ item <= Len(values) /\ values[item] = Null
  /\ item' = item + 1
  /\ UNCHANGED <<pc, handles, fetch, read, used, capacity_here, index, buffer, peak>>

(* ReadLob: the length, then room for its longest form. *)
RoomFor(chars) == chars * kMaxUtf8BytesPerChar

ReadLob ==
  /\ pc = "lobs" /\ item <= Len(values) /\ values[item] # Null
  /\ capacity_here' = RoomFor(values[item])
  /\ ReserveLob(lob_used, lob_capacity, lob_data, capacity_here')
  /\ peak' = Greatest(peak, lob_used + capacity_here')
  /\ read' = 0 /\ used' = 0
  /\ pc' = "read"
  /\ UNCHANGED <<handles, fetch, item, index>>

(* OCILobRead2 returns some characters, one byte or more each: into the room   *)
(* left, else an error is thrown.                                              *)
ReadPiece(chars, bytes) ==
  /\ pc = "read" /\ read < values[item]
  /\ chars \in 1 .. values[item] - read
  /\ bytes \in chars .. chars * kMaxUtf8BytesPerChar
  /\ IF bytes > capacity_here - used
       THEN pc' = "failed" /\ UNCHANGED <<read, used, lob_data>>
       ELSE /\ lob_data' = [i \in DOMAIN lob_data |->
                 IF i - lob_used - used \in 1 .. bytes THEN <<item, i - lob_used>> ELSE lob_data[i]]
            /\ read' = read + chars /\ used' = used + bytes
            /\ UNCHANGED pc
  /\ UNCHANGED <<handles, fetch, item, capacity_here, index, lob_used, lob_capacity, peak>>

LobDone ==
  /\ pc = "read" /\ read = values[item]
  /\ lob_offset' = [lob_offset EXCEPT ![item] = lob_used]
  /\ lob_length' = [lob_length EXCEPT ![item] = used]
  /\ lob_used' = lob_used + used
  /\ item' = item + 1
  /\ pc' = "lobs"
  /\ UNCHANGED <<handles, fetch, read, used, capacity_here, lob_capacity, lob_data, peak>>

(* The next batch asks for the rows that fit the budget with this one's LOB   *)
(* bytes per row, rounded up.                                                 *)
NextRows(n) == RowsWithin(row_bytes + ((lob_used + n - 1) \div n), Rows)

FetchReturns ==
  /\ pc = "lobs" /\ item > Len(values)
  /\ next_rows' = IF values = <<>> THEN next_rows ELSE NextRows(Len(values))
  /\ pc' = "batch"
  /\ UNCHANGED <<handles, done, values, batches, locals, index, buffer, peak>>

Next ==
  \/ SessionStep /\ UNCHANGED cursor
  \/ Prepare \/ AllocLocator \/ Opened \/ FirstExecute \/ NextUnit \/ Release \/ FetchFails
  \/ \E n \in 0 .. Rows : \E lobs \in [1 .. n -> (0 .. MaxChars) \cup {Null}] : Fetch(n, lobs)
  \/ SkipNull \/ ReadLob
  \/ \E chars \in 1 .. MaxChars, bytes \in 1 .. MaxChars * kMaxUtf8BytesPerChar : ReadPiece(chars, bytes)
  \/ LobDone \/ FetchReturns

Spec == Init /\ [][Next]_vars

-----------------------------------------------------------------------------
Lob == (0 .. MaxChars) \cup {Null}

HandlesType ==
  /\ pc \in {"off", "err", "logon", "alter", "altering", "open", "define", "first", "ready",
            "lobs", "read", "batch", "failed", "logoff", "ended"}
  /\ env \in BOOLEAN /\ err \in BOOLEAN /\ svc \in BOOLEAN /\ guarded \in BOOLEAN /\ stmt \in BOOLEAN
  /\ locators \in 0 .. Rows

FetchType ==
  /\ done \in BOOLEAN /\ batches \in 0 .. MaxBatches
  /\ next_rows \in 1 .. Rows
  /\ values \in Seq(Lob) /\ Len(values) <= Rows

BufferType ==
  /\ item \in Nat /\ read \in Nat /\ used \in Nat /\ capacity_here \in Nat
  /\ lob_capacity \in Nat /\ lob_used \in 0 .. lob_capacity
  /\ lob_data \in [1 .. lob_capacity -> Nat \X Nat]
  /\ peak \in Nat

TypeOK == HandlesType /\ FetchType /\ BufferType

(* The values of a batch that were read so far, and all of them when Fetch    *)
(* returns, are whole in the buffer at their offsets, although the buffer     *)
(* moved under them and later values were read behind them.                   *)
ValuesAreIntact ==
  pc \in {"lobs", "read", "batch"} =>
    \A i \in 1 .. Least(item - 1, Len(values)) : values[i] # Null =>
      /\ lob_length[i] >= values[i]
      /\ \A j \in 1 .. lob_length[i] : lob_data[lob_offset[i] + j] = <<i, j>>

(* "kept up to twice that size": between batches the buffer grows past twice  *)
(* the budget only for a batch that needs it, at most to twice its need, and  *)
(* what one large batch took is given back before the next.                   *)
BufferIsBounded ==
  pc \in {"lobs", "read", "batch"} => lob_capacity <= Greatest(Keep, 2 * peak)

Reading == pc \in {"lobs", "read", "batch"}

(* Value i of the batch is whole, and lies before the values that follow. *)
Whole(i) ==
  /\ lob_offset[i] + lob_length[i] <= lob_used
  /\ values[i] <= lob_length[i]
  /\ \A j \in 1 .. lob_length[i] : lob_data[lob_offset[i] + j] = <<i, j>>

(* ReadLobs is at a value of the batch, and those before it are whole. *)
BatchInv ==
  Reading =>
    /\ item \in 1 .. Len(values) + 1
    /\ lob_offset \in [1 .. Len(values) -> Nat] /\ lob_length \in [1 .. Len(values) -> Nat]
    /\ \A i \in 1 .. item - 1 : values[i] # Null => Whole(i)

(* ReadLob wrote the first bytes of its value into the room it reserved. *)
ValueInv ==
  pc = "read" =>
    /\ item <= Len(values) /\ values[item] # Null
    /\ read <= values[item] /\ read <= used /\ used <= capacity_here
    /\ lob_used + capacity_here <= lob_capacity
    /\ \A j \in 1 .. used : lob_data[lob_used + j] = <<item, j>>

(* The inductive invariant. *)
IInv == TypeOK /\ HandlesInv /\ BatchInv /\ ValueInv /\ BufferIsBounded
=============================================================================
