--------------------------- MODULE FetchCursorProofs ---------------------------
(***************************************************************************)
(* For every budget, row size, number of rows and length of the LOB values: *)
(* the values of a batch stay whole in a buffer that moves and is bounded,  *)
(* and the handles of a thread are freed in order, whatever fails.          *)
(***************************************************************************)
EXTENDS FetchCursor, SequenceTheorems, TLAPS

(* A batch has at least a row, and no more than the most allowed. *)
LEMMA RowsWithinType ==
  ASSUME NEW bytes \in Nat \ {0}, NEW max \in Nat \ {0}
  PROVE RowsWithin(bytes, max) \in 1 .. max
<1>1. budget \div bytes \in Int
  BY CursorAssumption
<1> QED BY <1>1 DEF RowsWithin, Least, Greatest

(* The define arrays have a row, and the buffer a size it is given back at. *)
LEMMA SizesType == Rows \in Nat \ {0} /\ Keep \in Nat \ {0} /\ kInitialLobBytes <= Keep
<1>1. Rows \in 1 .. MaxRows
  BY CursorAssumption, RowsWithinType DEF Rows
<1> QED BY <1>1, CursorAssumption DEF Keep, Greatest

(* The buffer of no cursor. *)
LEMMA NoBytesType == NoBytes \in [1 .. 0 -> Nat \X Nat]
BY DEF NoBytes, Junk

(* A buffer that is reserved has the room asked for, and is at most twice what is needed. *)
LEMMA ReservedSize ==
  ASSUME NEW cap \in Nat, NEW u \in 0 .. cap, NEW n \in Nat
  PROVE /\ Reserved(u, cap, n) \in Nat /\ cap <= Reserved(u, cap, n) /\ u + n <= Reserved(u, cap, n)
        /\ Reserved(u, cap, n) <= Greatest(Greatest(cap, kInitialLobBytes), 2 * (u + n))
BY CursorAssumption DEF Reserved, Greatest

(* A buffer that moves keeps the bytes in use. *)
LEMMA MovedBytes ==
  ASSUME NEW cap \in Nat, NEW u \in 0 .. cap, NEW n \in Nat, NEW data \in [1 .. cap -> Nat \X Nat]
  PROVE /\ Moved(u, cap, data, n) \in [1 .. Reserved(u, cap, n) -> Nat \X Nat]
        /\ \A i \in 1 .. u : Moved(u, cap, data, n)[i] = data[i]
<1>1. Reserved(u, cap, n) \in Nat /\ cap <= Reserved(u, cap, n)
  BY ReservedSize
<1>2. CASE cap - u >= n
  BY <1>2 DEF Moved, Reserved
<1>3. CASE ~(cap - u >= n)
  <2>1. Moved(u, cap, data, n) = [i \in 1 .. Reserved(u, cap, n) |-> IF i <= u THEN data[i] ELSE Junk]
    BY <1>3 DEF Moved
  <2>2. Junk \in Nat \X Nat
    BY DEF Junk
  <2>3. \A i \in 1 .. Reserved(u, cap, n) : (i <= u => i \in 1 .. cap) /\ (i \in 1 .. u => i <= u)
    BY <1>1
  <2>4. 1 .. u \subseteq 1 .. Reserved(u, cap, n)
    BY <1>1
  <2>5. \A i \in 1 .. Reserved(u, cap, n) : (IF i <= u THEN data[i] ELSE Junk) \in Nat \X Nat
    BY <2>2, <2>3
  <2> HIDE DEF Moved, Reserved
  <2>6. Moved(u, cap, data, n) \in [1 .. Reserved(u, cap, n) -> Nat \X Nat]
    BY <2>1, <2>5
  <2>7. \A i \in 1 .. u : Moved(u, cap, data, n)[i] = data[i]
    BY <2>1, <2>3, <2>4
  <2> QED BY <2>6, <2>7
<1> QED BY <1>2, <1>3

(* A new buffer. *)
LEMMA NewBuffer ==
  ASSUME NEW n \in Nat
  PROVE /\ Reserved(0, 0, n) \in Nat /\ Reserved(0, 0, n) <= Greatest(n, kInitialLobBytes)
        /\ Moved(0, 0, NoBytes, n) \in [1 .. Reserved(0, 0, n) -> Nat \X Nat]
<1>1. 0 \in Nat /\ 0 \in 0 .. 0
  OBVIOUS
<1>2. Reserved(0, 0, n) \in Nat
  BY ONLY <1>1, ReservedSize, n \in Nat
<1>3. Reserved(0, 0, n) <= Greatest(n, kInitialLobBytes)
  BY CursorAssumption DEF Reserved, Greatest
<1>4. Moved(0, 0, NoBytes, n) \in [1 .. Reserved(0, 0, n) -> Nat \X Nat]
  BY ONLY <1>1, MovedBytes, NoBytesType, n \in Nat
<1> QED BY <1>2, <1>3, <1>4

(* A batch of no values. *)
LEMMA NoBatch == <<>> \in Seq(Lob) /\ Len(<<>>) = 0
OBVIOUS

(* A cursor that is closed leaves nothing. *)
LEMMA NoCursorType ==
  NoCursor => done' \in BOOLEAN /\ next_rows' = 1 /\ values' \in Seq(Lob) /\ Len(values') = 0 /\ BufferType'
<1> SUFFICES ASSUME NoCursor PROVE done' \in BOOLEAN /\ next_rows' = 1 /\ values' \in Seq(Lob) /\ Len(values') = 0 /\ BufferType'
  OBVIOUS
<1>1. values' = <<>>
  BY DEF NoCursor
<1>2. lob_capacity' = 0 /\ lob_data' = NoBytes
  BY DEF NoCursor
<1>3. lob_data' \in [1 .. lob_capacity' -> Nat \X Nat]
  BY <1>2, NoBytesType
<1>4. /\ done' \in BOOLEAN /\ next_rows' = 1 /\ item' = 0 /\ read' = 0 /\ used' = 0 /\ capacity_here' = 0
      /\ lob_used' = 0 /\ peak' = 0
  BY DEF NoCursor
<1>5. values' \in Seq(Lob) /\ Len(values') = 0
  BY ONLY <1>1, NoBatch
<1> QED BY <1>2, <1>3, <1>4, <1>5 DEF BufferType

(* What a thread has allocated fits where it is, after every step. *)
LEMMA HandlesStep == IInv /\ [Next]_vars => HandlesInv'
<1> SUFFICES ASSUME IInv, [Next]_vars PROVE HandlesInv'
  OBVIOUS
<1>0. HandlesInv /\ locators \in Nat
  BY SizesType DEF IInv, TypeOK, HandlesType
<1> USE CursorAssumption DEF HandlesInv, CursorStates, handles, fetch, locals, index, buffer, cursor
<1>1. CASE SessionStep /\ UNCHANGED cursor
  BY <1>0, <1>1 DEF SessionStep, CreateOciEnv, AllocError, Logon, LogonFailed, PrepareAlter, AlterSession, Logoff, Fails
<1>2. CASE Prepare
  <2>1. /\ pc = "open" /\ UNCHANGED <<env, err, svc, guarded, locators>>
        /\ (stmt' = TRUE /\ pc' = "define") \/ (stmt' = stmt /\ pc' = "logoff")
    BY <1>2 DEF Prepare, Fails
  <2> QED BY <1>0, <2>1
<1>3. CASE AllocLocator
  <2>1. /\ pc = "define" /\ UNCHANGED <<env, err, svc, guarded>>
        /\ (stmt' = stmt /\ pc' = pc) \/ (stmt' = FALSE /\ locators' = 0 /\ pc' = "logoff")
    BY <1>3 DEF AllocLocator, Close, Closed, NoCursor
  <2> QED BY <1>0, <2>1
<1>4. CASE Opened
  <2>1. /\ pc = "define" /\ UNCHANGED <<env, err, svc, guarded>>
        /\ (stmt' = stmt /\ locators' = locators /\ pc' = "first") \/ (stmt' = FALSE /\ locators' = 0 /\ pc' = "logoff")
    BY <1>4 DEF Opened, Close, Closed, NoCursor, ReserveLob
  <2> QED BY <1>0, <2>1
<1>5. CASE FirstExecute
  <2>1. /\ pc = "first" /\ UNCHANGED <<env, err, svc, guarded>>
        /\ (stmt' = stmt /\ locators' = locators /\ pc' = "ready") \/ (stmt' = FALSE /\ locators' = 0 /\ pc' = "logoff")
    BY <1>5 DEF FirstExecute, Executes, Close, Closed, NoCursor
  <2> QED BY <1>0, <2>1
<1>6. CASE NextUnit
  BY <1>0, <1>6 DEF NextUnit, HasCursor, Executes, Closed, NoCursor
<1>7. CASE Release
  BY <1>0, <1>7 DEF Release, HasCursor, Close, Closed, NoCursor
<1>8. CASE FetchFails
  BY <1>0, <1>8 DEF FetchFails
<1>9. ASSUME NEW n \in 0 .. Rows, NEW lobs \in [1 .. n -> Lob], Fetch(n, lobs) PROVE HandlesInv'
  BY <1>0, <1>9 DEF Fetch, HasCursor, Shrunk, ReserveLob
<1>10. CASE SkipNull
  BY <1>0, <1>10 DEF SkipNull
<1>11. CASE ReadLob
  BY <1>0, <1>11 DEF ReadLob, ReserveLob
<1>12. ASSUME NEW chars \in 1 .. MaxChars, NEW bytes \in 1 .. MaxChars * kMaxUtf8BytesPerChar, ReadPiece(chars, bytes) PROVE HandlesInv'
  BY <1>0, <1>12 DEF ReadPiece
<1>13. CASE LobDone
  BY <1>0, <1>13 DEF LobDone
<1>14. CASE FetchReturns
  BY <1>0, <1>14 DEF FetchReturns
<1>15. CASE UNCHANGED vars
  BY <1>0, <1>15 DEF vars
<1> HIDE CursorAssumption DEF HandlesInv, CursorStates, handles, fetch, locals, index, buffer, cursor
<1> QED BY <1>1, <1>2, <1>3, <1>4, <1>5, <1>6, <1>7, <1>8, <1>9, <1>10, <1>11, <1>12, <1>13, <1>14, <1>15 DEF Next, Lob

(* Every step keeps the types of the handles. *)
LEMMA HandlesTypeStep == IInv /\ [Next]_vars => HandlesType'
<1> SUFFICES ASSUME IInv, [Next]_vars PROVE HandlesType'
  OBVIOUS
<1>0. HandlesType /\ Rows \in Nat
  BY SizesType DEF IInv, TypeOK
<1> USE CursorAssumption DEF HandlesType, handles, fetch, locals, index, buffer, cursor
<1>1. CASE SessionStep /\ UNCHANGED cursor
  BY <1>0, <1>1 DEF SessionStep, CreateOciEnv, AllocError, Logon, LogonFailed, PrepareAlter, AlterSession, Logoff, Fails
<1>2. CASE Prepare
  BY <1>0, <1>2 DEF Prepare, Fails
<1>3. CASE AllocLocator
  <2>1. locators' \in 0 .. Rows
    BY <1>0, <1>3 DEF AllocLocator, Close, Closed, NoCursor
  <2>2. /\ pc' \in {"define", "logoff"} /\ stmt' \in {stmt, FALSE} /\ UNCHANGED <<env, err, svc, guarded>>
    BY <1>0, <1>3 DEF AllocLocator, Close, Closed, NoCursor
  <2> QED BY <1>0, <2>1, <2>2
<1>4. CASE Opened
  <2>1. /\ pc' \in {"first", "logoff"} /\ stmt' \in {stmt, FALSE}
        /\ UNCHANGED <<env, err, svc, guarded>>
    BY <1>0, <1>4 DEF Opened, Close, Closed
  <2>2. locators' \in 0 .. Rows
    BY <1>0, <1>4 DEF Opened, Close, Closed
  <2> QED BY <1>0, <2>1, <2>2
<1>5. CASE FirstExecute
  <2>1. /\ pc' \in {"ready", "logoff"} /\ stmt' \in {stmt, FALSE}
        /\ UNCHANGED <<env, err, svc, guarded>>
    BY <1>0, <1>5 DEF FirstExecute, Executes, Close, Closed
  <2>2. locators' \in 0 .. Rows
    BY <1>0, <1>5 DEF FirstExecute, Close, Closed
  <2> QED BY <1>0, <2>1, <2>2
<1>6. CASE NextUnit
  <2>1. /\ pc' \in {"ready", "failed", "open"} /\ stmt' \in {stmt, FALSE}
        /\ UNCHANGED <<env, err, svc, guarded>>
    BY <1>0, <1>6 DEF NextUnit, Executes, Closed
  <2>2. locators' \in 0 .. Rows
    BY <1>0, <1>6 DEF NextUnit, Closed
  <2> QED BY <1>0, <2>1, <2>2
<1>7. CASE Release
  <2>1. locators' = 0 /\ stmt' \in BOOLEAN /\ pc' = "logoff" /\ UNCHANGED <<env, err, svc, guarded>>
    BY <1>7 DEF Release, Close, Closed
  <2> QED BY <1>0, <2>1
<1>8. CASE FetchFails
  BY <1>0, <1>8 DEF FetchFails
<1>9. ASSUME NEW n \in 0 .. Rows, NEW lobs \in [1 .. n -> Lob], Fetch(n, lobs) PROVE HandlesType'
  BY <1>0, <1>9 DEF Fetch, HasCursor, Shrunk, ReserveLob
<1>10. CASE SkipNull
  BY <1>0, <1>10 DEF SkipNull
<1>11. CASE ReadLob
  BY <1>0, <1>11 DEF ReadLob, ReserveLob
<1>12. ASSUME NEW chars \in 1 .. MaxChars, NEW bytes \in 1 .. MaxChars * kMaxUtf8BytesPerChar, ReadPiece(chars, bytes) PROVE HandlesType'
  BY <1>0, <1>12 DEF ReadPiece
<1>13. CASE LobDone
  BY <1>0, <1>13 DEF LobDone
<1>14. CASE FetchReturns
  BY <1>0, <1>14 DEF FetchReturns
<1>15. CASE UNCHANGED vars
  BY <1>0, <1>15 DEF vars
<1> HIDE CursorAssumption DEF HandlesType, handles, fetch, locals, index, buffer, cursor
<1> QED BY <1>1, <1>2, <1>3, <1>4, <1>5, <1>6, <1>7, <1>8, <1>9, <1>10, <1>11, <1>12, <1>13, <1>14, <1>15 DEF Next, Lob

(* Every step keeps the types of the batch. *)
LEMMA FetchTypeStep == IInv /\ [Next]_vars => FetchType'
<1> SUFFICES ASSUME IInv, [Next]_vars PROVE FetchType'
  OBVIOUS
<1>0. FetchType /\ Rows \in Nat \ {0}
  BY SizesType DEF IInv, TypeOK
<1> USE CursorAssumption DEF FetchType, handles, fetch, locals, index, buffer, cursor
<1>1. CASE SessionStep /\ UNCHANGED cursor
  BY <1>0, <1>1 DEF SessionStep, CreateOciEnv, AllocError, Logon, LogonFailed, PrepareAlter, AlterSession, Logoff, Fails
<1>2. CASE Prepare
  BY <1>0, <1>2 DEF Prepare, Fails
<1>3. CASE AllocLocator
  BY <1>0, <1>3, NoCursorType DEF AllocLocator, Close
<1>4. CASE Opened
  BY <1>0, <1>4, NoCursorType DEF Opened, Close
<1>5. CASE FirstExecute
  <2>1. CASE Close("logoff")
    BY <1>0, <2>1, NoCursorType DEF Close
  <2>2. CASE done' \in BOOLEAN /\ values' = <<>> /\ UNCHANGED <<batches, next_rows>>
    <3>1. values' \in Seq(Lob) /\ Len(values') = 0
      BY ONLY <2>2, NoBatch
    <3> QED BY <1>0, <2>2, <3>1
  <2> QED BY <1>5, <2>1, <2>2 DEF FirstExecute, Executes
<1>6. CASE NextUnit
  <2>1. batches' \in 0 .. MaxBatches
    BY <1>0, <1>6 DEF NextUnit
  <2>2. CASE NoCursor
    BY <1>0, <2>1, <2>2, NoCursorType
  <2>3. CASE done' \in BOOLEAN /\ values' = <<>> /\ UNCHANGED next_rows
    <3>1. values' \in Seq(Lob) /\ Len(values') = 0
      BY ONLY <2>3, NoBatch
    <3> QED BY <1>0, <2>1, <2>3, <3>1
  <2>4. CASE UNCHANGED <<done, next_rows, values>>
    BY <1>0, <2>1, <2>4
  <2> QED BY <1>6, <2>2, <2>3, <2>4 DEF NextUnit, Executes
<1>7. CASE Release
  BY <1>0, <1>7, NoCursorType DEF Release, Close
<1>8. CASE FetchFails
  BY <1>0, <1>8 DEF FetchFails
<1>9. ASSUME NEW n \in 0 .. Rows, NEW lobs \in [1 .. n -> Lob], Fetch(n, lobs) PROVE FetchType'
  <2>1. lobs \in Seq(Lob) /\ Len(lobs) = n
    BY <1>0 DEF Lob
  <2>2. done' \in BOOLEAN /\ batches' = batches + 1 /\ batches < MaxBatches /\ values' = lobs /\ next_rows' = next_rows
    BY <1>0, <1>9 DEF Fetch
  <2> QED BY <1>0, <2>1, <2>2
<1>10. CASE SkipNull
  BY <1>0, <1>10 DEF SkipNull
<1>11. CASE ReadLob
  BY <1>0, <1>11 DEF ReadLob, ReserveLob
<1>12. ASSUME NEW chars \in 1 .. MaxChars, NEW bytes \in 1 .. MaxChars * kMaxUtf8BytesPerChar, ReadPiece(chars, bytes) PROVE FetchType'
  BY <1>0, <1>12 DEF ReadPiece
<1>13. CASE LobDone
  BY <1>0, <1>13 DEF LobDone
<1>14. CASE FetchReturns
  <2>1. ASSUME values # <<>> PROVE NextRows(Len(values)) \in 1 .. Rows
    <3>1. Len(values) \in Nat \ {0} /\ lob_used \in Nat
      BY <1>0, <2>1 DEF IInv, TypeOK, BufferType
    <3>2. row_bytes + ((lob_used + Len(values) - 1) \div Len(values)) \in Nat \ {0}
      BY <3>1
    <3> QED BY <1>0, <3>2, RowsWithinType, SizesType DEF NextRows
  <2> QED BY <1>0, <1>14, <2>1 DEF FetchReturns
<1>15. CASE UNCHANGED vars
  BY <1>0, <1>15 DEF vars
<1> HIDE CursorAssumption DEF FetchType, handles, fetch, locals, index, buffer, cursor
<1> QED BY <1>1, <1>2, <1>3, <1>4, <1>5, <1>6, <1>7, <1>8, <1>9, <1>10, <1>11, <1>12, <1>13, <1>14, <1>15 DEF Next, Lob

(* Every step keeps the types of the buffer, and what is used within it. *)
LEMMA BufferTypeStep == IInv /\ [Next]_vars => BufferType'
<1> SUFFICES ASSUME IInv, [Next]_vars PROVE BufferType'
  OBVIOUS
<1>0. BufferType
  BY DEF IInv, TypeOK
<1> USE CursorAssumption DEF BufferType, handles, fetch, locals, index, buffer, cursor
<1>1. CASE SessionStep /\ UNCHANGED cursor
  BY <1>0, <1>1 DEF SessionStep, CreateOciEnv, AllocError, Logon, LogonFailed, PrepareAlter, AlterSession, Logoff, Fails
<1>2. CASE Prepare
  BY <1>0, <1>2 DEF Prepare, Fails
<1>3. CASE AllocLocator
  <2>1. CASE Close("logoff")
    BY <2>1, NoCursorType DEF Close
  <2>2. CASE UNCHANGED cursor
    BY <1>0, <2>2
  <2> QED BY <1>3, <2>1, <2>2 DEF AllocLocator
<1>4. CASE Opened
  <2>1. CASE Close("logoff")
    BY <2>1, NoCursorType DEF Close
  <2>2. CASE ReserveLob(0, 0, NoBytes, kInitialLobBytes) /\ UNCHANGED <<locals, peak>>
    BY <1>0, <2>2, NewBuffer DEF ReserveLob
  <2> QED BY <1>4, <2>1, <2>2 DEF Opened
<1>5. CASE FirstExecute
  <2>1. CASE Close("logoff")
    BY <2>1, NoCursorType DEF Close
  <2>2. CASE Executes /\ UNCHANGED <<locals, lob_capacity, lob_data, peak>>
    BY <1>0, <2>2 DEF Executes
  <2> QED BY <1>5, <2>1, <2>2 DEF FirstExecute
<1>6. CASE NextUnit
  <2>1. CASE NoCursor
    BY <2>1, NoCursorType
  <2>2. CASE Executes /\ UNCHANGED <<locals, lob_capacity, lob_data, peak>>
    BY <1>0, <2>2 DEF Executes
  <2>3. CASE UNCHANGED <<locals, buffer, peak>>
    BY <1>0, <2>3
  <2> QED BY <1>6, <2>1, <2>2, <2>3 DEF NextUnit
<1>7. CASE Release
  BY <1>0, <1>7, NoCursorType DEF Release, Close
<1>8. CASE FetchFails
  BY <1>0, <1>8 DEF FetchFails
<1>9. ASSUME NEW n \in 0 .. Rows, NEW lobs \in [1 .. n -> Lob], Fetch(n, lobs) PROVE BufferType'
  <2>1. item' \in Nat /\ peak' \in Nat /\ UNCHANGED <<read, used, capacity_here>> /\ Shrunk
    BY <1>9 DEF Fetch
  <2>2. CASE lob_capacity > Keep
    <3>1. Keep \in Nat
      BY SizesType
    <3> QED BY <1>0, <2>1, <2>2, <3>1, NewBuffer DEF Shrunk, ReserveLob
  <2>3. CASE ~(lob_capacity > Keep)
    BY <1>0, <2>1, <2>3 DEF Shrunk
  <2> QED BY <2>2, <2>3
<1>10. CASE SkipNull
  BY <1>0, <1>10 DEF SkipNull
<1>11. CASE ReadLob
  <2> DEFINE n == RoomFor(values[item])
  <2>1. n \in Nat
    <3>1. values[item] \in Nat
      BY <1>11, <1>0 DEF ReadLob, IInv, TypeOK, FetchType, BatchInv, Reading, Lob
    <3> QED BY <3>1 DEF RoomFor
  <2> HIDE DEF n
  <2>a. lob_capacity \in Nat /\ lob_used \in 0 .. lob_capacity
    BY <1>0
  <2>2. Reserved(lob_used, lob_capacity, n) \in Nat /\ lob_capacity <= Reserved(lob_used, lob_capacity, n)
    BY ONLY <2>a, <2>1, ReservedSize
  <2>3. Moved(lob_used, lob_capacity, lob_data, n) \in [1 .. Reserved(lob_used, lob_capacity, n) -> Nat \X Nat]
    BY <1>0, <2>1, MovedBytes
  <2>4. /\ lob_used' = lob_used /\ lob_capacity' = Reserved(lob_used, lob_capacity, n)
        /\ lob_data' = Moved(lob_used, lob_capacity, lob_data, n)
        /\ capacity_here' = n /\ peak' = Greatest(peak, lob_used + n) /\ read' = 0 /\ used' = 0 /\ item' = item
    BY <1>11 DEF ReadLob, ReserveLob, n
  <2> QED BY <1>0, <2>1, <2>2, <2>3, <2>4 DEF Greatest
<1>12. ASSUME NEW chars \in 1 .. MaxChars, NEW bytes \in 1 .. MaxChars * kMaxUtf8BytesPerChar, ReadPiece(chars, bytes) PROVE BufferType'
  <2>1. CASE UNCHANGED <<read, used, lob_data>>
    BY <1>0, <1>12, <2>1 DEF ReadPiece
  <2>2. CASE /\ lob_data' = [i \in DOMAIN lob_data |->
                 IF i - lob_used - used \in 1 .. bytes THEN <<item, i - lob_used>> ELSE lob_data[i]]
             /\ read' = read + chars /\ used' = used + bytes
    <3>1. \A i \in 1 .. lob_capacity : i - lob_used - used \in 1 .. bytes => i - lob_used \in Nat
      BY <1>0
    <3>2. lob_data' \in [1 .. lob_capacity -> Nat \X Nat]
      BY <1>0, <2>2, <3>1
    <3>3. bytes \in Nat /\ chars \in Nat
      OBVIOUS
    <3> QED BY <1>0, <1>12, <2>2, <3>2, <3>3 DEF ReadPiece
  <2> QED BY <1>12, <2>1, <2>2 DEF ReadPiece
<1>13. CASE LobDone
  <2>1. lob_used + used <= lob_capacity
    BY <1>0, <1>13 DEF LobDone, IInv, ValueInv
  <2> QED BY <1>0, <1>13, <2>1 DEF LobDone
<1>14. CASE FetchReturns
  BY <1>0, <1>14 DEF FetchReturns
<1>15. CASE UNCHANGED vars
  BY <1>0, <1>15 DEF vars
<1> HIDE CursorAssumption DEF BufferType, handles, fetch, locals, index, buffer, cursor
<1> QED BY <1>1, <1>2, <1>3, <1>4, <1>5, <1>6, <1>7, <1>8, <1>9, <1>10, <1>11, <1>12, <1>13, <1>14, <1>15 DEF Next, Lob

(* No other action works on a batch. *)
LEMMA LeavesTheBatch ==
  ASSUME SessionStep \/ Prepare \/ AllocLocator \/ Opened \/ FirstExecute \/ NextUnit \/ Release \/ FetchFails
  PROVE pc' \notin {"lobs", "read", "batch"}
BY DEF SessionStep, CreateOciEnv, AllocError, Logon, LogonFailed, PrepareAlter, AlterSession, Logoff, Fails,
       Prepare, AllocLocator, Opened, FirstExecute, NextUnit, Executes, Release, Close, FetchFails

(* The value ReadLob is at, the room for it, and where it is written. *)
LEMMA ReadLobReserves ==
  ASSUME IInv, ReadLob
  PROVE /\ RoomFor(values[item]) \in Nat /\ values[item] \in Nat /\ item \in 1 .. Len(values)
        /\ lob_capacity' = Reserved(lob_used, lob_capacity, RoomFor(values[item]))
        /\ lob_used + RoomFor(values[item]) <= lob_capacity' /\ lob_capacity' \in Nat
        /\ lob_capacity' <= Greatest(Greatest(lob_capacity, kInitialLobBytes), 2 * (lob_used + RoomFor(values[item])))
        /\ \A i \in 1 .. lob_used : lob_data'[i] = lob_data[i]
        /\ UNCHANGED <<lob_used, values, item, lob_offset, lob_length>>
<1> DEFINE n == RoomFor(values[item])
<1>0. TypeOK /\ BatchInv
  BY DEF IInv
<1>1. item \in 1 .. Len(values) /\ values[item] # Null
  BY <1>0 DEF ReadLob, BatchInv, Reading, TypeOK, FetchType, BufferType
<1>2. values[item] \in Nat
  BY <1>0, <1>1, CursorAssumption DEF TypeOK, FetchType, Lob
<1>3. n \in Nat
  BY <1>2, CursorAssumption DEF RoomFor
<1>4. lob_capacity \in Nat /\ lob_used \in 0 .. lob_capacity /\ lob_data \in [1 .. lob_capacity -> Nat \X Nat]
  BY <1>0 DEF TypeOK, BufferType
<1>5. lob_capacity' = Reserved(lob_used, lob_capacity, n) /\ lob_data' = Moved(lob_used, lob_capacity, lob_data, n)
  BY DEF ReadLob, ReserveLob
<1>6. UNCHANGED <<lob_used, values, item, lob_offset, lob_length>>
  BY DEF ReadLob, ReserveLob, fetch, index
<1> HIDE DEF n
<1>7. /\ Reserved(lob_used, lob_capacity, n) \in Nat /\ lob_used + n <= Reserved(lob_used, lob_capacity, n)
      /\ Reserved(lob_used, lob_capacity, n) <= Greatest(Greatest(lob_capacity, kInitialLobBytes), 2 * (lob_used + n))
  BY ONLY <1>3, <1>4, ReservedSize
<1>8. \A i \in 1 .. lob_used : Moved(lob_used, lob_capacity, lob_data, n)[i] = lob_data[i]
  BY ONLY <1>3, <1>4, MovedBytes
<1> QED BY <1>1, <1>2, <1>3, <1>5, <1>6, <1>7, <1>8 DEF n

(* Every step keeps the buffer within twice the budget, or twice what the batch needs. *)
LEMMA BoundStep == IInv /\ [Next]_vars => BufferIsBounded'
<1> SUFFICES ASSUME IInv, [Next]_vars PROVE BufferIsBounded'
  OBVIOUS
<1> USE CursorAssumption DEF handles, fetch, locals, index, buffer, cursor
<1>0. TypeOK /\ HandlesInv /\ BatchInv /\ ValueInv /\ BufferIsBounded
  BY DEF IInv
<1>1. CASE pc' \notin {"lobs", "read", "batch"}
  BY <1>1 DEF BufferIsBounded
<1>2. ASSUME NEW n \in 0 .. Rows, NEW lobs \in [1 .. n -> Lob], Fetch(n, lobs) PROVE BufferIsBounded'
  <2>1. Keep \in Nat /\ kInitialLobBytes <= Keep /\ kInitialLobBytes \in Nat
    BY SizesType
  <2>2. lob_capacity' <= Keep
    <3>1. CASE lob_capacity > Keep
      <4>1. Reserved(0, 0, Keep) <= Greatest(Keep, kInitialLobBytes)
        BY <2>1, NewBuffer
      <4> QED BY <1>2, <2>1, <3>1, <4>1 DEF Fetch, Shrunk, ReserveLob, Greatest
    <3>2. CASE ~(lob_capacity > Keep)
      BY <1>0, <1>2, <2>1, <3>2 DEF Fetch, Shrunk, TypeOK, BufferType
    <3> QED BY <3>1, <3>2
  <2>3. Keep' = Keep /\ peak' = 0
    BY <1>2 DEF Fetch, Keep
  <2>4. lob_capacity' \in Nat
    BY BufferTypeStep DEF BufferType
  <2> QED BY <2>1, <2>2, <2>3, <2>4 DEF BufferIsBounded, Greatest
<1>3. CASE SkipNull
  BY <1>0, <1>3 DEF SkipNull, BufferIsBounded, Keep, Greatest
<1>4. CASE ReadLob
  <2> DEFINE n == RoomFor(values[item])
  <2>1. n \in Nat /\ lob_capacity' \in Nat /\ lob_capacity' <= Greatest(Greatest(lob_capacity, kInitialLobBytes), 2 * (lob_used + n))
    BY <1>4, ReadLobReserves
  <2>2. peak' = Greatest(peak, lob_used + n) /\ pc = "lobs"
    BY <1>4 DEF ReadLob
  <2>3. peak \in Nat /\ lob_used \in Nat /\ lob_capacity \in Nat
    BY <1>0 DEF TypeOK, BufferType
  <2>4. Keep \in Nat /\ kInitialLobBytes <= Keep /\ kInitialLobBytes \in Nat /\ Keep' = Keep
    BY SizesType DEF Keep
  <2>5. lob_capacity <= Greatest(Keep, 2 * peak)
    BY <1>0, <2>2 DEF BufferIsBounded
  <2> HIDE DEF n
  <2> QED BY <2>1, <2>2, <2>3, <2>4, <2>5 DEF BufferIsBounded, Greatest
<1>5. ASSUME NEW chars \in 1 .. MaxChars, NEW bytes \in 1 .. MaxChars * kMaxUtf8BytesPerChar, ReadPiece(chars, bytes) PROVE BufferIsBounded'
  BY <1>0, <1>5 DEF ReadPiece, BufferIsBounded, Keep, Greatest
<1>6. CASE LobDone
  BY <1>0, <1>6 DEF LobDone, BufferIsBounded, Keep, Greatest
<1>7. CASE FetchReturns
  BY <1>0, <1>7 DEF FetchReturns, BufferIsBounded, Keep, Greatest
<1>8. CASE UNCHANGED vars
  BY <1>0, <1>8 DEF vars, BufferIsBounded
<1> QED BY <1>1, <1>2, <1>3, <1>4, <1>5, <1>6, <1>7, <1>8, LeavesTheBatch DEF Next, Lob

(* Every step keeps the first bytes of the value that is read where they belong. *)
LEMMA ValueStep == IInv /\ [Next]_vars => ValueInv'
<1> SUFFICES ASSUME IInv, [Next]_vars PROVE ValueInv'
  OBVIOUS
<1> USE CursorAssumption DEF handles, fetch, locals, index, buffer, cursor
<1>0. TypeOK /\ HandlesInv /\ BatchInv /\ ValueInv /\ BufferIsBounded
  BY DEF IInv
<1>1. CASE pc' \notin {"lobs", "read", "batch"}
  BY <1>1 DEF ValueInv
<1>2. ASSUME NEW n \in 0 .. Rows, NEW lobs \in [1 .. n -> Lob], Fetch(n, lobs) PROVE ValueInv'
  BY <1>2 DEF Fetch, ValueInv
<1>3. CASE SkipNull
  BY <1>3 DEF SkipNull, ValueInv
<1>4. CASE ReadLob
  <2>1. read' = 0 /\ used' = 0 /\ capacity_here' = RoomFor(values[item]) /\ values[item] # Null /\ item <= Len(values)
    BY <1>4 DEF ReadLob
  <2> QED BY <1>4, <2>1, ReadLobReserves DEF ValueInv
<1>5. ASSUME NEW chars \in 1 .. MaxChars, NEW bytes \in 1 .. MaxChars * kMaxUtf8BytesPerChar, ReadPiece(chars, bytes) PROVE ValueInv'
  <2>1. CASE pc' = "failed"
    BY <2>1 DEF ValueInv
  <2>2. CASE /\ ~(bytes > capacity_here - used)
             /\ lob_data' = [i \in DOMAIN lob_data |->
                  IF i - lob_used - used \in 1 .. bytes THEN <<item, i - lob_used>> ELSE lob_data[i]]
             /\ read' = read + chars /\ used' = used + bytes
    <3>1. UNCHANGED <<values, item, capacity_here, lob_used, lob_capacity>> /\ pc = "read" /\ chars <= values[item] - read /\ chars <= bytes
      BY <1>5 DEF ReadPiece
    <3>2. /\ item \in Nat /\ read \in Nat /\ used \in Nat /\ capacity_here \in Nat /\ lob_used \in Nat /\ lob_capacity \in Nat
          /\ DOMAIN lob_data = 1 .. lob_capacity /\ bytes \in Nat /\ chars \in Nat
      BY <1>0 DEF TypeOK, BufferType
    <3>3. /\ item <= Len(values) /\ values[item] # Null /\ read <= values[item] /\ read <= used /\ used <= capacity_here
          /\ lob_used + capacity_here <= lob_capacity /\ \A j \in 1 .. used : lob_data[lob_used + j] = <<item, j>>
      BY <1>0, <3>1 DEF ValueInv
    <3>4. values[item] \in Nat
      BY <1>0, <3>1, <3>3 DEF TypeOK, FetchType, BatchInv, Reading, Lob
    <3>5. \A j \in 1 .. used + bytes : lob_data'[lob_used + j] = <<item, j>>
      <4> SUFFICES ASSUME NEW j \in 1 .. used + bytes PROVE lob_data'[lob_used + j] = <<item, j>>
        OBVIOUS
      <4>1. lob_used + j \in 1 .. lob_capacity /\ j \in Nat
        BY <2>2, <3>2, <3>3
      <4>2. lob_data'[lob_used + j] = IF lob_used + j - lob_used - used \in 1 .. bytes THEN <<item, lob_used + j - lob_used>> ELSE lob_data[lob_used + j]
        BY <2>2, <3>2, <4>1
      <4>3. CASE j <= used
        BY <3>2, <3>3, <4>1, <4>2, <4>3
      <4>4. CASE ~(j <= used)
        <5>1. lob_used + j - lob_used - used \in 1 .. bytes /\ lob_used + j - lob_used = j
          BY <3>2, <4>1, <4>4
        <5> QED BY <4>2, <5>1
      <4> QED BY <4>3, <4>4
    <3>6. read + chars <= values[item] /\ read + chars <= used + bytes /\ used + bytes <= capacity_here
      BY <2>2, <3>1, <3>2, <3>3, <3>4
    <3> QED BY <2>2, <3>1, <3>3, <3>5, <3>6 DEF ValueInv
  <2> QED BY <1>5, <2>1, <2>2 DEF ReadPiece
<1>6. CASE LobDone
  BY <1>6 DEF LobDone, ValueInv
<1>7. CASE FetchReturns
  BY <1>7 DEF FetchReturns, ValueInv
<1>8. CASE UNCHANGED vars
  BY <1>0, <1>8 DEF vars, ValueInv
<1> QED BY <1>1, <1>2, <1>3, <1>4, <1>5, <1>6, <1>7, <1>8, LeavesTheBatch DEF Next, Lob

(* Every step keeps the values before the one that is read whole. *)
LEMMA BatchStep == IInv /\ [Next]_vars => BatchInv'
<1> SUFFICES ASSUME IInv, [Next]_vars PROVE BatchInv'
  OBVIOUS
<1> USE CursorAssumption DEF handles, fetch, locals, index, buffer, cursor
<1>0. TypeOK /\ HandlesInv /\ BatchInv /\ ValueInv /\ BufferIsBounded
  BY DEF IInv
<1>1. CASE pc' \notin {"lobs", "read", "batch"}
  BY <1>1 DEF BatchInv, Reading, Whole
<1>2. ASSUME NEW n \in 0 .. Rows, NEW lobs \in [1 .. n -> Lob], Fetch(n, lobs) PROVE BatchInv'
  <2>1. item' = 1 /\ values' = lobs /\ lob_offset' = [i \in 1 .. n |-> 0] /\ lob_length' = [i \in 1 .. n |-> 0]
    BY <1>2 DEF Fetch
  <2>2. Len(lobs) = n /\ n \in Nat
    BY SizesType
  <2> QED BY <2>1, <2>2 DEF BatchInv
<1>3. CASE SkipNull
  <2>1. /\ item' = item + 1 /\ item <= Len(values) /\ values[item] = Null /\ Reading
        /\ UNCHANGED <<pc, values, lob_offset, lob_length, lob_used, lob_data>>
    BY <1>3 DEF SkipNull, Reading
  <2>2. item \in Nat /\ Len(values) \in Nat
    BY <1>0 DEF TypeOK, FetchType, BufferType
  <2>3. \A i \in 1 .. item - 1 : values[i] # Null => Whole(i)'
    BY <1>0, <2>1 DEF BatchInv, Whole
  <2>4. \A i \in 1 .. item : values[i] # Null => Whole(i)'
    <3> SUFFICES ASSUME NEW i \in 1 .. item, values[i] # Null PROVE Whole(i)'
      OBVIOUS
    <3>1. i \in 1 .. item - 1
      BY <2>1, <2>2
    <3> QED BY <2>3, <3>1
  <2>5. item + 1 \in 1 .. Len(values) + 1 /\ (item + 1) - 1 = item
    BY <1>0, <2>1, <2>2 DEF BatchInv
  <2> QED BY <1>0, <2>1, <2>4, <2>5 DEF BatchInv
<1>4. CASE ReadLob
  <2>1. Reading /\ pc = "lobs" /\ pc' = "read"
    BY <1>4 DEF ReadLob, Reading
  <2>2. \A i \in 1 .. item - 1 : values[i] # Null => Whole(i)'
    <3> SUFFICES ASSUME NEW i \in 1 .. item - 1, values[i] # Null PROVE Whole(i)'
      OBVIOUS
    <3>0. i \in 1 .. Len(values) /\ lob_used \in Nat
      BY <1>0, <1>4, ReadLobReserves DEF TypeOK, FetchType, BufferType
    <3>1. Whole(i) /\ lob_offset[i] \in Nat /\ lob_length[i] \in Nat
      BY <1>0, <2>1, <3>0 DEF BatchInv
    <3>2. \A j \in 1 .. lob_length[i] : lob_offset[i] + j \in 1 .. lob_used
      BY <3>0, <3>1 DEF Whole
    <3> QED BY <1>4, <3>1, <3>2, ReadLobReserves DEF Whole
  <2> QED BY <1>0, <1>4, <2>1, <2>2, ReadLobReserves DEF BatchInv
<1>5. ASSUME NEW chars \in 1 .. MaxChars, NEW bytes \in 1 .. MaxChars * kMaxUtf8BytesPerChar, ReadPiece(chars, bytes) PROVE BatchInv'
  <2>1. CASE pc' = "failed"
    BY <2>1 DEF BatchInv, Reading
  <2>2. CASE lob_data' = [i \in DOMAIN lob_data |->
               IF i - lob_used - used \in 1 .. bytes THEN <<item, i - lob_used>> ELSE lob_data[i]]
    <3>1. UNCHANGED <<values, item, lob_used, lob_offset, lob_length>> /\ Reading
      BY <1>5 DEF ReadPiece, Reading
    <3>2. lob_used \in 0 .. lob_capacity /\ lob_capacity \in Nat /\ used \in Nat /\ DOMAIN lob_data = 1 .. lob_capacity /\ item \in Nat
      BY <1>0 DEF TypeOK, BufferType
    <3>3. \A i \in 1 .. lob_used : lob_data'[i] = lob_data[i]
      BY <2>2, <3>2
    <3>4. \A i \in 1 .. item - 1 : values[i] # Null => Whole(i)'
      <4> SUFFICES ASSUME NEW i \in 1 .. item - 1, values[i] # Null PROVE Whole(i)'
        OBVIOUS
      <4>1. Whole(i) /\ lob_offset[i] \in Nat /\ lob_length[i] \in Nat
        BY <1>0, <3>1, <3>2 DEF BatchInv
      <4>2. \A j \in 1 .. lob_length[i] : lob_offset[i] + j \in 1 .. lob_used
        BY <3>2, <4>1 DEF Whole
      <4> QED BY <3>1, <3>3, <4>1, <4>2 DEF Whole
    <3> QED BY <1>0, <3>1, <3>4 DEF BatchInv
  <2> QED BY <1>5, <2>1, <2>2 DEF ReadPiece
<1>6. CASE LobDone
  <2>1. /\ pc = "read" /\ pc' = "lobs" /\ item' = item + 1 /\ read = values[item] /\ lob_used' = lob_used + used
        /\ lob_offset' = [lob_offset EXCEPT ![item] = lob_used] /\ lob_length' = [lob_length EXCEPT ![item] = used]
        /\ UNCHANGED <<values, lob_data>>
    BY <1>6 DEF LobDone
  <2>2. Reading
    BY <2>1 DEF Reading
  <2>3. /\ item \in 1 .. Len(values) /\ lob_offset \in [1 .. Len(values) -> Nat] /\ lob_length \in [1 .. Len(values) -> Nat]
        /\ \A i \in 1 .. item - 1 : values[i] # Null => Whole(i)
    BY <1>0, <2>1, <2>2 DEF BatchInv, ValueInv
  <2>4. used \in Nat /\ lob_used \in Nat /\ Len(values) \in Nat
    BY <1>0 DEF TypeOK, BufferType, FetchType
  <2>5. ASSUME NEW i \in 1 .. Len(values), i = item PROVE Whole(i)'
    <3>1. lob_offset'[i] = lob_used /\ lob_length'[i] = used
      BY <2>1, <2>3, <2>5
    <3>2. values[i] <= used /\ \A j \in 1 .. used : lob_data[lob_used + j] = <<i, j>>
      BY <1>0, <2>1, <2>5 DEF ValueInv
    <3> QED BY <2>1, <2>4, <3>1, <3>2 DEF Whole
  <2>6. ASSUME NEW i \in 1 .. item - 1, values[i] # Null PROVE Whole(i)'
    <3>1. Whole(i) /\ lob_offset'[i] = lob_offset[i] /\ lob_length'[i] = lob_length[i] /\ lob_offset[i] \in Nat /\ lob_length[i] \in Nat
      BY <2>1, <2>3, <2>4, <2>6
    <3>2. lob_offset[i] + lob_length[i] <= lob_used + used
      BY <2>4, <3>1 DEF Whole
    <3> QED BY <2>1, <3>1, <3>2 DEF Whole
  <2>7. \A i \in 1 .. item : values[i] # Null => Whole(i)'
    <3> SUFFICES ASSUME NEW i \in 1 .. item, values[i] # Null PROVE Whole(i)'
      OBVIOUS
    <3>1. i = item \/ i \in 1 .. item - 1
      BY <2>3
    <3>2. i \in 1 .. Len(values)
      BY <2>3, <2>4
    <3> QED BY <2>5, <2>6, <3>1, <3>2
  <2> QED BY <2>1, <2>3, <2>4, <2>7 DEF BatchInv
<1>7. CASE FetchReturns
  <2>1. Reading /\ UNCHANGED <<values, item, lob_offset, lob_length, lob_used, lob_data>>
    BY <1>7 DEF FetchReturns, Reading
  <2> QED BY <1>0, <2>1 DEF BatchInv, Whole
<1>8. CASE UNCHANGED vars
  BY <1>0, <1>8 DEF vars, BatchInv, Reading, Whole
<1> QED BY <1>1, <1>2, <1>3, <1>4, <1>5, <1>6, <1>7, <1>8, LeavesTheBatch DEF Next, Lob

(* A thread starts with nothing. *)
LEMMA InitIInv == Init => IInv
<1> SUFFICES ASSUME Init PROVE IInv
  OBVIOUS
<1>1. HandlesType /\ HandlesInv
  <2>1. /\ env \in BOOLEAN /\ err \in BOOLEAN /\ svc \in BOOLEAN /\ guarded \in BOOLEAN /\ stmt \in BOOLEAN
        /\ ~env /\ ~err /\ ~svc /\ ~guarded /\ ~stmt /\ locators = 0 /\ pc = "off"
    BY Zenon DEF Init, NoHandles
  <2> QED BY <2>1, SizesType DEF HandlesType, HandlesInv, CursorStates
<1>2. FetchType
  <2>1. values \in Seq(Lob) /\ Len(values) = 0
    BY NoBatch DEF Init
  <2>2. done \in BOOLEAN
    BY Zenon DEF Init
  <2>3. next_rows = 1 /\ batches = 0
    BY DEF Init
  <2> QED BY <2>1, <2>2, <2>3, SizesType, CursorAssumption DEF FetchType
<1>3. BufferType
  <2>1. lob_capacity = 0 /\ lob_data \in [1 .. 0 -> Nat \X Nat]
    BY NoBytesType DEF Init
  <2> QED BY <2>1 DEF Init, BufferType
<1>4. BatchInv /\ ValueInv /\ BufferIsBounded
  BY DEF Init, BatchInv, Reading, ValueInv, BufferIsBounded
<1> QED BY <1>1, <1>2, <1>3, <1>4 DEF IInv, TypeOK

(* The invariant holds in every state of a thread's session and cursor. *)
THEOREM CursorInvariant == Spec => []IInv
<1>1. IInv /\ [Next]_vars => IInv'
  BY HandlesStep, HandlesTypeStep, FetchTypeStep, BufferTypeStep, BoundStep, ValueStep, BatchStep DEF IInv, TypeOK
<1> QED BY InitIInv, <1>1, PTL DEF Spec

(* The values of a batch are whole at their offsets, for every length of value *)
(* and every split into pieces, although the buffer moves under them           *)
(* (ReadLobs, ReadLob, ReserveLob).                                            *)
THEOREM LobValuesStayIntact == Spec => []ValuesAreIntact
<1>1. ASSUME IInv PROVE ValuesAreIntact
  <2>0. IInv
    BY <1>1
  <2> SUFFICES ASSUME Reading, NEW i \in 1 .. Least(item - 1, Len(values)), values[i] # Null
               PROVE /\ lob_length[i] >= values[i]
                     /\ \A j \in 1 .. lob_length[i] : lob_data[lob_offset[i] + j] = <<i, j>>
    BY DEF ValuesAreIntact, Reading
  <2>1. item \in Nat /\ Len(values) \in Nat /\ values \in Seq(Lob)
    BY <2>0 DEF IInv, TypeOK, BufferType, FetchType
  <2>2. i \in 1 .. item - 1 /\ i \in 1 .. Len(values)
    BY <2>1 DEF Least
  <2>3. Whole(i) /\ lob_length[i] \in Nat
    BY <2>0, <2>2 DEF IInv, BatchInv
  <2>4. values[i] \in Nat
    BY <2>1, <2>2, CursorAssumption DEF Lob
  <2> QED BY <2>3, <2>4 DEF Whole
<1> QED BY CursorInvariant, <1>1, PTL

(* The buffer is at most twice the budget, or twice what the batch needed      *)
(* ("kept up to twice that size"), for every budget and every batch.           *)
THEOREM BufferStaysBounded == Spec => []BufferIsBounded
<1>1. IInv => BufferIsBounded
  BY DEF IInv
<1> QED BY CursorInvariant, <1>1, PTL

(* A thread that is done has no OCI handle left, whichever calls failed.       *)
THEOREM NoHandleLeft == Spec => []HandlesAreFreed
<1>1. ASSUME IInv PROVE HandlesAreFreed
  <2>1. HandlesType /\ HandlesInv
    BY <1>1 DEF IInv, TypeOK
  <2> QED BY <2>1 DEF HandlesAreFreed, NoHandles, HandlesType, HandlesInv, CursorStates
<1> QED BY CursorInvariant, <1>1, PTL

(* Handles die before what they were made from (~OciSession, Close).           *)
THEOREM HandlesDieInOrder == Spec => FreedInOrder
<1> DEFINE Ordered ==
      /\ svc /\ ~svc' => ~stmt /\ ~guarded /\ locators = 0
      /\ err /\ ~err' => ~svc'
      /\ env /\ ~env' => ~svc /\ ~guarded /\ ~stmt /\ locators = 0
      /\ locators > 0 /\ locators' = 0 => env /\ ~stmt'
      /\ stmt /\ ~stmt' => svc /\ err
<1>1. ASSUME IInv, IInv', [Next]_vars PROVE [Ordered]_handles
  <2>0. HandlesInv /\ HandlesInv' /\ locators \in Nat
    BY <1>1, SizesType DEF IInv, TypeOK, HandlesType
  <2> USE DEF HandlesInv, CursorStates, handles
  <2>1. ASSUME SessionStep PROVE Ordered
    BY <2>0, <2>1 DEF SessionStep, CreateOciEnv, AllocError, Logon, LogonFailed, PrepareAlter, AlterSession, Logoff, Fails
  <2>2. ASSUME UNCHANGED <<env, err, svc, guarded>>, locators > 0 /\ locators' = 0 => ~stmt' PROVE Ordered
    BY <2>0, <2>2
  <2>3. ASSUME Prepare \/ AllocLocator \/ Opened \/ FirstExecute \/ NextUnit \/ Release 
        PROVE UNCHANGED <<env, err, svc, guarded>> /\ (locators > 0 /\ locators' = 0 => ~stmt')
    BY <2>0, <2>3 DEF Prepare, AllocLocator, Opened, FirstExecute, NextUnit, Executes, Release, HasCursor, Close, Closed, Fails
  <2>4. ASSUME \/ FetchFails \/ SkipNull \/ ReadLob \/ LobDone \/ FetchReturns \/ UNCHANGED vars
               \/ \E n \in 0 .. Rows : \E lobs \in [1 .. n -> (0 .. MaxChars) \cup {Null}] : Fetch(n, lobs)
               \/ \E chars \in 1 .. MaxChars, bytes \in 1 .. MaxChars * kMaxUtf8BytesPerChar : ReadPiece(chars, bytes)
        PROVE UNCHANGED handles
    BY <2>4 DEF FetchFails, Fetch, SkipNull, ReadLob, ReadPiece, LobDone, FetchReturns, vars
  <2> HIDE DEF HandlesInv, CursorStates, handles, Ordered
  <2> QED BY <1>1, <2>1, <2>2, <2>3, <2>4 DEF Next
<1> QED BY CursorInvariant, <1>1, PTL DEF Spec, FreedInOrder

=============================================================================
