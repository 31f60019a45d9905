---------------------------- MODULE ScanWorkProofs ----------------------------
(***************************************************************************)
(* For any number of threads, sessions, units and rows, and any size of     *)
(* batches and vectors: a scan delivers each row of the table once, within  *)
(* its sessions, and implements a row source.                               *)
(***************************************************************************)
EXTENDS ScanWork, FiniteSetTheorems, TLAPS

(* The plan of a scan does not change while it runs. *)
LEMMA PlanIsFixed == [Next]_vars => unit_rows' = unit_rows /\ threads' = threads
BY DEF Next, Step, vars, plan, Call, Emit, BatchUsed, Return, Interrupted, Fetch, Claim, NoUnitLeft, TakeSpare,
       NoSpare, Login, Execute, Throws, Stop, Complete, Teardown, CloseSessions

(* The unit a thread reads has rows, some of them fetched. *)
LEMMA UnitBeingRead ==
  ASSUME PlanType, NEW t, ThreadInv(t), reading[t]
  PROVE  unit_rows[unit[t]] \in 0 .. MaxUnitRows /\ pos[t] <= unit_rows[unit[t]]
<1>1. unit[t] \in 0 .. Cardinality(Units) /\ unit[t] # 0 /\ pos[t] <= unit_rows[unit[t]]
  BY DEF ThreadInv
<1>2. Cardinality(Units) \in Nat
  BY ScanAssumption DEF PlanType
<1>3. unit[t] \in 1 .. Cardinality(Units)
  BY <1>1, <1>2
<1> QED BY <1>1, <1>3 DEF PlanType

(* The slots that are copied are finitely many. *)
LEMMA CopiesAreCounted ==
  ASSUME NEW t \in Threads, batch_next[t] \in Nat, CopyCount(t) \in Nat, NEW r
  PROVE  Copies(t, r) \in Nat
<1> DEFINE slots == batch_next[t] + 1 .. batch_next[t] + CopyCount(t)
<1>1. IsFiniteSet(slots)
  BY FS_Interval
<1>2. IsFiniteSet({i \in slots : buffer[t][i] = r})
  BY <1>1, FS_Subset
<1> QED BY <1>2, FS_CardinalityType DEF Copies

(* Buffers no fetch has written to are buffers. *)
LEMMA NoBufferIsABuffer == NoBuffer \in Buffer
BY DEF NoBuffer, Buffer

(* Buffers stay buffers when rows are written over their first slots. *)
LEMMA OverwrittenIsABuffer ==
  ASSUME NEW t, NEW n, unit[t] \in Nat, pos[t] \in Nat, buffer[t] \in Buffer
  PROVE  Overwritten(t, n) \in Buffer
<1>1. \A i \in 1 .. FetchRows : pos[t] + i \in Nat /\ buffer[t][i] \in Nat \X Nat
  BY ScanAssumption DEF Buffer
<1>2. \A i \in 1 .. FetchRows : <<unit[t], pos[t] + i>> \in Nat \X Nat
  BY <1>1
<1> QED BY <1>1, <1>2 DEF Overwritten, Buffer

(* Every step keeps the types. *)
LEMMA TypeStep == IInv /\ [Next]_vars => TypeOK'
<1> SUFFICES ASSUME IInv, [Next]_vars PROVE TypeOK'
  OBVIOUS
<1>a. threads \subseteq Threads
  BY DEF IInv, TypeOK, PlanType
<1>0. PlanType'
  BY PlanIsFixed DEF IInv, TypeOK, PlanType, Units
<1> USE ScanAssumption DEF IInv, TypeOK, Goes, plan, shared, handles, fetch, batch, query
<1>1. ASSUME NEW t \in Threads, t \in threads, Call(t) PROVE TypeOK'
  BY <1>1, <1>0 DEF Call
<1>2. ASSUME NEW t \in Threads, t \in threads, ~Ended, Emit(t) PROVE TypeOK'
  <2>1. ThreadInv(t)
    OBVIOUS
  <2>2. CopyCount(t) \in Nat /\ batch_next[t] + CopyCount(t) \in 0 .. FetchRows /\ filled[t] + CopyCount(t) \in 0 .. VectorSize
    BY <1>2, <2>1 DEF ThreadInv, Emit, InLoop, CopyCount, Least
  <2>3. delivered' \in [Row -> Nat]
    <3>1. \A r \in Row : Copies(t, r) \in Nat
      BY <2>2, CopiesAreCounted
    <3> QED BY <1>2, <3>1 DEF Emit
  <2> QED BY <1>2, <1>0, <2>2, <2>3 DEF Emit
<1>3. ASSUME NEW t \in Threads, t \in threads, ~Ended, BatchUsed(t) PROVE TypeOK'
  BY <1>3, <1>0 DEF BatchUsed, InLoop
<1>4. ASSUME NEW t \in Threads, t \in threads, ~Ended, Return(t) PROVE TypeOK'
  BY <1>4, <1>0 DEF Return, InLoop
<1>5. ASSUME NEW t \in Threads, t \in threads, ~Ended, Interrupted(t) PROVE TypeOK'
  BY <1>5, <1>0 DEF Interrupted
<1>6. ASSUME NEW t \in Threads, t \in threads, NEW k \in 1 .. FetchRows, ~Ended, Fetch(t, k) PROVE TypeOK'
  <2> DEFINE left == unit_rows[unit[t]] - pos[t]
             n == Fetched(t, k, left)
  <2>1. ThreadInv(t)
    OBVIOUS
  <2>a. unit_rows[unit[t]] \in 0 .. MaxUnitRows /\ pos[t] <= unit_rows[unit[t]]
    <3>1. reading[t] /\ PlanType /\ ThreadInv(t)
      BY <1>6, <2>1 DEF Fetch
    <3> QED BY ONLY <3>1, UnitBeingRead
  <2>2. left \in Nat /\ n \in 0 .. FetchRows /\ pos[t] + n \in 0 .. MaxUnitRows
    BY <2>a DEF Fetched, Least
  <2>3. /\ done' = [done EXCEPT ![t] = done[t] \/ left < k] /\ pos' = [pos EXCEPT ![t] = pos[t] + n]
        /\ reading' = [reading EXCEPT ![t] = n > 0]
        /\ batch_rows' \in {batch_rows, [batch_rows EXCEPT ![t] = n]}
        /\ batch_next' \in {batch_next, [batch_next EXCEPT ![t] = 0]}
        /\ buffer' \in {buffer, [buffer EXCEPT ![t] = Overwritten(t, n)]}
        /\ pc' \in {[pc EXCEPT ![t] = "scan"], [pc EXCEPT ![t] = "claim"]}
        /\ UNCHANGED <<plan, shared, handles, unit, finished, filled, query>>
    BY <1>6 DEF Fetch
  <2> HIDE DEF n, left
  <2>4. Overwritten(t, n) \in Buffer
    <3>1. unit[t] \in Nat /\ pos[t] \in Nat /\ buffer[t] \in Buffer
      OBVIOUS
    <3> QED BY <3>1, OverwrittenIsABuffer
  <2> QED BY <1>0, <2>2, <2>3, <2>4
<1>7. ASSUME NEW t \in Threads, t \in threads, ~Ended, Claim(t) PROVE TypeOK'
  <2>1. next_unit + 1 \in 0 .. MaxUnits
    BY <1>7 DEF Claim, PlanType
  <2> QED BY <1>7, <1>0, <2>1 DEF Claim, FetchAdd
<1>8. ASSUME NEW t \in Threads, t \in threads, ~Ended, NoUnitLeft(t) PROVE TypeOK'
  BY <1>8, <1>0, NoBufferIsABuffer DEF NoUnitLeft, FetchAdd
<1>9. ASSUME NEW t \in Threads, t \in threads, ~Ended, TakeSpare(t) PROVE TypeOK'
  BY <1>9, <1>0 DEF TakeSpare
<1>10. ASSUME NEW t \in Threads, t \in threads, ~Ended, NoSpare(t) PROVE TypeOK'
  BY <1>10, <1>0 DEF NoSpare
<1>11. ASSUME NEW t \in Threads, t \in threads, ~Ended, Login(t) PROVE TypeOK'
  BY <1>11, <1>0 DEF Login
<1>12. ASSUME NEW t \in Threads, t \in threads, ~Ended, Execute(t) PROVE TypeOK'
  BY <1>12, <1>0 DEF Execute
<1>13. ASSUME NEW t \in Threads, t \in threads, ~Ended, Throws(t) PROVE TypeOK'
  BY <1>13, <1>0 DEF Throws, InLoop
<1>14. CASE Stop
  BY <1>14, <1>0 DEF Stop
<1>15. CASE Complete
  BY <1>15, <1>0, NoBufferIsABuffer DEF Complete, CloseSessions
<1>16. CASE Teardown
  BY <1>16, <1>0, NoBufferIsABuffer DEF Teardown, CloseSessions
<1>17. CASE UNCHANGED vars
  BY <1>17, <1>0 DEF vars
<1> HIDE ScanAssumption DEF IInv, TypeOK, Goes, plan, shared, handles, fetch, batch, query
<1> QED
  BY <1>a, <1>1, <1>2, <1>3, <1>4, <1>5, <1>6, <1>7, <1>8, <1>9, <1>10, <1>11, <1>12, <1>13, <1>14, <1>15, <1>16, <1>17 DEF Next, Step

(* No step goes on to the next batch with rows left to copy. *)
LEMMA CopiedStep == IInv /\ [Next]_vars => BatchCopied'
<1> SUFFICES ASSUME IInv, [Next]_vars PROVE BatchCopied'
  OBVIOUS
<1>a. threads \subseteq Threads
  BY DEF IInv, TypeOK, PlanType
<1> USE ScanAssumption DEF IInv, TypeOK, BatchCopied, Goes, plan, shared, handles, fetch, batch, query
<1>1. ASSUME NEW t \in Threads, t \in threads, Call(t) PROVE BatchCopied'
  BY <1>1 DEF Call
<1>2. ASSUME NEW t \in Threads, t \in threads, ~Ended, Emit(t) PROVE BatchCopied'
  BY <1>2 DEF Emit, InLoop
<1>3. ASSUME NEW t \in Threads, t \in threads, ~Ended, BatchUsed(t) PROVE BatchCopied'
  BY <1>3 DEF BatchUsed, InLoop
<1>4. ASSUME NEW t \in Threads, t \in threads, ~Ended, Return(t) PROVE BatchCopied'
  BY <1>4 DEF Return, InLoop
<1>5. ASSUME NEW t \in Threads, t \in threads, ~Ended, Interrupted(t) PROVE BatchCopied'
  BY <1>5 DEF Interrupted
<1>6. ASSUME NEW t \in Threads, t \in threads, NEW k \in 1 .. FetchRows, ~Ended, Fetch(t, k) PROVE BatchCopied'
  BY <1>6 DEF Fetch
<1>7. ASSUME NEW t \in Threads, t \in threads, ~Ended, Claim(t) PROVE BatchCopied'
  BY <1>7 DEF Claim, FetchAdd
<1>8. ASSUME NEW t \in Threads, t \in threads, ~Ended, NoUnitLeft(t) PROVE BatchCopied'
  BY <1>8 DEF NoUnitLeft, FetchAdd
<1>9. ASSUME NEW t \in Threads, t \in threads, ~Ended, TakeSpare(t) PROVE BatchCopied'
  BY <1>9 DEF TakeSpare
<1>10. ASSUME NEW t \in Threads, t \in threads, ~Ended, NoSpare(t) PROVE BatchCopied'
  BY <1>10 DEF NoSpare
<1>11. ASSUME NEW t \in Threads, t \in threads, ~Ended, Login(t) PROVE BatchCopied'
  BY <1>11 DEF Login
<1>12. ASSUME NEW t \in Threads, t \in threads, ~Ended, Execute(t) PROVE BatchCopied'
  BY <1>12 DEF Execute
<1>13. ASSUME NEW t \in Threads, t \in threads, ~Ended, Throws(t) PROVE BatchCopied'
  BY <1>13 DEF Throws, InLoop
<1>14. CASE Stop
  BY <1>14 DEF Stop
<1>15. CASE Complete
  BY <1>15 DEF Complete, CloseSessions
<1>16. CASE Teardown
  BY <1>16 DEF Teardown, CloseSessions
<1>17. CASE UNCHANGED vars
  BY <1>17 DEF vars
<1> HIDE ScanAssumption DEF IInv, TypeOK, BatchCopied, Goes, plan, shared, handles, fetch, batch, query
<1> QED
  BY <1>a, <1>1, <1>2, <1>3, <1>4, <1>5, <1>6, <1>7, <1>8, <1>9, <1>10, <1>11, <1>12, <1>13, <1>14, <1>15, <1>16, <1>17 DEF Next, Step

(* What is left to copy is not overwritten. *)
LEMMA BufferStep == IInv /\ [Next]_vars => BufferInv'
<1> SUFFICES ASSUME IInv, [Next]_vars PROVE BufferInv'
  OBVIOUS
<1>a. threads \subseteq Threads
  BY DEF IInv, TypeOK, PlanType
<1> USE ScanAssumption DEF IInv, TypeOK, BufferInv, Ended, Goes, plan, shared, handles, fetch, batch, query
<1>1. ASSUME NEW t \in Threads, t \in threads, Call(t) PROVE BufferInv'
  BY <1>1 DEF Call
<1>2. ASSUME NEW t \in Threads, t \in threads, ~Ended, Emit(t) PROVE BufferInv'
  <2>1. CopyCount(t) \in Nat /\ batch_next'[t] = batch_next[t] + CopyCount(t)
    BY <1>2 DEF Emit, InLoop, CopyCount, Least
  <2>2. \A w \in Threads : batch_next[w] <= batch_next'[w] /\ batch_next'[w] \in Nat
    BY <1>2, <2>1 DEF Emit
  <2>3. BufferInv /\ ~Ended /\ UNCHANGED <<unit, pos, reading, batch_rows, buffer>>
    BY <1>2 DEF Emit
  <2>4. \A w \in Threads : batch_next[w] \in Nat /\ batch_rows[w] \in Nat
    OBVIOUS
  <2> HIDE DEF IInv, TypeOK
  <2> QED BY <2>2, <2>3, <2>4
<1>3. ASSUME NEW t \in Threads, t \in threads, ~Ended, BatchUsed(t) PROVE BufferInv'
  BY <1>3 DEF BatchUsed
<1>4. ASSUME NEW t \in Threads, t \in threads, ~Ended, Return(t) PROVE BufferInv'
  BY <1>4 DEF Return
<1>5. ASSUME NEW t \in Threads, t \in threads, ~Ended, Interrupted(t) PROVE BufferInv'
  BY <1>5 DEF Interrupted
<1>6. ASSUME NEW t \in Threads, t \in threads, NEW k \in 1 .. FetchRows, ~Ended, Fetch(t, k) PROVE BufferInv'
  <2> DEFINE n == Fetched(t, k, unit_rows[unit[t]] - pos[t])
  <2>1. ASSUME NEW w \in Threads, w # t, reading'[w], NEW i \in batch_next'[w] + 1 .. batch_rows'[w]
        PROVE buffer'[w][i] = <<unit'[w], pos'[w] - batch_rows'[w] + i>>
    BY <1>6, <2>1 DEF Fetch
  <2>2. ASSUME reading'[t], NEW i \in batch_next'[t] + 1 .. batch_rows'[t]
        PROVE buffer'[t][i] = <<unit'[t], pos'[t] - batch_rows'[t] + i>>
    <3>1. /\ n > 0 /\ unit'[t] = unit[t] /\ pos'[t] = pos[t] + n /\ batch_rows'[t] = n /\ batch_next'[t] = 0
          /\ buffer' = [buffer EXCEPT ![t] = Overwritten(t, n)]
      <4>1. n > 0
        BY <1>6, <2>2 DEF Fetch
      <4>2. unit'[t] = unit[t] /\ pos'[t] = pos[t] + n
        BY <1>6 DEF Fetch
      <4>3. batch_rows'[t] = n /\ batch_next'[t] = 0
        BY <1>6, <4>1 DEF Fetch
      <4>4. buffer' = [buffer EXCEPT ![t] = Overwritten(t, n)]
        BY <1>6, <4>1 DEF Fetch
      <4> QED BY <4>1, <4>2, <4>3, <4>4
    <3>2. n \in Nat /\ n <= FetchRows
      <4>1. TypeOK'
        BY TypeStep
      <4>2. batch_rows'[t] \in 0 .. FetchRows
        BY <4>1
      <4> QED BY <3>1, <4>2
    <3> HIDE DEF n
    <3>3. i \in 1 .. FetchRows /\ i <= n
      BY <2>2, <3>1, <3>2
    <3>4. buffer'[t][i] = <<unit[t], pos[t] + i>>
      BY <3>1, <3>3 DEF Overwritten
    <3>5. pos[t] \in Nat
      OBVIOUS
    <3> QED BY <3>1, <3>2, <3>3, <3>4, <3>5
  <2> QED BY <2>1, <2>2
<1>7. ASSUME NEW t \in Threads, t \in threads, ~Ended, Claim(t) PROVE BufferInv'
  <2>1. ~reading[t]
    BY <1>7 DEF Claim, FetchAdd, ThreadInv
  <2> QED BY <1>7, <2>1 DEF Claim
<1>8. ASSUME NEW t \in Threads, t \in threads, ~Ended, NoUnitLeft(t) PROVE BufferInv'
  <2>1. ~reading[t]
    BY <1>8 DEF NoUnitLeft, FetchAdd, ThreadInv
  <2> QED BY <1>8, <2>1 DEF NoUnitLeft
<1>9. ASSUME NEW t \in Threads, t \in threads, ~Ended, TakeSpare(t) PROVE BufferInv'
  BY <1>9 DEF TakeSpare
<1>10. ASSUME NEW t \in Threads, t \in threads, ~Ended, NoSpare(t) PROVE BufferInv'
  BY <1>10 DEF NoSpare
<1>11. ASSUME NEW t \in Threads, t \in threads, ~Ended, Login(t) PROVE BufferInv'
  BY <1>11 DEF Login
<1>12. ASSUME NEW t \in Threads, t \in threads, ~Ended, Execute(t) PROVE BufferInv'
  <2>1. batch_next[t] = batch_rows[t] /\ batch_rows[t] \in Nat
    BY <1>12 DEF Execute, BatchCopied
  <2> QED BY <1>12, <2>1 DEF Execute
<1>13. ASSUME NEW t \in Threads, t \in threads, ~Ended, Throws(t) PROVE BufferInv'
  BY <1>13 DEF Throws
<1>14. CASE Stop
  BY <1>14 DEF Stop
<1>15. CASE Complete
  BY <1>15 DEF Complete
<1>16. CASE Teardown
  BY <1>16 DEF Teardown
<1>17. CASE UNCHANGED vars
  BY <1>17 DEF vars
<1> HIDE ScanAssumption DEF IInv, TypeOK, BufferInv, Ended, Goes, plan, shared, handles, fetch, batch, query
<1> QED
  BY <1>a, <1>1, <1>2, <1>3, <1>4, <1>5, <1>6, <1>7, <1>8, <1>9, <1>10, <1>11, <1>12, <1>13, <1>14, <1>15, <1>16, <1>17 DEF Next, Step

(* What a thread's batch and unit have to do with where it is survives every step. *)
LEMMA ThreadStep == IInv /\ [Next]_vars => (\A w \in Threads : ThreadInv(w))'
<1> SUFFICES ASSUME IInv, [Next]_vars PROVE (\A w \in Threads : ThreadInv(w))'
  OBVIOUS
<1>a. threads \subseteq Threads
  BY DEF IInv, TypeOK, PlanType
<1>0. unit_rows' = unit_rows /\ threads' = threads /\ Units' = Units
  BY PlanIsFixed DEF Units
<1>b. (\A w \in Threads : ThreadInv(w)) /\ Cardinality(Units) \in Nat
  BY DEF IInv, TypeOK, PlanType
<1> USE ScanAssumption DEF IInv, TypeOK, ThreadInv, Starting, Goes, plan, shared, handles, fetch, batch, query
<1>1. ASSUME NEW t \in Threads, t \in threads, Call(t) PROVE (\A w \in Threads : ThreadInv(w))'
  BY <1>1, <1>0 DEF Call
<1>2. ASSUME NEW t \in Threads, t \in threads, ~Ended, Emit(t) PROVE (\A w \in Threads : ThreadInv(w))'
  <2>1. ThreadInv(t) /\ Cardinality(Units) \in Nat
    BY <1>b
  <2>2. ASSUME NEW w \in Threads, w # t PROVE ThreadInv(w)'
    BY <1>2, <2>1, <2>2, <1>0 DEF Emit, InLoop, CopyCount, Least
  <2> QED BY <1>2, <2>1, <2>2, <1>0 DEF Emit, InLoop, CopyCount, Least
<1>3. ASSUME NEW t \in Threads, t \in threads, ~Ended, BatchUsed(t) PROVE (\A w \in Threads : ThreadInv(w))'
  BY <1>3, <1>0 DEF BatchUsed, InLoop
<1>4. ASSUME NEW t \in Threads, t \in threads, ~Ended, Return(t) PROVE (\A w \in Threads : ThreadInv(w))'
  BY <1>4, <1>0 DEF Return, InLoop
<1>5. ASSUME NEW t \in Threads, t \in threads, ~Ended, Interrupted(t) PROVE (\A w \in Threads : ThreadInv(w))'
  BY <1>5, <1>0 DEF Interrupted
<1>6. ASSUME NEW t \in Threads, t \in threads, NEW k \in 1 .. FetchRows, ~Ended, Fetch(t, k) PROVE (\A w \in Threads : ThreadInv(w))'
  <2>1. ThreadInv(t) /\ Cardinality(Units) \in Nat
    BY <1>b
  <2>2. ASSUME NEW w \in Threads, w # t PROVE ThreadInv(w)'
    BY <1>6, <2>1, <2>2, <1>0 DEF Fetch
  <2>3. unit_rows[unit[t]] \in Nat /\ pos[t] <= unit_rows[unit[t]]
    <3>1. reading[t] /\ PlanType /\ ThreadInv(t)
      BY <1>6, <2>1 DEF Fetch
    <3>2. unit_rows[unit[t]] \in 0 .. MaxUnitRows /\ pos[t] <= unit_rows[unit[t]]
      BY ONLY <3>1, UnitBeingRead
    <3> QED BY <3>2
  <2> DEFINE left == unit_rows[unit[t]] - pos[t]
             n == Fetched(t, k, left)
  <2>4. ~finished[t] /\ batch_next[t] = batch_rows[t] /\ unit[t] # 0 /\ (done[t] => left = 0)
    BY <1>6, <2>1 DEF Fetch, BatchCopied
  <2>5. n \in Nat /\ n <= left /\ (left < k => n = left \/ left = 0)
    BY <2>3, <2>4 DEF Fetched, Least
  <2>6. (done'[t] => done[t] \/ left < k) /\ pos'[t] = pos[t] + n /\ (reading'[t] <=> n > 0) /\ unit'[t] = unit[t]
    BY <1>6 DEF Fetch
  <2>7. n > 0 => batch_rows'[t] = n /\ batch_next'[t] = 0 /\ pc'[t] = "scan"
    BY <1>6 DEF Fetch
  <2>8. ~(n > 0) => batch_rows'[t] = batch_rows[t] /\ batch_next'[t] = batch_next[t] /\ pc'[t] = "claim"
    BY <1>6 DEF Fetch
  <2>9. finished' = finished /\ session' = session /\ next_unit' = next_unit
    BY <1>6 DEF Fetch
  <2> HIDE DEF n
  <2>10. n > 0 => reading'[t] /\ (done'[t] => pos'[t] = unit_rows[unit[t]]) /\ pos'[t] <= unit_rows[unit[t]] /\ n <= pos'[t]
    BY <2>3, <2>4, <2>5, <2>6
  <2>11. ASSUME n > 0 PROVE ThreadInv(t)'
    BY <1>6, <2>1, <1>0, <2>4, <2>5, <2>6, <2>7, <2>9, <2>10, <2>11
  <2>12. ASSUME ~(n > 0) PROVE ThreadInv(t)'
    BY <1>6, <2>1, <1>0, <2>3, <2>4, <2>5, <2>6, <2>8, <2>9, <2>12
  <2> QED BY <2>2, <2>11, <2>12
<1>7. ASSUME NEW t \in Threads, t \in threads, ~Ended, Claim(t) PROVE (\A w \in Threads : ThreadInv(w))'
  <2>1. ThreadInv(t) /\ Cardinality(Units) \in Nat
    BY <1>b
  <2>2. ASSUME NEW w \in Threads, w # t PROVE ThreadInv(w)'
    BY <1>7, <2>1, <2>2, <1>0 DEF Claim, FetchAdd
  <2> QED BY <1>7, <2>1, <2>2, <1>0 DEF Claim, FetchAdd
<1>8. ASSUME NEW t \in Threads, t \in threads, ~Ended, NoUnitLeft(t) PROVE (\A w \in Threads : ThreadInv(w))'
  <2>1. ThreadInv(t) /\ Cardinality(Units) \in Nat
    BY <1>b
  <2>2. ASSUME NEW w \in Threads, w # t PROVE ThreadInv(w)'
    BY <1>8, <2>1, <2>2, <1>0 DEF NoUnitLeft, FetchAdd
  <2> QED BY <1>8, <2>1, <2>2, <1>0 DEF NoUnitLeft, FetchAdd
<1>9. ASSUME NEW t \in Threads, t \in threads, ~Ended, TakeSpare(t) PROVE (\A w \in Threads : ThreadInv(w))'
  BY <1>9, <1>0 DEF TakeSpare
<1>10. ASSUME NEW t \in Threads, t \in threads, ~Ended, NoSpare(t) PROVE (\A w \in Threads : ThreadInv(w))'
  BY <1>10, <1>0 DEF NoSpare
<1>11. ASSUME NEW t \in Threads, t \in threads, ~Ended, Login(t) PROVE (\A w \in Threads : ThreadInv(w))'
  BY <1>11, <1>0 DEF Login
<1>12. ASSUME NEW t \in Threads, t \in threads, ~Ended, Execute(t) PROVE (\A w \in Threads : ThreadInv(w))'
  <2>1. ThreadInv(t) /\ Cardinality(Units) \in Nat
    BY <1>b
  <2>2. ASSUME NEW w \in Threads, w # t PROVE ThreadInv(w)'
    BY <1>12, <2>1, <2>2, <1>0 DEF Execute
  <2>3. unit_rows[unit[t]] \in Nat
    BY <1>12, <2>1 DEF PlanType, Execute
  <2> QED BY <1>12, <2>1, <2>2, <1>0, <2>3 DEF Execute
<1>13. ASSUME NEW t \in Threads, t \in threads, ~Ended, Throws(t) PROVE (\A w \in Threads : ThreadInv(w))'
  BY <1>13, <1>0 DEF Throws, InLoop
<1>14. CASE Stop
  BY <1>14, <1>0 DEF Stop
<1>15. CASE Complete
  BY <1>15, <1>0 DEF Complete, CloseSessions
<1>16. CASE Teardown
  BY <1>16, <1>0 DEF Teardown, CloseSessions
<1>17. CASE UNCHANGED vars
  BY <1>17, <1>0 DEF vars
<1> HIDE ScanAssumption DEF IInv, TypeOK, ThreadInv, Starting, Goes, plan, shared, handles, fetch, batch, query
<1> QED
  BY <1>a, <1>1, <1>2, <1>3, <1>4, <1>5, <1>6, <1>7, <1>8, <1>9, <1>10, <1>11, <1>12, <1>13, <1>14, <1>15, <1>16, <1>17 DEF Next, Step

(* Emit delivers the rows after those of the unit that were handed over. *)
LEMMA EmitDelivers ==
  ASSUME IInv, NEW t \in Threads, ~Ended, Emit(t)
  PROVE /\ reading[t] /\ unit[t] \in 1 .. Cardinality(Units) /\ unit[t] <= next_unit
        /\ Cardinality(Units) \in 0 .. MaxUnits /\ unit_rows[unit[t]] \in Nat
        /\ Handed(t) \in Nat /\ Handed(t)' \in Nat /\ Handed(t) <= Handed(t)' /\ Handed(t)' <= unit_rows[unit[t]]
        /\ UNCHANGED <<unit, reading, pc, finished, next_unit>>
        /\ \A w \in Threads : w # t => Handed(w)' = Handed(w)
        /\ \A u \in 1 .. MaxUnits, i \in 1 .. MaxUnitRows :
             delivered'[<<u, i>>] = delivered[<<u, i>>] + IF u = unit[t] /\ Handed(t) < i /\ i <= Handed(t)' THEN 1 ELSE 0
<1> USE ScanAssumption DEF IInv, TypeOK, shared, fetch, handles, plan
<1>1. ThreadInv(t)
  OBVIOUS
<1>2. reading[t] /\ unit[t] \in 1 .. Cardinality(Units) /\ unit[t] <= next_unit
  BY <1>1 DEF Emit, InLoop, ThreadInv
<1>3. UNCHANGED <<unit, reading, pc, finished, next_unit, pos, batch_rows>>
  BY DEF Emit
<1>4. CopyCount(t) \in Nat /\ CopyCount(t) <= batch_rows[t] - batch_next[t]
  BY <1>1 DEF Emit, InLoop, ThreadInv, CopyCount, Least
<1>5. batch_next'[t] = batch_next[t] + CopyCount(t)
  BY DEF Emit
<1>6. Handed(t) \in Nat /\ Handed(t)' = Handed(t) + CopyCount(t) /\ Handed(t)' <= pos[t]
  BY <1>1, <1>2, <1>3, <1>4, <1>5 DEF Handed, ThreadInv
<1>7. \A w \in Threads : w # t => Handed(w)' = Handed(w)
  BY <1>3 DEF Emit, Handed
<1>8. pos[t] <= unit_rows[unit[t]] /\ unit_rows[unit[t]] \in Nat /\ Cardinality(Units) \in 0 .. MaxUnits
  BY <1>1, <1>2 DEF ThreadInv, PlanType
<1>9. pos[t] - batch_rows[t] + batch_next[t] = Handed(t)
  BY DEF Handed
<1>10. ASSUME NEW u \in 1 .. MaxUnits, NEW i \in 1 .. MaxUnitRows
       PROVE delivered'[<<u, i>>] = delivered[<<u, i>>] + IF u = unit[t] /\ Handed(t) < i /\ i <= Handed(t)' THEN 1 ELSE 0
  <2> DEFINE slots == {j \in batch_next[t] + 1 .. batch_next[t] + CopyCount(t) : buffer[t][j] = <<u, i>>}
             slot  == i - (pos[t] - batch_rows[t])
  <2>1. delivered'[<<u, i>>] = delivered[<<u, i>>] + Cardinality(slots)
    BY DEF Emit, Copies, Row
  <2>2. /\ batch_next[t] \in Nat /\ batch_rows[t] \in Nat /\ pos[t] \in Nat
        /\ batch_next[t] + CopyCount(t) <= batch_rows[t]
    BY <1>4
  <2>3. \A j \in batch_next[t] + 1 .. batch_next[t] + CopyCount(t) :
          buffer[t][j] = <<unit[t], pos[t] - batch_rows[t] + j>>
    <3>1. \A j \in batch_next[t] + 1 .. batch_rows[t] : buffer[t][j] = <<unit[t], pos[t] - batch_rows[t] + j>>
      BY <1>2 DEF BufferInv
    <3> HIDE DEF IInv, TypeOK
    <3> QED BY <3>1, <2>2, <1>4
  <2> HIDE DEF IInv, TypeOK
  <2>4. CASE u = unit[t] /\ Handed(t) < i /\ i <= Handed(t)'
    <3>1. slot \in batch_next[t] + 1 .. batch_next[t] + CopyCount(t) /\ pos[t] - batch_rows[t] + slot = i
      BY <2>2, <2>4, <1>4, <1>6, <1>9
    <3>2. slots = {slot}
      BY <2>2, <2>3, <2>4, <3>1
    <3> HIDE DEF slots, slot
    <3>3. Cardinality(slots) = 1
      BY <3>2, FS_Singleton
    <3> QED BY <2>1, <2>4, <3>3
  <2>5. CASE ~(u = unit[t] /\ Handed(t) < i /\ i <= Handed(t)')
    <3>1. \A j \in batch_next[t] + 1 .. batch_next[t] + CopyCount(t) : buffer[t][j] # <<u, i>>
      <4> SUFFICES ASSUME NEW j \in batch_next[t] + 1 .. batch_next[t] + CopyCount(t), buffer[t][j] = <<u, i>>
                   PROVE FALSE
        OBVIOUS
      <4>1. u = unit[t] /\ i = pos[t] - batch_rows[t] + j
        BY <2>3
      <4> QED BY <4>1, <2>2, <2>5, <1>4, <1>6, <1>9
    <3>2. slots = {}
      BY <3>1
    <3> HIDE DEF slots, slot
    <3>3. Cardinality(slots) = 0
      BY <3>2, FS_EmptySet
    <3> QED BY <2>1, <2>5, <3>3
  <2> QED BY <2>4, <2>5
<1> QED BY <1>2, <1>3, <1>4, <1>6, <1>7, <1>8, <1>10

(* A fetch hands over no row; one that brings none has come to the end. *)
LEMMA FetchReads ==
  ASSUME IInv, NEW t \in Threads, NEW k \in 1 .. FetchRows, Fetch(t, k)
  PROVE /\ reading[t] /\ unit[t] \in 1 .. Cardinality(Units)
        /\ UNCHANGED <<unit, delivered, next_unit, finished>>
        /\ pc'[t] \in {"scan", "claim"}
        /\ reading'[t] => Handed(t)' = Handed(t)
        /\ ~reading'[t] => Handed(t) = unit_rows[unit[t]]
        /\ \A w \in Threads : w # t => Handed(w)' = Handed(w) /\ reading'[w] = reading[w] /\ pc'[w] = pc[w]
<1> USE ScanAssumption DEF IInv, TypeOK, shared, fetch, batch, handles, plan, query, Goes
<1>1. ThreadInv(t) /\ batch_next[t] = batch_rows[t]
  BY DEF Fetch, BatchCopied
<1>2. reading[t] /\ unit[t] \in 1 .. Cardinality(Units)
  BY <1>1 DEF Fetch, ThreadInv
<1>3. pos[t] <= unit_rows[unit[t]] /\ unit_rows[unit[t]] \in Nat /\ (done[t] => pos[t] = unit_rows[unit[t]])
  BY <1>1, <1>2 DEF ThreadInv, PlanType
<1> DEFINE n == Fetched(t, k, unit_rows[unit[t]] - pos[t])
<1>4. n \in Nat /\ (~(n > 0) => pos[t] = unit_rows[unit[t]])
  BY <1>3 DEF Fetched, Least
<1>5. UNCHANGED <<unit, delivered, next_unit, finished>> /\ pc'[t] \in {"scan", "claim"}
  BY DEF Fetch
<1>6. pos'[t] = pos[t] + n /\ (reading'[t] <=> n > 0) /\ (n > 0 => batch_rows'[t] = n /\ batch_next'[t] = 0)
  <2>1. pos'[t] = pos[t] + n
    BY DEF Fetch
  <2>2. reading'[t] <=> n > 0
    BY DEF Fetch
  <2>3. n > 0 => batch_rows'[t] = n /\ batch_next'[t] = 0
    BY DEF Fetch
  <2> QED BY <2>1, <2>2, <2>3
<1>7. ASSUME NEW w \in Threads, w # t
      PROVE  Handed(w)' = Handed(w) /\ reading'[w] = reading[w] /\ pc'[w] = pc[w]
  <2>1. /\ pos'[w] = pos[w] /\ batch_rows'[w] = batch_rows[w] /\ batch_next'[w] = batch_next[w]
        /\ reading'[w] = reading[w] /\ pc'[w] = pc[w]
    BY <1>7 DEF Fetch
  <2> QED BY <2>1 DEF Handed
<1> HIDE DEF n
<1>8. reading'[t] => Handed(t)' = Handed(t)
  BY <1>1, <1>4, <1>6 DEF Handed
<1>9. ~reading'[t] => Handed(t) = unit_rows[unit[t]]
  BY <1>1, <1>3, <1>4, <1>6 DEF Handed
<1> QED BY <1>2, <1>5, <1>7, <1>8, <1>9

(* No step gives a unit to two threads. *)
LEMMA OneReaderStep == IInv /\ [Next]_vars => OneReader'
<1> SUFFICES ASSUME IInv, [Next]_vars PROVE OneReader'
  OBVIOUS
<1>a. threads \subseteq Threads
  BY DEF IInv, TypeOK, PlanType
<1>0. unit_rows' = unit_rows /\ threads' = threads /\ Units' = Units
  BY PlanIsFixed DEF Units
<1> USE ScanAssumption DEF IInv, TypeOK, RowInv, ThreadInv, Starting, OneReader, Goes, plan, shared, handles, fetch, batch, query
<1>1. ASSUME NEW t \in Threads, t \in threads, Call(t) PROVE OneReader'
  BY <1>1, <1>0 DEF Call
<1>2. ASSUME NEW t \in Threads, t \in threads, ~Ended, Emit(t) PROVE OneReader'
  BY <1>2, <1>0 DEF Emit, InLoop, CopyCount
<1>3. ASSUME NEW t \in Threads, t \in threads, ~Ended, BatchUsed(t) PROVE OneReader'
  BY <1>3, <1>0 DEF BatchUsed, InLoop
<1>4. ASSUME NEW t \in Threads, t \in threads, ~Ended, Return(t) PROVE OneReader'
  BY <1>4, <1>0 DEF Return, InLoop
<1>5. ASSUME NEW t \in Threads, t \in threads, ~Ended, Interrupted(t) PROVE OneReader'
  BY <1>5, <1>0 DEF Interrupted
<1>6. ASSUME NEW t \in Threads, t \in threads, NEW k \in 1 .. FetchRows, ~Ended, Fetch(t, k) PROVE OneReader'
  BY <1>6, <1>0 DEF Fetch, Fetched
<1>7. ASSUME NEW t \in Threads, t \in threads, ~Ended, Claim(t) PROVE OneReader'
  BY <1>7, <1>0 DEF Claim, FetchAdd
<1>8. ASSUME NEW t \in Threads, t \in threads, ~Ended, NoUnitLeft(t) PROVE OneReader'
  BY <1>8, <1>0 DEF NoUnitLeft, FetchAdd
<1>9. ASSUME NEW t \in Threads, t \in threads, ~Ended, TakeSpare(t) PROVE OneReader'
  BY <1>9, <1>0 DEF TakeSpare
<1>10. ASSUME NEW t \in Threads, t \in threads, ~Ended, NoSpare(t) PROVE OneReader'
  BY <1>10, <1>0 DEF NoSpare
<1>11. ASSUME NEW t \in Threads, t \in threads, ~Ended, Login(t) PROVE OneReader'
  BY <1>11, <1>0 DEF Login
<1>12. ASSUME NEW t \in Threads, t \in threads, ~Ended, Execute(t) PROVE OneReader'
  BY <1>12, <1>0 DEF Execute
<1>13. ASSUME NEW t \in Threads, t \in threads, ~Ended, Throws(t) PROVE OneReader'
  BY <1>13, <1>0 DEF Throws, InLoop
<1>14. CASE Stop
  BY <1>14, <1>0 DEF Stop
<1>15. CASE Complete
  BY <1>15, <1>0 DEF Complete, CloseSessions
<1>16. CASE Teardown
  BY <1>16, <1>0 DEF Teardown, CloseSessions
<1>17. CASE UNCHANGED vars
  BY <1>17, <1>0 DEF vars
<1> HIDE ScanAssumption DEF IInv, TypeOK, RowInv, ThreadInv, Starting, OneReader, Goes, plan, shared, handles, fetch, batch, query
<1> QED
  BY <1>a, <1>1, <1>2, <1>3, <1>4, <1>5, <1>6, <1>7, <1>8, <1>9, <1>10, <1>11, <1>12, <1>13, <1>14, <1>15, <1>16, <1>17 DEF Next, Step

(* No step delivers a row twice, or a row of no unit. *)
LEMMA NoStrayRowStep == IInv /\ [Next]_vars => NoStrayRow'
<1> SUFFICES ASSUME IInv, [Next]_vars PROVE NoStrayRow'
  OBVIOUS
<1>a. threads \subseteq Threads
  BY DEF IInv, TypeOK, PlanType
<1>0. unit_rows' = unit_rows /\ threads' = threads /\ Units' = Units
  BY PlanIsFixed DEF Units
<1> USE ScanAssumption DEF IInv, TypeOK, RowInv, ThreadInv, Starting, NoStrayRow, Goes, plan, shared, handles, fetch, batch, query
<1>1. ASSUME NEW t \in Threads, t \in threads, Call(t) PROVE NoStrayRow'
  BY <1>1, <1>0 DEF Call
<1>2. ASSUME NEW t \in Threads, t \in threads, ~Ended, Emit(t) PROVE NoStrayRow'
  <2>1. \A i \in 1 .. MaxUnitRows : delivered[<<unit[t], i>>] = 1 <=> i <= Handed(t)
    BY <1>2, EmitDelivers DEF FirstRowsHanded
  <2>2. \A u \in 1 .. MaxUnits, i \in 1 .. MaxUnitRows : delivered[<<u, i>>] \in Nat
    BY DEF Row
  <2>4. NoStrayRow
    OBVIOUS
  <2> HIDE DEF IInv, TypeOK, ThreadInv
  <2> SUFFICES ASSUME NEW u \in 1 .. MaxUnits, NEW i \in 1 .. MaxUnitRows
               PROVE /\ delivered'[<<u, i>>] <= 1
                     /\ delivered'[<<u, i>>] = 1 => u <= Cardinality(Units) /\ u <= next_unit /\ i <= unit_rows[u]
    BY <1>2, <1>0, EmitDelivers
  <2>5. CASE u = unit[t] /\ Handed(t) < i /\ i <= Handed(t)'
    <3>1. delivered'[<<u, i>>] = delivered[<<u, i>>] + 1
      BY <1>2, <2>5, EmitDelivers
    <3>2. ~(delivered[<<u, i>>] = 1)
      BY <1>2, <2>1, <2>5, EmitDelivers
    <3> QED BY <1>2, <3>1, <3>2, <2>2, <2>4, <2>5, EmitDelivers
  <2>6. CASE ~(u = unit[t] /\ Handed(t) < i /\ i <= Handed(t)')
    BY <1>2, <2>2, <2>4, <2>6, EmitDelivers
  <2> QED BY <2>5, <2>6
<1>3. ASSUME NEW t \in Threads, t \in threads, ~Ended, BatchUsed(t) PROVE NoStrayRow'
  BY <1>3, <1>0 DEF BatchUsed, InLoop
<1>4. ASSUME NEW t \in Threads, t \in threads, ~Ended, Return(t) PROVE NoStrayRow'
  BY <1>4, <1>0 DEF Return, InLoop
<1>5. ASSUME NEW t \in Threads, t \in threads, ~Ended, Interrupted(t) PROVE NoStrayRow'
  BY <1>5, <1>0 DEF Interrupted
<1>6. ASSUME NEW t \in Threads, t \in threads, NEW k \in 1 .. FetchRows, ~Ended, Fetch(t, k) PROVE NoStrayRow'
  BY <1>6, <1>0 DEF Fetch, Fetched
<1>7. ASSUME NEW t \in Threads, t \in threads, ~Ended, Claim(t) PROVE NoStrayRow'
  <2>1. NoStrayRow /\ next_unit \in Nat /\ next_unit' = next_unit + 1 /\ delivered' = delivered
    BY <1>7 DEF Claim, FetchAdd
  <2> HIDE DEF IInv, TypeOK, ThreadInv
  <2> SUFFICES ASSUME NEW u \in 1 .. MaxUnits, NEW i \in 1 .. MaxUnitRows
               PROVE /\ delivered[<<u, i>>] <= 1
                     /\ delivered[<<u, i>>] = 1 => u <= Cardinality(Units) /\ u <= next_unit' /\ i <= unit_rows[u]
    BY <1>0, <2>1
  <2> QED BY <2>1
<1>8. ASSUME NEW t \in Threads, t \in threads, ~Ended, NoUnitLeft(t) PROVE NoStrayRow'
  <2>1. NoStrayRow /\ next_unit \in Nat /\ next_unit' = next_unit + 1 /\ delivered' = delivered
    BY <1>8 DEF NoUnitLeft, FetchAdd
  <2> HIDE DEF IInv, TypeOK, ThreadInv
  <2> SUFFICES ASSUME NEW u \in 1 .. MaxUnits, NEW i \in 1 .. MaxUnitRows
               PROVE /\ delivered[<<u, i>>] <= 1
                     /\ delivered[<<u, i>>] = 1 => u <= Cardinality(Units) /\ u <= next_unit' /\ i <= unit_rows[u]
    BY <1>0, <2>1
  <2> QED BY <2>1
<1>9. ASSUME NEW t \in Threads, t \in threads, ~Ended, TakeSpare(t) PROVE NoStrayRow'
  BY <1>9, <1>0 DEF TakeSpare
<1>10. ASSUME NEW t \in Threads, t \in threads, ~Ended, NoSpare(t) PROVE NoStrayRow'
  BY <1>10, <1>0 DEF NoSpare
<1>11. ASSUME NEW t \in Threads, t \in threads, ~Ended, Login(t) PROVE NoStrayRow'
  BY <1>11, <1>0 DEF Login
<1>12. ASSUME NEW t \in Threads, t \in threads, ~Ended, Execute(t) PROVE NoStrayRow'
  BY <1>12, <1>0 DEF Execute
<1>13. ASSUME NEW t \in Threads, t \in threads, ~Ended, Throws(t) PROVE NoStrayRow'
  BY <1>13, <1>0 DEF Throws, InLoop
<1>14. CASE Stop
  BY <1>14, <1>0 DEF Stop
<1>15. CASE Complete
  BY <1>15, <1>0 DEF Complete, CloseSessions
<1>16. CASE Teardown
  BY <1>16, <1>0 DEF Teardown, CloseSessions
<1>17. CASE UNCHANGED vars
  BY <1>17, <1>0 DEF vars
<1> HIDE ScanAssumption DEF IInv, TypeOK, RowInv, ThreadInv, Starting, NoStrayRow, Goes, plan, shared, handles, fetch, batch, query
<1> QED
  BY <1>a, <1>1, <1>2, <1>3, <1>4, <1>5, <1>6, <1>7, <1>8, <1>9, <1>10, <1>11, <1>12, <1>13, <1>14, <1>15, <1>16, <1>17 DEF Next, Step

(* Every step delivers the next rows of a unit. *)
LEMMA FirstRowsStep == IInv /\ [Next]_vars => FirstRowsHanded'
<1> SUFFICES ASSUME IInv, [Next]_vars PROVE FirstRowsHanded'
  OBVIOUS
<1>a. threads \subseteq Threads
  BY DEF IInv, TypeOK, PlanType
<1>0. unit_rows' = unit_rows /\ threads' = threads /\ Units' = Units
  BY PlanIsFixed DEF Units
<1> USE ScanAssumption DEF IInv, TypeOK, RowInv, ThreadInv, Starting, FirstRowsHanded, Handed, Goes, plan, shared, handles, fetch, batch, query
<1>1. ASSUME NEW t \in Threads, t \in threads, Call(t) PROVE FirstRowsHanded'
  BY <1>1, <1>0 DEF Call
<1>2. ASSUME NEW t \in Threads, t \in threads, ~Ended, Emit(t) PROVE FirstRowsHanded'
  <2>1. FirstRowsHanded /\ OneReader
    OBVIOUS
  <2>2. \A u \in 1 .. MaxUnits, i \in 1 .. MaxUnitRows : delivered[<<u, i>>] \in Nat /\ delivered[<<u, i>>] <= 1
    BY DEF Row, NoStrayRow
  <2>3. \A w \in Threads : Starting(w) \/ reading[w] => unit[w] \in 1 .. MaxUnits
    OBVIOUS
  <2> HIDE DEF IInv, TypeOK, ThreadInv, Handed, Starting
  <2>4. \A w \in Threads : Starting(w)' = Starting(w)
    BY <1>2, EmitDelivers DEF Starting
  <2>5. ASSUME NEW w \in Threads, w # t, NEW i \in 1 .. MaxUnitRows
        PROVE /\ Starting(w)' => delivered'[<<unit[w], i>>] = 0
              /\ reading[w] => (delivered'[<<unit[w], i>>] = 1 <=> i <= Handed(w)')
    <3>1. unit[w] # unit[t]
      BY <1>2, <2>1, <2>5, EmitDelivers DEF OneReader
    <3>2. Starting(w) \/ reading[w] => delivered'[<<unit[w], i>>] = delivered[<<unit[w], i>>]
      BY <1>2, <3>1, <2>2, <2>3, EmitDelivers
    <3> QED BY <1>2, <2>1, <2>4, <2>5, <3>2, EmitDelivers
  <2>6. ASSUME NEW i \in 1 .. MaxUnitRows
        PROVE ~Starting(t) /\ (delivered'[<<unit[t], i>>] = 1 <=> i <= Handed(t)')
    <3>1. ~Starting(t) /\ unit[t] \in 1 .. MaxUnits
      BY <1>2, <2>3, EmitDelivers DEF IInv, ThreadInv
    <3>2. delivered[<<unit[t], i>>] \in Nat /\ delivered[<<unit[t], i>>] <= 1 /\ (delivered[<<unit[t], i>>] = 1 <=> i <= Handed(t))
      BY <1>2, <2>1, <2>2, <3>1, EmitDelivers
    <3>3. CASE Handed(t) < i /\ i <= Handed(t)'
      BY <1>2, <3>1, <3>2, <3>3, EmitDelivers
    <3>4. CASE ~(Handed(t) < i /\ i <= Handed(t)')
      BY <1>2, <3>1, <3>2, <3>4, EmitDelivers
    <3> QED BY <3>1, <3>3, <3>4
  <2> QED BY <1>2, <2>4, <2>5, <2>6, EmitDelivers
<1>3. ASSUME NEW t \in Threads, t \in threads, ~Ended, BatchUsed(t) PROVE FirstRowsHanded'
  BY <1>3, <1>0 DEF BatchUsed, InLoop
<1>4. ASSUME NEW t \in Threads, t \in threads, ~Ended, Return(t) PROVE FirstRowsHanded'
  BY <1>4, <1>0 DEF Return, InLoop
<1>5. ASSUME NEW t \in Threads, t \in threads, ~Ended, Interrupted(t) PROVE FirstRowsHanded'
  BY <1>5, <1>0 DEF Interrupted
<1>6. ASSUME NEW t \in Threads, t \in threads, NEW k \in 1 .. FetchRows, ~Ended, Fetch(t, k) PROVE FirstRowsHanded'
  <2>1. FirstRowsHanded
    OBVIOUS
  <2> HIDE DEF IInv, TypeOK, ThreadInv, Handed
  <2> QED BY <1>6, <2>1, FetchReads
<1>7. ASSUME NEW t \in Threads, t \in threads, ~Ended, Claim(t) PROVE FirstRowsHanded'
  <2>1. ASSUME NEW w \in Threads, w # t, NEW i \in 1 .. MaxUnitRows
        PROVE /\ Starting(w)' => delivered'[<<unit'[w], i>>] = 0
              /\ reading'[w] => (delivered'[<<unit'[w], i>>] = 1 <=> i <= Handed(w)')
    BY <1>7, <2>1 DEF Claim, FetchAdd, Handed
  <2>2. next_unit + 1 \in 1 .. MaxUnits /\ unit'[t] = next_unit + 1 /\ ~reading'[t] /\ delivered' = delivered
    BY <1>7 DEF Claim, FetchAdd, PlanType
  <2>3. NoStrayRow /\ next_unit \in Nat /\ delivered \in [Row -> Nat]
    OBVIOUS
  <2>4. ASSUME NEW i \in 1 .. MaxUnitRows PROVE delivered[<<next_unit + 1, i>>] = 0
    <3> HIDE DEF IInv, TypeOK, ThreadInv, Handed
    <3>1. <<next_unit + 1, i>> \in Row
      BY <2>2 DEF Row
    <3> QED BY <3>1, <2>2, <2>3 DEF NoStrayRow
  <2> HIDE DEF IInv, TypeOK, ThreadInv, Handed
  <2> QED BY <1>7, <2>1, <2>2, <2>4
<1>8. ASSUME NEW t \in Threads, t \in threads, ~Ended, NoUnitLeft(t) PROVE FirstRowsHanded'
  BY <1>8, <1>0 DEF NoUnitLeft, FetchAdd
<1>9. ASSUME NEW t \in Threads, t \in threads, ~Ended, TakeSpare(t) PROVE FirstRowsHanded'
  BY <1>9, <1>0 DEF TakeSpare
<1>10. ASSUME NEW t \in Threads, t \in threads, ~Ended, NoSpare(t) PROVE FirstRowsHanded'
  BY <1>10, <1>0 DEF NoSpare
<1>11. ASSUME NEW t \in Threads, t \in threads, ~Ended, Login(t) PROVE FirstRowsHanded'
  BY <1>11, <1>0 DEF Login
<1>12. ASSUME NEW t \in Threads, t \in threads, ~Ended, Execute(t) PROVE FirstRowsHanded'
  BY <1>12, <1>0 DEF Execute
<1>13. ASSUME NEW t \in Threads, t \in threads, ~Ended, Throws(t) PROVE FirstRowsHanded'
  BY <1>13, <1>0 DEF Throws, InLoop
<1>14. CASE Stop
  BY <1>14, <1>0 DEF Stop
<1>15. CASE Complete
  BY <1>15, <1>0 DEF Complete, CloseSessions
<1>16. CASE Teardown
  BY <1>16, <1>0 DEF Teardown, CloseSessions
<1>17. CASE UNCHANGED vars
  BY <1>17, <1>0 DEF vars
<1> HIDE ScanAssumption DEF IInv, TypeOK, RowInv, ThreadInv, Starting, FirstRowsHanded, Handed, Goes, plan, shared, handles, fetch, batch, query
<1> QED
  BY <1>a, <1>1, <1>2, <1>3, <1>4, <1>5, <1>6, <1>7, <1>8, <1>9, <1>10, <1>11, <1>12, <1>13, <1>14, <1>15, <1>16, <1>17 DEF Next, Step

(* No step leaves a unit with rows that nobody is to read. *)
LEMMA AllElseStep == IInv /\ [Next]_vars => AllElseHanded'
<1> SUFFICES ASSUME IInv, [Next]_vars PROVE AllElseHanded'
  OBVIOUS
<1>a. threads \subseteq Threads
  BY DEF IInv, TypeOK, PlanType
<1>0. unit_rows' = unit_rows /\ threads' = threads /\ Units' = Units
  BY PlanIsFixed DEF Units
<1> USE ScanAssumption DEF IInv, TypeOK, RowInv, ThreadInv, Starting, AllElseHanded, Owes, Goes, plan, shared, handles, fetch, batch, query
<1>1. ASSUME NEW t \in Threads, t \in threads, Call(t) PROVE AllElseHanded'
  BY <1>1, <1>0 DEF Call
<1>2. ASSUME NEW t \in Threads, t \in threads, ~Ended, Emit(t) PROVE AllElseHanded'
  <2>1. AllElseHanded
    OBVIOUS
  <2> HIDE DEF IInv, TypeOK, ThreadInv
  <2>2. \A w \in Threads, u \in Nat : Owes(w, u)' = Owes(w, u)
    BY <1>2, EmitDelivers
  <2>3. Owes(t, unit[t])
    BY <1>2, EmitDelivers
  <2>4. \A u \in 1 .. MaxUnits, i \in 1 .. MaxUnitRows : u # unit[t] => delivered'[<<u, i>>] = delivered[<<u, i>>]
    BY <1>2, EmitDelivers DEF IInv, TypeOK, Row
  <2>5. Cardinality(Units) \in 0 .. MaxUnits /\ \A u \in 1 .. Cardinality(Units) : unit_rows[u] \in 0 .. MaxUnitRows
    BY DEF IInv, TypeOK, PlanType
  <2>6. ASSUME NEW u \in 1 .. Cardinality(Units), u <= next_unit, ~\E w \in Threads : Owes(w, u)'
        PROVE \A i \in 1 .. unit_rows[u] : delivered'[<<u, i>>] = 1
    <3>1. u # unit[t] /\ \A i \in 1 .. unit_rows[u] : delivered[<<u, i>>] = 1
      BY <1>2, <2>1, <2>2, <2>3, <2>6
    <3> QED BY <3>1, <2>4, <2>5
  <2> QED BY <1>2, <1>0, <2>6, EmitDelivers
<1>3. ASSUME NEW t \in Threads, t \in threads, ~Ended, BatchUsed(t) PROVE AllElseHanded'
  BY <1>3, <1>0 DEF BatchUsed, InLoop
<1>4. ASSUME NEW t \in Threads, t \in threads, ~Ended, Return(t) PROVE AllElseHanded'
  BY <1>4, <1>0 DEF Return, InLoop
<1>5. ASSUME NEW t \in Threads, t \in threads, ~Ended, Interrupted(t) PROVE AllElseHanded'
  BY <1>5, <1>0 DEF Interrupted
<1>6. ASSUME NEW t \in Threads, t \in threads, NEW k \in 1 .. FetchRows, ~Ended, Fetch(t, k) PROVE AllElseHanded'
  <2>1. AllElseHanded /\ FirstRowsHanded /\ ThreadInv(t) /\ ~finished[t] /\ pc[t] = "next"
    BY <1>6 DEF Fetch
  <2>5. Cardinality(Units) \in 0 .. MaxUnits /\ \A u \in 1 .. Cardinality(Units) : unit_rows[u] \in 0 .. MaxUnitRows
    BY DEF PlanType
  <2> HIDE DEF IInv, TypeOK, ThreadInv
  <2>2. \A w \in Threads, u \in Nat : w # t => Owes(w, u)' = Owes(w, u)
    BY <1>6, FetchReads
  <2>3. ~reading'[t] => \A i \in 1 .. unit_rows[unit[t]] : delivered[<<unit[t], i>>] = 1
    BY <1>6, <2>1, <2>5, FetchReads DEF FirstRowsHanded
  <2>4. ASSUME NEW u \in 1 .. Cardinality(Units), u <= next_unit, ~\E w \in Threads : Owes(w, u)'
        PROVE \A i \in 1 .. unit_rows[u] : delivered[<<u, i>>] = 1
    <3>1. CASE \E w \in Threads : w # t /\ Owes(w, u)
      BY <3>1, <2>2, <2>4
    <3>2. CASE Owes(t, u)
      BY <1>6, <3>2, <2>3, <2>4, FetchReads
    <3> QED BY <2>1, <2>4, <3>1, <3>2
  <2> QED BY <1>6, <1>0, <2>4, FetchReads
<1>7. ASSUME NEW t \in Threads, t \in threads, ~Ended, Claim(t) PROVE AllElseHanded'
  BY <1>7, <1>0 DEF Claim, FetchAdd
<1>8. ASSUME NEW t \in Threads, t \in threads, ~Ended, NoUnitLeft(t) PROVE AllElseHanded'
  <2>1. ThreadInv(t) /\ next_unit \in Nat /\ next_unit >= Cardinality(Units) /\ Cardinality(Units) \in Nat
    BY <1>8 DEF NoUnitLeft, PlanType
  <2>6. AllElseHanded
    OBVIOUS
  <2>2. delivered' = delivered /\ unit' = unit /\ reading' = reading
    BY <1>8 DEF NoUnitLeft
  <2>3. \A w \in Threads : w # t => pc'[w] = pc[w] /\ finished'[w] = finished[w]
    BY <1>8 DEF NoUnitLeft
  <2>4. ~reading[t] /\ pc[t] \in {"claim", "next"}
    BY <1>8, <2>1 DEF NoUnitLeft, FetchAdd
  <2> HIDE DEF IInv, TypeOK, ThreadInv
  <2>5. \A w \in Threads, u \in Nat : Owes(w, u) => Owes(w, u)'
    BY <2>2, <2>3, <2>4
  <2> QED BY <1>0, <2>1, <2>2, <2>5, <2>6
<1>9. ASSUME NEW t \in Threads, t \in threads, ~Ended, TakeSpare(t) PROVE AllElseHanded'
  BY <1>9, <1>0 DEF TakeSpare
<1>10. ASSUME NEW t \in Threads, t \in threads, ~Ended, NoSpare(t) PROVE AllElseHanded'
  BY <1>10, <1>0 DEF NoSpare
<1>11. ASSUME NEW t \in Threads, t \in threads, ~Ended, Login(t) PROVE AllElseHanded'
  BY <1>11, <1>0 DEF Login
<1>12. ASSUME NEW t \in Threads, t \in threads, ~Ended, Execute(t) PROVE AllElseHanded'
  BY <1>12, <1>0 DEF Execute
<1>13. ASSUME NEW t \in Threads, t \in threads, ~Ended, Throws(t) PROVE AllElseHanded'
  BY <1>13, <1>0 DEF Throws, InLoop
<1>14. CASE Stop
  BY <1>14, <1>0 DEF Stop
<1>15. CASE Complete
  BY <1>15, <1>0 DEF Complete, CloseSessions
<1>16. CASE Teardown
  BY <1>16, <1>0 DEF Teardown, CloseSessions
<1>17. CASE UNCHANGED vars
  BY <1>17, <1>0 DEF vars
<1> HIDE ScanAssumption DEF IInv, TypeOK, RowInv, ThreadInv, Starting, AllElseHanded, Owes, Goes, plan, shared, handles, fetch, batch, query
<1> QED
  BY <1>a, <1>1, <1>2, <1>3, <1>4, <1>5, <1>6, <1>7, <1>8, <1>9, <1>10, <1>11, <1>12, <1>13, <1>14, <1>15, <1>16, <1>17 DEF Next, Step

(* No step lets a thread leave a running query early, or completes one that has not delivered the table. *)
LEMMA StatusStep == IInv /\ [Next]_vars => StatusInv'
<1> SUFFICES ASSUME IInv, [Next]_vars PROVE StatusInv'
  OBVIOUS
<1>a. threads \subseteq Threads
  BY DEF IInv, TypeOK, PlanType
<1>0. unit_rows' = unit_rows /\ threads' = threads /\ Units' = Units
  BY PlanIsFixed DEF Units
<1> USE ScanAssumption DEF IInv, TypeOK, StatusInv, Ended, Goes, plan, shared, handles, fetch, batch, query
<1>1. ASSUME NEW t \in Threads, t \in threads, Call(t) PROVE StatusInv'
  BY <1>1, <1>0 DEF Call
<1>2. ASSUME NEW t \in Threads, t \in threads, ~Ended, Emit(t) PROVE StatusInv'
  BY <1>2, <1>0 DEF Emit, InLoop, CopyCount
<1>3. ASSUME NEW t \in Threads, t \in threads, ~Ended, BatchUsed(t) PROVE StatusInv'
  BY <1>3, <1>0 DEF BatchUsed, InLoop
<1>4. ASSUME NEW t \in Threads, t \in threads, ~Ended, Return(t) PROVE StatusInv'
  BY <1>4, <1>0 DEF Return, InLoop
<1>5. ASSUME NEW t \in Threads, t \in threads, ~Ended, Interrupted(t) PROVE StatusInv'
  BY <1>5, <1>0 DEF Interrupted
<1>6. ASSUME NEW t \in Threads, t \in threads, NEW k \in 1 .. FetchRows, ~Ended, Fetch(t, k) PROVE StatusInv'
  <2>1. status' = status /\ StatusInv
    BY <1>6 DEF Fetch
  <2> HIDE DEF IInv, TypeOK
  <2> QED BY <1>6, <1>a, <1>0, <2>1, FetchReads
<1>7. ASSUME NEW t \in Threads, t \in threads, ~Ended, Claim(t) PROVE StatusInv'
  BY <1>7, <1>0 DEF Claim, FetchAdd
<1>8. ASSUME NEW t \in Threads, t \in threads, ~Ended, NoUnitLeft(t) PROVE StatusInv'
  BY <1>8, <1>0 DEF NoUnitLeft, FetchAdd
<1>9. ASSUME NEW t \in Threads, t \in threads, ~Ended, TakeSpare(t) PROVE StatusInv'
  BY <1>9, <1>0 DEF TakeSpare
<1>10. ASSUME NEW t \in Threads, t \in threads, ~Ended, NoSpare(t) PROVE StatusInv'
  BY <1>10, <1>0 DEF NoSpare
<1>11. ASSUME NEW t \in Threads, t \in threads, ~Ended, Login(t) PROVE StatusInv'
  BY <1>11, <1>0 DEF Login
<1>12. ASSUME NEW t \in Threads, t \in threads, ~Ended, Execute(t) PROVE StatusInv'
  BY <1>12, <1>0 DEF Execute
<1>13. ASSUME NEW t \in Threads, t \in threads, ~Ended, Throws(t) PROVE StatusInv'
  BY <1>13, <1>0 DEF Throws, InLoop
<1>14. CASE Stop
  BY <1>14, <1>0 DEF Stop
<1>15. CASE Complete
  <2>1. \A w \in threads : pc[w] = "out" /\ finished[w]
    BY <1>15 DEF Complete
  <2>2. PICK w \in threads : TRUE
    BY DEF SessionInv
  <2>3. ThreadInv(w) /\ finished[w] /\ next_unit \in Nat /\ Cardinality(Units) \in Nat
    BY <1>a, <2>1, <2>2 DEF PlanType
  <2>4. next_unit >= Cardinality(Units)
    BY <2>3 DEF ThreadInv
  <2>5. \A v \in Threads, u \in 1 .. Cardinality(Units) : ~Owes(v, u)
    <3> SUFFICES ASSUME NEW v \in Threads, NEW u \in 1 .. Cardinality(Units) PROVE ~Owes(v, u)
      OBVIOUS
    <3>1. ThreadInv(v)
      OBVIOUS
    <3>2. CASE v \in threads
      BY <2>1, <3>1, <3>2 DEF ThreadInv, Owes, Starting
    <3>3. CASE v \notin threads
      BY <3>1, <3>3 DEF ThreadInv, Owes, Starting
    <3> QED BY <3>2, <3>3
  <2>6. AllElseHanded
    BY DEF RowInv
  <2>7. \A u \in 1 .. Cardinality(Units) : \A i \in 1 .. unit_rows[u] : delivered[<<u, i>>] = 1
    <3> HIDE DEF IInv, TypeOK
    <3> SUFFICES ASSUME NEW u \in 1 .. Cardinality(Units) PROVE \A i \in 1 .. unit_rows[u] : delivered[<<u, i>>] = 1
      OBVIOUS
    <3>1. u <= next_unit
      BY <2>3, <2>4
    <3> QED BY <3>1, <2>5, <2>6 DEF AllElseHanded
  <2>8. \A u \in 1 .. Cardinality(Units) : unit_rows[u] \in Nat
    <3>1. unit_rows \in [1 .. Cardinality(Units) -> 0 .. MaxUnitRows]
      BY DEF PlanType
    <3> HIDE DEF IInv, TypeOK
    <3> QED BY <3>1
  <2>9. delivered' = delivered /\ status' = "complete"
    BY <1>15 DEF Complete, CloseSessions
  <2> HIDE DEF IInv, TypeOK
  <2> QED BY <1>0, <2>7, <2>8, <2>9
<1>16. CASE Teardown
  BY <1>16, <1>0 DEF Teardown, CloseSessions
<1>17. CASE UNCHANGED vars
  BY <1>17, <1>0 DEF vars
<1> HIDE ScanAssumption DEF IInv, TypeOK, StatusInv, Ended, Goes, plan, shared, handles, fetch, batch, query
<1> QED
  BY <1>a, <1>1, <1>2, <1>3, <1>4, <1>5, <1>6, <1>7, <1>8, <1>9, <1>10, <1>11, <1>12, <1>13, <1>14, <1>15, <1>16, <1>17 DEF Next, Step

(* A thread that starts on a unit is not finished, and there is a unit. *)
LEMMA StartingThreads ==
  ASSUME IInv, NEW t \in Threads, Starting(t)
  PROVE  ~finished[t] /\ Units # {}
<1>1. ThreadInv(t)
  BY DEF IInv
<1>2. ~finished[t]
  BY <1>1 DEF ThreadInv, Starting
<1>3. unit[t] \in 0 .. Cardinality(Units) /\ unit[t] # 0
  BY <1>1 DEF ThreadInv
<1>4. Cardinality(Units) # 0
  BY <1>3
<1> QED BY <1>2, <1>4, FS_EmptySet

(* No step opens a session beside the planning session, or leaves one behind. *)
LEMMA SessionStep == IInv /\ [Next]_vars => SessionInv'
<1> SUFFICES ASSUME IInv, [Next]_vars PROVE SessionInv'
  OBVIOUS
<1>a. threads \subseteq Threads
  BY DEF IInv, TypeOK, PlanType
<1>0. threads' = threads /\ Units' = Units /\ MaxThreads' = MaxThreads
  BY PlanIsFixed DEF Units, MaxThreads, Sessions, Least
<1>b. \A t \in Threads : pc[t] \in {"session", "login", "execute"} => ~finished[t] /\ Units # {}
  BY StartingThreads DEF Starting
<1> USE ScanAssumption DEF IInv, TypeOK, SessionInv, Ended, Goes, plan, shared, handles, fetch, batch, query
<1>1. ASSUME NEW t \in Threads, t \in threads, Call(t) PROVE SessionInv'
  BY <1>1, <1>0 DEF Call
<1>2. ASSUME NEW t \in Threads, t \in threads, ~Ended, Emit(t) PROVE SessionInv'
  BY <1>2, <1>0 DEF Emit, InLoop, CopyCount
<1>3. ASSUME NEW t \in Threads, t \in threads, ~Ended, BatchUsed(t) PROVE SessionInv'
  BY <1>3, <1>0 DEF BatchUsed, InLoop
<1>4. ASSUME NEW t \in Threads, t \in threads, ~Ended, Return(t) PROVE SessionInv'
  BY <1>4, <1>0 DEF Return, InLoop
<1>5. ASSUME NEW t \in Threads, t \in threads, ~Ended, Interrupted(t) PROVE SessionInv'
  BY <1>5, <1>0 DEF Interrupted
<1>6. ASSUME NEW t \in Threads, t \in threads, NEW k \in 1 .. FetchRows, ~Ended, Fetch(t, k) PROVE SessionInv'
  BY <1>6, <1>0 DEF Fetch, Fetched
<1>7. ASSUME NEW t \in Threads, t \in threads, ~Ended, Claim(t) PROVE SessionInv'
  BY <1>7, <1>0 DEF Claim, FetchAdd
<1>8. ASSUME NEW t \in Threads, t \in threads, ~Ended, NoUnitLeft(t) PROVE SessionInv'
  BY <1>8, <1>0 DEF NoUnitLeft, FetchAdd
<1>9. ASSUME NEW t \in Threads, t \in threads, ~Ended, TakeSpare(t) PROVE SessionInv'
  <2>1. ~finished[t] /\ Units # {}
    BY <1>9, <1>b DEF TakeSpare
  <2> QED BY <1>9, <1>0, <2>1 DEF TakeSpare
<1>10. ASSUME NEW t \in Threads, t \in threads, ~Ended, NoSpare(t) PROVE SessionInv'
  <2>1. ~finished[t] /\ Units # {}
    BY <1>10, <1>b DEF NoSpare
  <2> QED BY <1>10, <1>0, <2>1 DEF NoSpare
<1>11. ASSUME NEW t \in Threads, t \in threads, ~Ended, Login(t) PROVE SessionInv'
  <2>1. ~finished[t] /\ Units # {}
    BY <1>11, <1>b DEF Login
  <2> QED BY <1>11, <1>0, <2>1 DEF Login
<1>12. ASSUME NEW t \in Threads, t \in threads, ~Ended, Execute(t) PROVE SessionInv'
  <2>1. ~finished[t]
    BY <1>12 DEF Execute, ThreadInv, Starting
  <2> QED BY <1>12, <1>0, <2>1 DEF Execute
<1>13. ASSUME NEW t \in Threads, t \in threads, ~Ended, Throws(t) PROVE SessionInv'
  BY <1>13, <1>0 DEF Throws, InLoop
<1>14. CASE Stop
  BY <1>14, <1>0 DEF Stop
<1>15. CASE Complete
  <2>1. \A w \in Threads : pc[w] # "login"
    BY <1>15 DEF Complete, ThreadInv
  <2> QED BY <1>15, <1>0, <2>1 DEF Complete, CloseSessions
<1>16. CASE Teardown
  <2>1. \A w \in Threads : pc[w] # "login"
    BY <1>16 DEF Teardown, ThreadInv
  <2> QED BY <1>16, <1>0, <2>1 DEF Teardown, CloseSessions
<1>17. CASE UNCHANGED vars
  BY <1>17, <1>0 DEF vars
<1> HIDE ScanAssumption DEF IInv, TypeOK, SessionInv, Ended, Goes, plan, shared, handles, fetch, batch, query
<1> QED
  BY <1>a, <1>1, <1>2, <1>3, <1>4, <1>5, <1>6, <1>7, <1>8, <1>9, <1>10, <1>11, <1>12, <1>13, <1>14, <1>15, <1>16, <1>17 DEF Next, Step

(* The states a scan starts in satisfy the invariant. *)
LEMMA InitIInv == Init => IInv
<1> SUFFICES ASSUME Init PROVE IInv
  OBVIOUS
<1> USE ScanAssumption DEF Init, LocalInit
<1>1. PICK n \in 0 .. MaxUnits : unit_rows \in [1 .. n -> 0 .. MaxUnitRows]
  OBVIOUS
<1>2. Units = 1 .. n /\ Cardinality(Units) = n
  <2>1. Cardinality(1 .. n) = n
    BY FS_Interval, <1>1
  <2> QED BY <1>1, <2>1 DEF Units
<1>3. PlanType
  BY <1>1, <1>2 DEF PlanType
<1>4. TypeOK
  BY <1>3, NoBufferIsABuffer DEF TypeOK
<1>5. BatchCopied /\ BufferInv
  BY DEF BatchCopied, BufferInv
<1>6. \A t \in Threads : ThreadInv(t)
  BY <1>1, <1>2 DEF ThreadInv, Starting
<1>7. RowInv
  <2>1. \A u \in 1 .. MaxUnits, i \in 1 .. MaxUnitRows : delivered[<<u, i>>] = 0
    BY DEF Row
  <2> QED BY <1>1, <1>2, <2>1 DEF RowInv, OneReader, NoStrayRow, FirstRowsHanded, AllElseHanded, Starting
<1>8. StatusInv
  BY DEF StatusInv
<1>9. SessionInv
  <2>1. threads # {}
    <3>1. Cardinality(threads) # 0
      BY <1>1, <1>2 DEF MaxThreads, Sessions, Least
    <3> HIDE DEF Init, LocalInit
    <3> QED BY <3>1, FS_EmptySet
  <2>2. Cardinality(threads) <= MaxThreads
    OBVIOUS
  <2> QED BY <2>1, <2>2 DEF SessionInv, Ended
<1> QED BY <1>4, <1>5, <1>6, <1>7, <1>8, <1>9 DEF IInv

(* The invariant holds of every state of every scan. *)
THEOREM ScanInvariant == Spec => []IInv
<1>1. IInv /\ [Next]_vars => IInv'
  BY TypeStep, CopiedStep, BufferStep, ThreadStep, OneReaderStep, NoStrayRowStep, FirstRowsStep, AllElseStep, StatusStep, SessionStep
     DEF IInv, RowInv
<1> QED BY InitIInv, <1>1, PTL DEF Spec

(* The variables of a scan keep their types. *)
THEOREM ScanTypeCorrect == Spec => []TypeOK
<1>1. IInv => TypeOK
  BY DEF IInv
<1> QED BY ScanInvariant, <1>1, PTL

(* Rows that are delivered, and the table, in terms of units and row numbers. *)
LEMMA DeliveredRows ==
  ASSUME IInv
  PROVE /\ \A r \in Row : delivered[r] \in Nat /\ delivered[r] <= 1
        /\ Delivered \subseteq Table
        /\ status = "complete" => Delivered = Table
<1> USE ScanAssumption DEF IInv, TypeOK, RowInv
<1>1. Units = 1 .. Cardinality(Units) /\ Cardinality(Units) \in 0 .. MaxUnits
  BY DEF PlanType, Units
<1>2. \A r \in Row : r = <<r[1], r[2]>> /\ r[1] \in 1 .. MaxUnits /\ r[2] \in 1 .. MaxUnitRows
  BY DEF Row
<1>3. \A r \in Row : delivered[r] \in Nat /\ delivered[r] <= 1
  BY <1>2 DEF NoStrayRow
<1>4. ASSUME NEW r \in Row, delivered[r] > 0 PROVE r[1] \in Units /\ r[2] <= unit_rows[r[1]]
  <2>1. delivered[r] = 1
    BY <1>3, <1>4
  <2> HIDE DEF IInv, TypeOK
  <2>2. r[1] <= Cardinality(Units) /\ r[2] <= unit_rows[r[1]]
    BY <1>2, <2>1 DEF NoStrayRow, IInv
  <2> QED BY <1>1, <1>2, <2>2
<1>5. ASSUME status = "complete", NEW r \in Row, r[1] \in Units, r[2] <= unit_rows[r[1]] PROVE delivered[r] > 0
  <2> HIDE DEF TypeOK, RowInv
  <2>1. delivered[<<r[1], r[2]>>] = 1
    BY <1>1, <1>2, <1>5 DEF StatusInv
  <2> QED BY <1>2, <2>1
<1> HIDE DEF IInv, TypeOK, RowInv
<1> QED BY <1>3, <1>4, <1>5 DEF Delivered, Table

(* Each row of the table reaches DuckDB at most once and no other row does;    *)
(* a scan that completes delivered all of them, for any number of threads and  *)
(* units and any split of a unit into batches and chunks.                      *)
THEOREM EachRowOnce == Spec => []ExactlyOnce
<1>1. IInv => ExactlyOnce
  BY DeliveredRows DEF ExactlyOnce
<1> QED BY ScanInvariant, <1>1, PTL

(* The threads that hold a session are threads of the plan, and there is none   *)
(* while the planning session is kept or when there is nothing to read.         *)
LEMMA SessionsFit == ASSUME IInv PROVE SessionsWithinPlan
<1> DEFINE H == {t \in Threads : session[t] \/ pc[t] = "login"}
<1> USE ScanAssumption DEF IInv, SessionInv
<1>1. H \subseteq threads
  BY DEF ThreadInv
<1>2. IsFiniteSet(threads) /\ IsFiniteSet(H) /\ Cardinality(H) <= Cardinality(threads) /\ Cardinality(H) \in Nat /\ Cardinality(threads) \in Nat
  BY <1>1, FS_Subset, FS_CardinalityType DEF TypeOK, PlanType
<1>3. Units = 1 .. Cardinality(Units) /\ Cardinality(Units) \in Nat
  BY DEF TypeOK, PlanType, Units
<1>4. Sessions \in Nat /\ (Units # {} => Sessions >= 1)
  BY <1>3 DEF Sessions, Least
<1>5. Units = {} => Sessions = 0
  BY FS_EmptySet DEF Sessions, Least
<1>6. Units = {} => H = {} /\ ~spare_session
  OBVIOUS
<1>7. spare_session => H = {} /\ Units # {}
  OBVIOUS
<1>8. Cardinality(H) + (IF spare_session THEN 1 ELSE 0) <= Sessions
  <2> HIDE DEF IInv, SessionInv, H
  <2>1. CASE spare_session
    BY <2>1, <1>4, <1>7, FS_EmptySet
  <2>2. CASE ~spare_session /\ Units = {}
    BY <2>2, <1>4, <1>6, FS_EmptySet
  <2>3. CASE ~spare_session /\ Units # {}
    BY <2>3, <1>2, <1>4 DEF MaxThreads, IInv, SessionInv
  <2> QED BY <2>1, <2>2, <2>3
<1>9. /\ \A t \in Threads : finished[t] => ~session[t] /\ ~cursor[t]
      /\ Ended => ~spare_session /\ \A t \in Threads : ~session[t] /\ ~cursor[t]
  OBVIOUS
<1> QED BY <1>8, <1>9 DEF SessionsWithinPlan

(* A scan never has more sessions open than the sessions option and the plan   *)
(* allow, and none is left when it ended (TakeSession, MaxThreads).            *)
THEOREM SessionsStayWithinPlan == Spec => []SessionsWithinPlan
<1> QED BY ScanInvariant, SessionsFit, PTL

(* Every step of the scan is a step of a row source, or leaves it alone. *)
LEMMA RowSourceStep == IInv /\ IInv' /\ [Next]_vars => [Source!Next]_Source!vars
<1> SUFFICES ASSUME IInv, IInv', [Next]_vars PROVE [Source!Next]_Source!vars
  OBVIOUS
<1> DEFINE state == IF status \in {"complete", "abandoned"} THEN status ELSE "open"
<1>1. threads \subseteq Threads /\ Units' = Units
  BY PlanIsFixed DEF IInv, TypeOK, PlanType, Units
<1>2. Table' = Table
  BY PlanIsFixed, <1>1 DEF Table
<1>3. (Delivered \subseteq Table)' /\ (status = "complete" => Delivered = Table)'
  <2>1. (IInv => Delivered \subseteq Table /\ (status = "complete" => Delivered = Table))'
    BY DeliveredRows, PTL
  <2> QED BY <2>1
<1>4. ASSUME UNCHANGED <<delivered, status>> PROVE UNCHANGED Source!vars
  <2>1. Delivered' = Delivered
    BY <1>4 DEF Delivered
  <2> QED BY <1>2, <1>4, <2>1 DEF Source!vars
<1>5. ASSUME NEW t \in Threads, ~Ended, Emit(t) PROVE [Source!Next]_Source!vars
  <2>1. status' = status /\ status \notin {"complete", "abandoned"}
    BY <1>5 DEF Emit, Ended
  <2>a. batch_next[t] \in Nat /\ CopyCount(t) \in Nat
    BY <1>5, ScanAssumption DEF Emit, InLoop, CopyCount, Least, IInv, TypeOK
  <2>b. \A r \in Row : Copies(t, r) \in Nat
    BY <2>a, CopiesAreCounted
  <2>2. \A r \in Row : delivered[r] > 0 => delivered'[r] > 0
    BY <1>5, <2>b DEF Emit, IInv, TypeOK
  <2>3. Delivered \subseteq Delivered'
    BY <2>2 DEF Delivered
  <2>4. CASE Delivered' = Delivered
    BY <1>2, <2>1, <2>4 DEF Source!vars
  <2>5. CASE Delivered' # Delivered
    BY <1>2, <1>3, <2>1, <2>3, <2>5 DEF Source!Next, Source!Deliver
  <2> QED BY <2>4, <2>5
<1>6. ASSUME NEW t \in Threads, Throws(t), ~Ended PROVE UNCHANGED Source!vars
  <2>1. Delivered' = Delivered /\ state = "open" /\ state' = "open"
    BY <1>6 DEF Throws, Delivered, Ended
  <2> QED BY <1>2, <2>1 DEF Source!vars
<1>7. CASE Stop
  <2>1. Delivered' = Delivered /\ state = "open" /\ state' = "open"
    BY <1>7 DEF Stop, Delivered
  <2> QED BY <1>2, <2>1 DEF Source!vars
<1>8. CASE Complete
  <2>1. Delivered' = Delivered /\ state = "open" /\ status' = "complete"
    BY <1>8 DEF Complete, CloseSessions, Delivered
  <2>2. Delivered = Table
    BY <1>2, <1>3, <2>1
  <2> QED BY <1>2, <2>1, <2>2 DEF Source!Next, Source!Complete
<1>9. CASE Teardown
  <2>1. Delivered' = Delivered /\ state = "open" /\ status' = "abandoned"
    BY <1>9 DEF Teardown, CloseSessions, Delivered
  <2> QED BY <1>2, <2>1 DEF Source!Next, Source!Abandon
<1>10. ASSUME NEW t \in Threads,
              \/ Call(t) \/ BatchUsed(t) \/ Return(t) \/ Interrupted(t) \/ (\E k \in 1 .. FetchRows : Fetch(t, k))
              \/ Claim(t) \/ NoUnitLeft(t) \/ TakeSpare(t) \/ NoSpare(t) \/ Login(t) \/ Execute(t)
       PROVE UNCHANGED <<delivered, status>>
  BY <1>10 DEF Call, BatchUsed, Return, Interrupted, Fetch, Claim, NoUnitLeft, TakeSpare, NoSpare, Login, Execute, query
<1>11. CASE UNCHANGED vars
  BY <1>4, <1>11 DEF vars, query
<1> QED BY <1>1, <1>4, <1>5, <1>6, <1>7, <1>8, <1>9, <1>10, <1>11 DEF Next, Step

(* The parallel scan implements a row source: threads, units, batches and      *)
(* sessions are invisible to the query above it.                               *)
THEOREM ScanImplementsRowSource == Spec => ImplementsRowSource
<1>1. Init => Source!Init
  BY DEF Init, Source!Init, Delivered
<1>2. IInv /\ IInv' /\ [Next]_vars => [Source!Next]_Source!vars
  BY RowSourceStep
<1> QED BY ScanInvariant, <1>1, <1>2, PTL DEF Spec, ImplementsRowSource, Source!Spec
=============================================================================
