------------------------- MODULE CopyLoadProofs -------------------------
(***************************************************************************)
(* For any number of threads, sessions, batches and chunks: sessions are    *)
(* never shared, never more than the threads, and what the COPY reports is  *)
(* what the table holds.                                                   *)
(***************************************************************************)
EXTENDS CopyLoad, FiniteSetTheorems, TLAPS

(* Every step keeps the types. *)
LEMMA TypeStep == IInv /\ [Next]_vars => TypeOK'
<1> SUFFICES ASSUME IInv, [Next]_vars PROVE TypeOK'
  OBVIOUS
<1> USE CopyAssumption DEF IInv, TypeOK, Row, Ended, work, local, pool
<1>1. ASSUME NEW t \in Threads, NEW b \in todo, query \in {"running", "error"}, PrepareBatch(t, b) PROVE TypeOK'
  BY <1>1 DEF PrepareBatch
<1>2. ASSUME NEW t \in Threads, NEW s \in idle, query \in {"running", "error"}, TakeIdle(t, s) PROVE TypeOK'
  BY <1>2 DEF TakeIdle
<1>3. ASSUME NEW t \in Threads, query \in {"running", "error"}, NoneIdle(t) PROVE TypeOK'
  BY <1>3 DEF NoneIdle
<1>4. ASSUME NEW t \in Threads, NEW s \in Sessions, query \in {"running", "error"}, OpenWriter(t, s) PROVE TypeOK'
  BY <1>4 DEF OpenWriter
<1>5. ASSUME NEW t \in Threads, query \in {"running", "error"}, OpenWriterFails(t) PROVE TypeOK'
  BY <1>5 DEF OpenWriterFails, Throw
<1>6. ASSUME NEW t \in Threads, query \in {"running", "error"}, PushWriter(t) PROVE TypeOK'
  <2>1. writer[t] \in Sessions
    BY <1>6 DEF PushWriter, PoolInv
  <2> QED BY <1>6, <2>1 DEF PushWriter
<1>7. ASSUME NEW t \in Threads, query \in {"running", "error"}, WriteChunk(t) PROVE TypeOK'
  <2>1. writer[t] \in Sessions /\ batch[t] \in Batches /\ sent[t] + 1 \in 1 .. Chunks
    BY <1>7 DEF WriteChunk, PoolInv, BatchInv
  <2>2. rows' \in [Sessions -> SUBSET Row]
    BY <1>7, <2>1 DEF WriteChunk
  <2>3. sent' \in [Threads -> 0 .. Chunks]
    BY <1>7, <2>1 DEF WriteChunk
  <2> QED BY <1>7, <2>2, <2>3 DEF WriteChunk
<1>8. ASSUME NEW t \in Threads, query \in {"running", "error"}, WriteChunkFails(t) PROVE TypeOK'
  <2>1. writer[t] \in Sessions /\ batch[t] \in Batches /\ sent[t] + 1 \in 1 .. Chunks
    BY <1>8 DEF WriteChunkFails, PoolInv, BatchInv
  <2>2. rows' \in [Sessions -> SUBSET Row]
    BY <1>8, <2>1 DEF WriteChunkFails
  <2>3. pc' \in [Threads -> {"ready", "acquire", "open", "push", "write", "left"}]
        /\ batch' \in [Threads -> Batches \cup {None}]
        /\ sent' \in [Threads -> 0 .. Chunks]
        /\ writer' \in [Threads -> Sessions \cup {None}]
    BY <1>8 DEF WriteChunkFails, Throw
  <2> QED BY <1>8, <2>1, <2>2, <2>3 DEF WriteChunkFails, Throw
<1>9. ASSUME NEW t \in Threads, query \in {"running", "error"}, ReleaseWriter(t) PROVE TypeOK'
  <2>1. writer[t] \in Sessions /\ batch[t] \in input
    BY <1>9 DEF ReleaseWriter, PoolInv, BatchInv
  <2> QED BY <1>9, <2>1 DEF ReleaseWriter
<1>10. CASE StartFinalize
  BY <1>10 DEF StartFinalize
<1>11. ASSUME NEW s \in Sessions, FinishSession(s) PROVE TypeOK'
  BY <1>11 DEF FinishSession
<1>12. ASSUME NEW s \in Sessions, FinishSessionFails(s) PROVE TypeOK'
  BY <1>12 DEF FinishSessionFails
<1>13. CASE EndFinalize
  BY <1>13 DEF EndFinalize, ClearWriters
<1>14. CASE Interrupt
  BY <1>14 DEF Interrupt
<1>15. CASE Teardown
  BY <1>15 DEF Teardown, ClearWriters
<1>16. CASE Crash
  BY <1>16 DEF Crash, RollBackAll
<1>17. CASE UNCHANGED vars
  BY <1>17 DEF vars
<1> QED
  BY <1>1, <1>2, <1>3, <1>4, <1>5, <1>6, <1>7, <1>8, <1>9, <1>10, <1>11, <1>12, <1>13, <1>14, <1>15, <1>16, <1>17
  DEF Next, ThreadStep, FinishStep

(* No step lets two threads hold one session. *)
LEMMA ExclusiveStep == IInv /\ [Next]_vars => WriterIsExclusive'
<1> SUFFICES ASSUME IInv, [Next]_vars PROVE WriterIsExclusive'
  OBVIOUS
<1> USE CopyAssumption DEF IInv, TypeOK, WriterIsExclusive, PoolInv, Opened, work, local, pool
<1>1. ASSUME NEW t \in Threads, NEW b \in todo, query \in {"running", "error"}, PrepareBatch(t, b) PROVE WriterIsExclusive'
  BY <1>1 DEF PrepareBatch
<1>2. ASSUME NEW t \in Threads, NEW s \in idle, query \in {"running", "error"}, TakeIdle(t, s) PROVE WriterIsExclusive'
  BY <1>2 DEF TakeIdle
<1>3. ASSUME NEW t \in Threads, query \in {"running", "error"}, NoneIdle(t) PROVE WriterIsExclusive'
  BY <1>3 DEF NoneIdle
<1>4. ASSUME NEW t \in Threads, NEW s \in Sessions, query \in {"running", "error"}, OpenWriter(t, s) PROVE WriterIsExclusive'
  BY <1>4 DEF OpenWriter
<1>5. ASSUME NEW t \in Threads, query \in {"running", "error"}, OpenWriterFails(t) PROVE WriterIsExclusive'
  BY <1>5 DEF OpenWriterFails, Throw
<1>6. ASSUME NEW t \in Threads, query \in {"running", "error"}, PushWriter(t) PROVE WriterIsExclusive'
  BY <1>6 DEF PushWriter
<1>7. ASSUME NEW t \in Threads, query \in {"running", "error"}, WriteChunk(t) PROVE WriterIsExclusive'
  BY <1>7 DEF WriteChunk
<1>8. ASSUME NEW t \in Threads, query \in {"running", "error"}, WriteChunkFails(t) PROVE WriterIsExclusive'
  BY <1>8 DEF WriteChunkFails, Throw
<1>9. ASSUME NEW t \in Threads, query \in {"running", "error"}, ReleaseWriter(t) PROVE WriterIsExclusive'
  BY <1>9 DEF ReleaseWriter
<1>10. CASE StartFinalize
  BY <1>10 DEF StartFinalize
<1>11. ASSUME NEW s \in Sessions, FinishSession(s) PROVE WriterIsExclusive'
  BY <1>11 DEF FinishSession
<1>12. ASSUME NEW s \in Sessions, FinishSessionFails(s) PROVE WriterIsExclusive'
  BY <1>12 DEF FinishSessionFails
<1>13. CASE EndFinalize
  BY <1>13 DEF EndFinalize, ClearWriters
<1>14. CASE Interrupt
  BY <1>14 DEF Interrupt
<1>15. CASE Teardown
  BY <1>15 DEF Teardown, ClearWriters
<1>16. CASE Crash
  BY <1>16 DEF Crash, RollBackAll
<1>17. CASE UNCHANGED vars
  BY <1>17 DEF vars
<1> QED
  BY <1>1, <1>2, <1>3, <1>4, <1>5, <1>6, <1>7, <1>8, <1>9, <1>10, <1>11, <1>12, <1>13, <1>14, <1>15, <1>16, <1>17
  DEF Next, ThreadStep, FinishStep

(* A batch stays in one place. *)
LEMMA BatchStep == IInv /\ [Next]_vars => BatchInv'
<1> SUFFICES ASSUME IInv, [Next]_vars PROVE BatchInv'
  OBVIOUS
<1> USE CopyAssumption DEF IInv, TypeOK, BatchInv, PoolInv, work, local, pool
<1>1. ASSUME NEW t \in Threads, NEW b \in todo, query \in {"running", "error"}, PrepareBatch(t, b) PROVE BatchInv'
  BY <1>1 DEF PrepareBatch
<1>2. ASSUME NEW t \in Threads, NEW s \in idle, query \in {"running", "error"}, TakeIdle(t, s) PROVE BatchInv'
  BY <1>2 DEF TakeIdle
<1>3. ASSUME NEW t \in Threads, query \in {"running", "error"}, NoneIdle(t) PROVE BatchInv'
  BY <1>3 DEF NoneIdle
<1>4. ASSUME NEW t \in Threads, NEW s \in Sessions, query \in {"running", "error"}, OpenWriter(t, s) PROVE BatchInv'
  BY <1>4 DEF OpenWriter
<1>5. ASSUME NEW t \in Threads, query \in {"running", "error"}, OpenWriterFails(t) PROVE BatchInv'
  BY <1>5 DEF OpenWriterFails, Throw
<1>6. ASSUME NEW t \in Threads, query \in {"running", "error"}, PushWriter(t) PROVE BatchInv'
  BY <1>6 DEF PushWriter
<1>7. ASSUME NEW t \in Threads, query \in {"running", "error"}, WriteChunk(t) PROVE BatchInv'
  BY <1>7 DEF WriteChunk
<1>8. ASSUME NEW t \in Threads, query \in {"running", "error"}, WriteChunkFails(t) PROVE BatchInv'
  BY <1>8 DEF WriteChunkFails, Throw
<1>9. ASSUME NEW t \in Threads, query \in {"running", "error"}, ReleaseWriter(t) PROVE BatchInv'
  BY <1>9 DEF ReleaseWriter
<1>10. CASE StartFinalize
  BY <1>10 DEF StartFinalize
<1>11. ASSUME NEW s \in Sessions, FinishSession(s) PROVE BatchInv'
  BY <1>11 DEF FinishSession
<1>12. ASSUME NEW s \in Sessions, FinishSessionFails(s) PROVE BatchInv'
  BY <1>12 DEF FinishSessionFails
<1>13. CASE EndFinalize
  BY <1>13 DEF EndFinalize, ClearWriters
<1>14. CASE Interrupt
  BY <1>14 DEF Interrupt
<1>15. CASE Teardown
  BY <1>15 DEF Teardown, ClearWriters
<1>16. CASE Crash
  BY <1>16 DEF Crash, RollBackAll
<1>17. CASE UNCHANGED vars
  BY <1>17 DEF vars
<1> QED
  BY <1>1, <1>2, <1>3, <1>4, <1>5, <1>6, <1>7, <1>8, <1>9, <1>10, <1>11, <1>12, <1>13, <1>14, <1>15, <1>16, <1>17
  DEF Next, ThreadStep, FinishStep

(* The sessions follow the phases of the statement. *)
LEMMA PhaseStep == IInv /\ [Next]_vars => PhaseInv'
<1> SUFFICES ASSUME IInv, [Next]_vars PROVE PhaseInv'
  OBVIOUS
<1> USE CopyAssumption DEF IInv, TypeOK, PhaseInv, BatchInv, PoolInv, Ended, Opened, Alive, work, local, pool
<1>1. ASSUME NEW t \in Threads, NEW b \in todo, query \in {"running", "error"}, PrepareBatch(t, b) PROVE PhaseInv'
  BY <1>1 DEF PrepareBatch
<1>2. ASSUME NEW t \in Threads, NEW s \in idle, query \in {"running", "error"}, TakeIdle(t, s) PROVE PhaseInv'
  BY <1>2 DEF TakeIdle
<1>3. ASSUME NEW t \in Threads, query \in {"running", "error"}, NoneIdle(t) PROVE PhaseInv'
  BY <1>3 DEF NoneIdle
<1>4. ASSUME NEW t \in Threads, NEW s \in Sessions, query \in {"running", "error"}, OpenWriter(t, s) PROVE PhaseInv'
  BY <1>4 DEF OpenWriter
<1>5. ASSUME NEW t \in Threads, query \in {"running", "error"}, OpenWriterFails(t) PROVE PhaseInv'
  BY <1>5 DEF OpenWriterFails, Throw
<1>6. ASSUME NEW t \in Threads, query \in {"running", "error"}, PushWriter(t) PROVE PhaseInv'
  BY <1>6 DEF PushWriter
<1>7. ASSUME NEW t \in Threads, query \in {"running", "error"}, WriteChunk(t) PROVE PhaseInv'
  BY <1>7 DEF WriteChunk
<1>8. ASSUME NEW t \in Threads, query \in {"running", "error"}, WriteChunkFails(t) PROVE PhaseInv'
  BY <1>8 DEF WriteChunkFails, Throw
<1>9. ASSUME NEW t \in Threads, query \in {"running", "error"}, ReleaseWriter(t) PROVE PhaseInv'
  BY <1>9 DEF ReleaseWriter
<1>10. CASE StartFinalize
  BY <1>10 DEF StartFinalize
<1>11. ASSUME NEW s \in Sessions, FinishSession(s) PROVE PhaseInv'
  BY <1>11 DEF FinishSession
<1>12. ASSUME NEW s \in Sessions, FinishSessionFails(s) PROVE PhaseInv'
  BY <1>12 DEF FinishSessionFails
<1>13. CASE EndFinalize
  BY <1>13 DEF EndFinalize, ClearWriters
<1>14. CASE Interrupt
  BY <1>14 DEF Interrupt
<1>15. CASE Teardown
  BY <1>15 DEF Teardown, ClearWriters
<1>16. CASE Crash
  BY <1>16 DEF Crash, RollBackAll
<1>17. CASE UNCHANGED vars
  BY <1>17 DEF vars
<1> QED
  BY <1>1, <1>2, <1>3, <1>4, <1>5, <1>6, <1>7, <1>8, <1>9, <1>10, <1>11, <1>12, <1>13, <1>14, <1>15, <1>16, <1>17
  DEF Next, ThreadStep, FinishStep

(* Every session stays where the pool expects it. *)
LEMMA PoolStep == IInv /\ [Next]_vars => PoolInv'
<1> SUFFICES ASSUME IInv, [Next]_vars PROVE PoolInv'
  OBVIOUS
<1> USE CopyAssumption DEF IInv, TypeOK, PoolInv, WriterIsExclusive, Opened, Alive, Ended, work, local, pool
<1>1. ASSUME NEW t \in Threads, NEW b \in todo, query \in {"running", "error"}, PrepareBatch(t, b) PROVE PoolInv'
  BY <1>1 DEF PrepareBatch
<1>2. ASSUME NEW t \in Threads, NEW s \in idle, query \in {"running", "error"}, TakeIdle(t, s) PROVE PoolInv'
  BY <1>2 DEF TakeIdle
<1>3. ASSUME NEW t \in Threads, query \in {"running", "error"}, NoneIdle(t) PROVE PoolInv'
  BY <1>3 DEF NoneIdle
<1>4. ASSUME NEW t \in Threads, NEW s \in Sessions, query \in {"running", "error"}, OpenWriter(t, s) PROVE PoolInv'
  BY <1>4 DEF OpenWriter
<1>5. ASSUME NEW t \in Threads, query \in {"running", "error"}, OpenWriterFails(t) PROVE PoolInv'
  BY <1>5 DEF OpenWriterFails, Throw
<1>6. ASSUME NEW t \in Threads, query \in {"running", "error"}, PushWriter(t) PROVE PoolInv'
  <2>1. /\ writer[t] \in Sessions /\ writer[t] \in Opened /\ writer[t] \notin writers
        /\ writer[t] \notin idle /\ writer[t] \notin spoiled
        /\ \A u \in Threads \ {t} : writer[u] # writer[t]
    BY <1>6 DEF PushWriter
  <2>2. Opened' = Opened
    BY <1>6 DEF PushWriter
  <2>3. \A u \in Threads : pc'[u] = IF u = t THEN "write" ELSE pc[u]
    BY <1>6 DEF PushWriter
  <2> QED BY <1>6, <2>1, <2>2, <2>3 DEF PushWriter
<1>7. ASSUME NEW t \in Threads, query \in {"running", "error"}, WriteChunk(t) PROVE PoolInv'
  BY <1>7 DEF WriteChunk
<1>8. ASSUME NEW t \in Threads, query \in {"running", "error"}, WriteChunkFails(t) PROVE PoolInv'
  BY <1>8 DEF WriteChunkFails, Throw
<1>9. ASSUME NEW t \in Threads, query \in {"running", "error"}, ReleaseWriter(t) PROVE PoolInv'
  BY <1>9 DEF ReleaseWriter
<1>10. CASE StartFinalize
  BY <1>10 DEF StartFinalize
<1>11. ASSUME NEW s \in Sessions, FinishSession(s) PROVE PoolInv'
  <2>1. session[s] # "unopened"
    BY <1>11 DEF FinishSession, PhaseInv
  <2>2. Opened' = Opened
    BY <1>11, <2>1 DEF FinishSession
  <2> QED BY <1>11, <2>2 DEF FinishSession
<1>12. ASSUME NEW s \in Sessions, FinishSessionFails(s) PROVE PoolInv'
  <2>1. session[s] # "unopened"
    BY <1>12 DEF FinishSessionFails, PhaseInv
  <2>2. Opened' = Opened
    BY <1>12, <2>1 DEF FinishSessionFails
  <2> QED BY <1>12, <2>2 DEF FinishSessionFails
<1>13. CASE EndFinalize
  <2>1. \A t \in Threads : pc[t] \notin {"push", "write"}
    BY <1>13 DEF EndFinalize, PhaseInv, BatchInv
  <2>2. Opened' = Opened
    BY <1>13 DEF EndFinalize, ClearWriters
  <2>3. query' \notin {"running", "error", "finalizing"}
    BY <1>13 DEF EndFinalize
  <2> QED BY <1>13, <2>1, <2>2, <2>3 DEF EndFinalize, ClearWriters
<1>14. CASE Interrupt
  BY <1>14 DEF Interrupt
<1>15. CASE Teardown
  BY <1>15 DEF Teardown, ClearWriters
<1>16. CASE Crash
  BY <1>16 DEF Crash, RollBackAll
<1>17. CASE UNCHANGED vars
  BY <1>17 DEF vars
<1> QED
  BY <1>1, <1>2, <1>3, <1>4, <1>5, <1>6, <1>7, <1>8, <1>9, <1>10, <1>11, <1>12, <1>13, <1>14, <1>15, <1>16, <1>17
  DEF Next, ThreadStep, FinishStep

(* Rows stay with the session they were written to. *)
LEMMA RowStep == IInv /\ [Next]_vars => RowInv'
<1> SUFFICES ASSUME IInv, [Next]_vars PROVE RowInv'
  OBVIOUS
<1> USE CopyAssumption DEF IInv, TypeOK, PoolInv, BatchInv, RowInv, WriterIsExclusive, Opened, Row, work, local, pool
<1>1. ASSUME NEW t \in Threads, NEW b \in todo, query \in {"running", "error"}, PrepareBatch(t, b) PROVE RowInv'
  BY <1>1 DEF PrepareBatch
<1>2. ASSUME NEW t \in Threads, NEW s \in idle, query \in {"running", "error"}, TakeIdle(t, s) PROVE RowInv'
  BY <1>2 DEF TakeIdle
<1>3. ASSUME NEW t \in Threads, query \in {"running", "error"}, NoneIdle(t) PROVE RowInv'
  BY <1>3 DEF NoneIdle
<1>4. ASSUME NEW t \in Threads, NEW s \in Sessions, query \in {"running", "error"}, OpenWriter(t, s) PROVE RowInv'
  BY <1>4 DEF OpenWriter
<1>5. ASSUME NEW t \in Threads, query \in {"running", "error"}, OpenWriterFails(t) PROVE RowInv'
  BY <1>5 DEF OpenWriterFails, Throw
<1>6. ASSUME NEW t \in Threads, query \in {"running", "error"}, PushWriter(t) PROVE RowInv'
  BY <1>6 DEF PushWriter
<1>7. ASSUME NEW t \in Threads, query \in {"running", "error"}, WriteChunk(t) PROVE RowInv'
  <2> DEFINE w == writer[t]
             row == <<batch[t], sent[t] + 1>>
  <2>1. /\ w \in writers /\ w \in Sessions /\ w \in Opened /\ batch[t] \in input \ (todo \cup prepared)
        /\ batch[t] # None /\ sent[t] + 1 \in 1 .. Chunks
    BY <1>7 DEF WriteChunk
  <2>2. rows'[w] = rows[w] \cup {row} /\ \A s \in Sessions : s # w => rows'[s] = rows[s]
    BY <1>7, <2>1 DEF WriteChunk
  <2>3. \A u \in Threads : sent'[u] = IF u = t THEN sent[u] + 1 ELSE sent[u]
    BY <1>7 DEF WriteChunk
  <2>4. Opened' = Opened /\ pc' = pc /\ writer' = writer /\ batch' = batch /\ idle' = idle
        /\ input' = input /\ todo' = todo /\ prepared' = prepared
    BY <1>7 DEF WriteChunk
  <2>5. \A s \in Sessions : row \notin rows[s]
    BY <2>1
  <2>6. \A s \in Sessions : \A r \in rows'[s] : s \in Opened' /\ r[1] \in (input \ todo)'
    BY <2>1, <2>2, <2>4
  <2>7. \A u \in Threads, s \in Sessions : \A r \in rows'[s] :
          batch'[u] = r[1] => pc'[u] = "write" /\ s = writer'[u] /\ r[2] <= sent'[u]
    <3> SUFFICES ASSUME NEW u \in Threads, NEW s \in Sessions, NEW r \in rows'[s], batch[u] = r[1]
                 PROVE pc[u] = "write" /\ s = writer[u] /\ r[2] <= sent'[u]
      BY <2>4
    <3>1. CASE r \in rows[s]
      BY <3>1, <2>3
    <3>2. CASE r = row /\ s = w
      BY <3>2, <2>1, <2>3, <1>7 DEF WriteChunk
    <3> QED BY <3>1, <3>2, <2>2
  <2>8. \A u \in Threads : pc'[u] = "write" =>
          \A c \in 1 .. sent'[u] : <<batch'[u], c>> \in rows'[writer'[u]]
    <3> SUFFICES ASSUME NEW u \in Threads, pc[u] = "write", NEW c \in 1 .. sent'[u]
                 PROVE <<batch[u], c>> \in rows'[writer[u]]
      BY <2>4
    <3>1. writer[u] \in Sessions
      OBVIOUS
    <3>2. CASE u = t
      <4>1. sent[t] \in Nat /\ sent'[t] = sent[t] + 1 /\ writer[t] = w /\ pc[t] = "write"
        BY <3>2, <2>1, <2>3
      <4>2. CASE c \in 1 .. sent[t]
        <5>1. <<batch[t], c>> \in rows[w]
          BY <4>1, <4>2
        <5> QED BY <3>2, <4>1, <5>1, <2>2
      <4>3. CASE c = sent[t] + 1
        <5>1. <<batch[t], c>> = row
          BY <4>3
        <5> QED BY <3>2, <4>1, <5>1, <2>2
      <4> QED BY <3>2, <4>1, <4>2, <4>3
    <3>3. CASE u # t
      BY <3>1, <3>3, <2>2, <2>3
    <3> QED BY <3>2, <3>3
  <2>9. \A b \in prepared', c \in 1 .. Chunks : \E s \in Opened' : <<b, c>> \in rows'[s]
    BY <2>2, <2>4
  <2>10. \A s, u \in Sessions : s # u => rows'[s] \cap rows'[u] = {}
    BY <2>2, <2>5
  <2>11. \A s \in idle' : rows'[s] # {}
    BY <2>2, <2>4
  <2> QED BY <2>6, <2>7, <2>8, <2>9, <2>10, <2>11, <2>4
<1>8. ASSUME NEW t \in Threads, query \in {"running", "error"}, WriteChunkFails(t) PROVE RowInv'
  <2> DEFINE w == writer[t]
             row == <<batch[t], sent[t] + 1>>
  <2>1. /\ w \in writers /\ w \in Sessions /\ w \in Opened /\ batch[t] \in input \ (todo \cup prepared)
        /\ batch[t] # None /\ w \notin idle
    BY <1>8 DEF WriteChunkFails
  <2>2. \A s \in Sessions : rows[s] \subseteq rows'[s] /\ rows'[s] \subseteq rows[s] \cup (IF s = w THEN {row} ELSE {})
    BY <1>8, <2>1 DEF WriteChunkFails
  <2>3. \A u \in Threads : /\ pc'[u] = (IF u = t THEN "left" ELSE pc[u])
                             /\ batch'[u] = (IF u = t THEN None ELSE batch[u])
                             /\ sent'[u] = (IF u = t THEN 0 ELSE sent[u])
                             /\ writer'[u] = (IF u = t THEN None ELSE writer[u])
    BY <1>8 DEF WriteChunkFails, Throw
  <2>4. Opened' = Opened /\ idle' = idle /\ input' = input /\ todo' = todo /\ prepared' = prepared
    BY <1>8 DEF WriteChunkFails
  <2>5. \A s \in Sessions : s # w => row \notin rows[s]
    BY <2>1
  <2>6. \A s \in Sessions : \A r \in rows'[s] : s \in Opened' /\ r[1] \in (input \ todo)'
    BY <2>1, <2>2, <2>4
  <2>7. \A u \in Threads, s \in Sessions : \A r \in rows'[s] :
          batch'[u] = r[1] => pc'[u] = "write" /\ s = writer'[u] /\ r[2] <= sent'[u]
    <3> SUFFICES ASSUME NEW u \in Threads, NEW s \in Sessions, NEW r \in rows'[s], batch'[u] = r[1]
                 PROVE pc'[u] = "write" /\ s = writer'[u] /\ r[2] <= sent'[u]
      OBVIOUS
    <3>1. r \in rows[s] \/ r = row
      BY <2>2
    <3>2. r[1] # None
      BY <3>1, <2>1
    <3>3. u # t
      BY <3>2, <2>3
    <3>4. r # row
      BY <3>3, <2>3, <2>1
    <3> QED BY <3>1, <3>3, <3>4, <2>3
  <2>8. \A u \in Threads : pc'[u] = "write" =>
          \A c \in 1 .. sent'[u] : <<batch'[u], c>> \in rows'[writer'[u]]
    BY <2>2, <2>3
  <2>9. \A b \in prepared', c \in 1 .. Chunks : \E s \in Opened' : <<b, c>> \in rows'[s]
    BY <2>2, <2>4
  <2>10. \A s, u \in Sessions : s # u => rows'[s] \cap rows'[u] = {}
    BY <2>2, <2>5
  <2>11. \A s \in idle' : rows'[s] # {}
    BY <2>2, <2>4
  <2> QED BY <2>6, <2>7, <2>8, <2>9, <2>10, <2>11, <2>4
<1>9. ASSUME NEW t \in Threads, query \in {"running", "error"}, ReleaseWriter(t) PROVE RowInv'
  <2> DEFINE w == writer[t]
  <2>1. /\ w \in Sessions /\ w \in Opened /\ batch[t] \in input \ (todo \cup prepared) /\ batch[t] # None
        /\ \A c \in 1 .. Chunks : <<batch[t], c>> \in rows[w]
    BY <1>9 DEF ReleaseWriter
  <2>2. \A u \in Threads : /\ pc'[u] = (IF u = t THEN "ready" ELSE pc[u])
                             /\ batch'[u] = (IF u = t THEN None ELSE batch[u])
                             /\ sent'[u] = (IF u = t THEN 0 ELSE sent[u])
                             /\ writer'[u] = (IF u = t THEN None ELSE writer[u])
    BY <1>9 DEF ReleaseWriter
  <2>3. Opened' = Opened /\ rows' = rows /\ input' = input /\ todo' = todo
        /\ prepared' = prepared \cup {batch[t]} /\ idle' = idle \cup {w}
    BY <1>9 DEF ReleaseWriter
  <2>4. \A u \in Threads, s \in Sessions : \A r \in rows'[s] :
          batch'[u] = r[1] => pc'[u] = "write" /\ s = writer'[u] /\ r[2] <= sent'[u]
    BY <2>1, <2>2, <2>3
  <2>5. \A u \in Threads : pc'[u] = "write" =>
          \A c \in 1 .. sent'[u] : <<batch'[u], c>> \in rows'[writer'[u]]
    BY <2>2, <2>3
  <2>6. \A b \in prepared', c \in 1 .. Chunks : \E s \in Opened' : <<b, c>> \in rows'[s]
    BY <2>1, <2>3
  <2>7. \A s \in idle' : rows'[s] # {}
    <3>1. <<batch[t], 1>> \in rows[w]
      BY <2>1
    <3> QED BY <3>1, <2>3
  <2> QED BY <2>3, <2>4, <2>5, <2>6, <2>7
<1>10. CASE StartFinalize
  BY <1>10 DEF StartFinalize
<1>11. ASSUME NEW s \in Sessions, FinishSession(s) PROVE RowInv'
  BY <1>11 DEF FinishSession
<1>12. ASSUME NEW s \in Sessions, FinishSessionFails(s) PROVE RowInv'
  BY <1>12 DEF FinishSessionFails
<1>13. CASE EndFinalize
  BY <1>13 DEF EndFinalize, ClearWriters
<1>14. CASE Interrupt
  BY <1>14 DEF Interrupt
<1>15. CASE Teardown
  BY <1>15 DEF Teardown, ClearWriters
<1>16. CASE Crash
  BY <1>16 DEF Crash, RollBackAll
<1>17. CASE UNCHANGED vars
  BY <1>17 DEF vars
<1> QED
  BY <1>1, <1>2, <1>3, <1>4, <1>5, <1>6, <1>7, <1>8, <1>9, <1>10, <1>11, <1>12, <1>13, <1>14, <1>15, <1>16, <1>17
  DEF Next, ThreadStep, FinishStep

(* No step before Finalize makes a row visible. *)
LEMMA NothingVisibleStep == IInv /\ [Next]_vars => NothingVisibleBeforeFinalize'
<1> SUFFICES ASSUME IInv, [Next]_vars PROVE NothingVisibleBeforeFinalize'
  OBVIOUS
<1> USE CopyAssumption DEF IInv, TypeOK, PhaseInv, NothingVisibleBeforeFinalize, Visible, work, local, pool
<1>1. ASSUME NEW t \in Threads, NEW b \in todo, query \in {"running", "error"}, PrepareBatch(t, b) PROVE NothingVisibleBeforeFinalize'
  BY <1>1 DEF PrepareBatch
<1>2. ASSUME NEW t \in Threads, NEW s \in idle, query \in {"running", "error"}, TakeIdle(t, s) PROVE NothingVisibleBeforeFinalize'
  BY <1>2 DEF TakeIdle
<1>3. ASSUME NEW t \in Threads, query \in {"running", "error"}, NoneIdle(t) PROVE NothingVisibleBeforeFinalize'
  BY <1>3 DEF NoneIdle
<1>4. ASSUME NEW t \in Threads, NEW s \in Sessions, query \in {"running", "error"}, OpenWriter(t, s) PROVE NothingVisibleBeforeFinalize'
  BY <1>4 DEF OpenWriter
<1>5. ASSUME NEW t \in Threads, query \in {"running", "error"}, OpenWriterFails(t) PROVE NothingVisibleBeforeFinalize'
  BY <1>5 DEF OpenWriterFails, Throw
<1>6. ASSUME NEW t \in Threads, query \in {"running", "error"}, PushWriter(t) PROVE NothingVisibleBeforeFinalize'
  BY <1>6 DEF PushWriter
<1>7. ASSUME NEW t \in Threads, query \in {"running", "error"}, WriteChunk(t) PROVE NothingVisibleBeforeFinalize'
  BY <1>7 DEF WriteChunk
<1>8. ASSUME NEW t \in Threads, query \in {"running", "error"}, WriteChunkFails(t) PROVE NothingVisibleBeforeFinalize'
  BY <1>8 DEF WriteChunkFails, Throw
<1>9. ASSUME NEW t \in Threads, query \in {"running", "error"}, ReleaseWriter(t) PROVE NothingVisibleBeforeFinalize'
  BY <1>9 DEF ReleaseWriter
<1>10. CASE StartFinalize
  BY <1>10 DEF StartFinalize
<1>11. ASSUME NEW s \in Sessions, FinishSession(s) PROVE NothingVisibleBeforeFinalize'
  BY <1>11 DEF FinishSession
<1>12. ASSUME NEW s \in Sessions, FinishSessionFails(s) PROVE NothingVisibleBeforeFinalize'
  BY <1>12 DEF FinishSessionFails
<1>13. CASE EndFinalize
  BY <1>13 DEF EndFinalize, ClearWriters
<1>14. CASE Interrupt
  BY <1>14 DEF Interrupt
<1>15. CASE Teardown
  BY <1>15 DEF Teardown, ClearWriters
<1>16. CASE Crash
  BY <1>16 DEF Crash, RollBackAll
<1>17. CASE UNCHANGED vars
  BY <1>17 DEF vars
<1> QED
  BY <1>1, <1>2, <1>3, <1>4, <1>5, <1>6, <1>7, <1>8, <1>9, <1>10, <1>11, <1>12, <1>13, <1>14, <1>15, <1>16, <1>17
  DEF Next, ThreadStep, FinishStep

(* Once no thread is between opening a session and pushing it, the pool owns *)
(* every session that was opened.                                           *)
LEMMA EveryWriterIsOwned ==
  IInv /\ Alive /\ (\A t \in Threads : pc[t] # "push")
    => \A s \in Sessions : session[s] = "loading" => s \in writers
BY DEF IInv, TypeOK, PoolInv, Opened

(* A step that ends the statement closes every session. *)
LEMMA NoSessionLeftStep == IInv /\ [Next]_vars => NoSessionLeft'
<1> SUFFICES ASSUME IInv, [Next]_vars PROVE NoSessionLeft'
  OBVIOUS
<1> USE CopyAssumption DEF IInv, TypeOK, Ended, NoSessionLeft, work, local, pool
<1>1. ASSUME NEW t \in Threads, NEW b \in todo, query \in {"running", "error"}, PrepareBatch(t, b) PROVE NoSessionLeft'
  BY <1>1 DEF PrepareBatch
<1>2. ASSUME NEW t \in Threads, NEW s \in idle, query \in {"running", "error"}, TakeIdle(t, s) PROVE NoSessionLeft'
  BY <1>2 DEF TakeIdle
<1>3. ASSUME NEW t \in Threads, query \in {"running", "error"}, NoneIdle(t) PROVE NoSessionLeft'
  BY <1>3 DEF NoneIdle
<1>4. ASSUME NEW t \in Threads, NEW s \in Sessions, query \in {"running", "error"}, OpenWriter(t, s) PROVE NoSessionLeft'
  BY <1>4 DEF OpenWriter
<1>5. ASSUME NEW t \in Threads, query \in {"running", "error"}, OpenWriterFails(t) PROVE NoSessionLeft'
  BY <1>5 DEF OpenWriterFails, Throw
<1>6. ASSUME NEW t \in Threads, query \in {"running", "error"}, PushWriter(t) PROVE NoSessionLeft'
  BY <1>6 DEF PushWriter
<1>7. ASSUME NEW t \in Threads, query \in {"running", "error"}, WriteChunk(t) PROVE NoSessionLeft'
  BY <1>7 DEF WriteChunk
<1>8. ASSUME NEW t \in Threads, query \in {"running", "error"}, WriteChunkFails(t) PROVE NoSessionLeft'
  BY <1>8 DEF WriteChunkFails, Throw
<1>9. ASSUME NEW t \in Threads, query \in {"running", "error"}, ReleaseWriter(t) PROVE NoSessionLeft'
  BY <1>9 DEF ReleaseWriter
<1>10. CASE StartFinalize
  BY <1>10 DEF StartFinalize
<1>11. ASSUME NEW s \in Sessions, FinishSession(s) PROVE NoSessionLeft'
  BY <1>11 DEF FinishSession
<1>12. ASSUME NEW s \in Sessions, FinishSessionFails(s) PROVE NoSessionLeft'
  BY <1>12 DEF FinishSessionFails
<1>13. CASE EndFinalize
  <2>1. \A t \in Threads : pc[t] # "push"
    BY <1>13 DEF EndFinalize, PhaseInv, BatchInv
  <2> QED BY <1>13, <2>1, EveryWriterIsOwned DEF EndFinalize, ClearWriters, Alive
<1>14. CASE Interrupt
  BY <1>14 DEF Interrupt
<1>15. CASE Teardown
  <2>1. \A t \in Threads : pc[t] # "push"
    BY <1>15 DEF Teardown
  <2> QED BY <1>15, <2>1, EveryWriterIsOwned DEF Teardown, ClearWriters, Alive
<1>16. CASE Crash
  BY <1>16 DEF Crash, RollBackAll
<1>17. CASE UNCHANGED vars
  BY <1>17 DEF vars
<1> QED
  BY <1>1, <1>2, <1>3, <1>4, <1>5, <1>6, <1>7, <1>8, <1>9, <1>10, <1>11, <1>12, <1>13, <1>14, <1>15, <1>16, <1>17
  DEF Next, ThreadStep, FinishStep

(* Sets of threads and sessions are finite. *)
LEMMA FiniteParts ==
  /\ IsFiniteSet(Opened) /\ IsFiniteSet(Opening) /\ IsFiniteSet(Left)
  /\ Cardinality(Opened) \in Nat /\ Cardinality(Opening) \in Nat /\ Cardinality(Left) \in Nat
<1>1. IsFiniteSet(Opened)
  BY FS_Subset, CopyAssumption DEF Opened
<1>2. IsFiniteSet(Opening) /\ IsFiniteSet(Left)
  BY FS_Subset, CopyAssumption DEF Opening, Left
<1> QED BY <1>1, <1>2, FS_CardinalityType

(* A thread that leaves with an error gives up at most one session. *)
LEMMA SpoiledStep == IInv /\ [Next]_vars => SpoiledInv'
<1> SUFFICES ASSUME IInv, [Next]_vars PROVE SpoiledInv'
  OBVIOUS
<1> USE DEF IInv, SpoiledInv
<1>0. IsFiniteSet(spoiled) /\ Cardinality(spoiled) \in Nat
  BY FS_Subset, FS_CardinalityType, CopyAssumption DEF TypeOK
<1>1. ASSUME NEW t \in Threads, OpenWriterFails(t) \/ WriteChunkFails(t) PROVE SpoiledInv'
  <2>1. t \notin Left /\ Left' = Left \cup {t}
    BY <1>1 DEF Left, OpenWriterFails, WriteChunkFails, Throw, TypeOK
  <2>2. Cardinality(Left') = Cardinality(Left) + 1
    BY <2>1, FiniteParts, FS_AddElement
  <2>3. CASE spoiled' = spoiled
    BY <2>2, <2>3, <1>0, FiniteParts
  <2>4. CASE spoiled' = spoiled \cup {writer[t]}
    <3>1. Cardinality(spoiled') \in {Cardinality(spoiled), Cardinality(spoiled) + 1}
      BY <2>4, <1>0, FS_AddElement
    <3> QED BY <3>1, <2>2, <1>0, FiniteParts
  <2> QED BY <1>1, <2>3, <2>4 DEF OpenWriterFails, WriteChunkFails
<1>2. ASSUME spoiled' = spoiled, Left' = Left PROVE SpoiledInv'
  BY <1>2
<1>3. ASSUME NEW t \in Threads, ThreadStep(t), ~OpenWriterFails(t), ~WriteChunkFails(t)
      PROVE spoiled' = spoiled /\ Left' = Left
  BY <1>3 DEF TypeOK, ThreadStep, PrepareBatch, TakeIdle, NoneIdle, OpenWriter, PushWriter, WriteChunk,
              ReleaseWriter, Left, work, local, pool
<1>4. ASSUME \/ StartFinalize \/ EndFinalize \/ Interrupt \/ Teardown \/ Crash
             \/ \E s \in Sessions : FinishStep(s)
             \/ UNCHANGED vars
      PROVE spoiled' = spoiled /\ Left' = Left
  BY <1>4 DEF StartFinalize, EndFinalize, Interrupt, Teardown, Crash, FinishStep,
              FinishSession, FinishSessionFails, vars, Left, local
<1> QED
  BY <1>1, <1>2, <1>3, <1>4 DEF Next

(* A thread opens a session only when every open one is held by another     *)
(* thread or was given up by a thread that left: counting the threads gives *)
(* the bound.                                                               *)
LEMMA RoomForOneMore ==
  ASSUME IInv, NEW t \in Threads, query \in {"running", "error"}, pc[t] = "acquire", idle = {}
  PROVE  Cardinality(Opened) + Cardinality(Opening) + 1 <= Cardinality(Threads)
<1> DEFINE Holding == {u \in Threads : pc[u] \in {"push", "write"}}
           Held == {writer[u] : u \in Holding}
           f == [u \in Holding |-> writer[u]]
<1>1. IsFiniteSet(Holding) /\ Cardinality(Holding) \in Nat
  BY FS_Subset, FS_CardinalityType, CopyAssumption
<1>2. IsFiniteSet(Held) /\ Cardinality(Held) <= Cardinality(Holding) /\ Cardinality(Held) \in Nat
  <2>1. f \in Surjection(Holding, Held)
    BY DEF Surjection
  <2> QED BY <1>1, <2>1, FS_Surjection, FS_CardinalityType
<1>3. IsFiniteSet(spoiled) /\ Cardinality(spoiled) \in Nat
  BY FS_Subset, FS_CardinalityType, CopyAssumption DEF IInv, TypeOK
<1>4. Opened \subseteq Held \cup spoiled
  BY DEF IInv, PoolInv, Alive, TypeOK
<1>5. Cardinality(Opened) <= Cardinality(Held) + Cardinality(spoiled)
  <2>1. IsFiniteSet(Held \cup spoiled) /\ IsFiniteSet(Held \cap spoiled)
        /\ Cardinality(Held \cup spoiled)
             = Cardinality(Held) + Cardinality(spoiled) - Cardinality(Held \cap spoiled)
    BY <1>2, <1>3, FS_Union, FS_Intersection
  <2>2. Cardinality(Opened) <= Cardinality(Held \cup spoiled)
    BY <1>4, <2>1, FS_Subset
  <2>3. Cardinality(Held \cap spoiled) \in Nat /\ Cardinality(Held \cup spoiled) \in Nat
    BY <2>1, FS_CardinalityType
  <2> QED BY <2>1, <2>2, <2>3, <1>2, <1>3, FiniteParts
<1>6. Cardinality(Holding) + Cardinality(Left) + Cardinality(Opening) + 1 <= Cardinality(Threads)
  <2>1. IsFiniteSet(Holding \cup Left) /\ Holding \cap Left = {}
        /\ Cardinality(Holding \cup Left) = Cardinality(Holding) + Cardinality(Left)
    <3>1. Holding \cap Left = {}
      BY DEF Left
    <3> QED BY <3>1, <1>1, FiniteParts, FS_Union, FS_EmptySet
  <2>2. IsFiniteSet((Holding \cup Left) \cup Opening)
        /\ Cardinality((Holding \cup Left) \cup Opening)
             = Cardinality(Holding \cup Left) + Cardinality(Opening)
    <3>1. (Holding \cup Left) \cap Opening = {}
      BY DEF Left, Opening
    <3>2. Cardinality(Holding \cup Left) \in Nat
      BY <2>1, FS_CardinalityType
    <3>3. IsFiniteSet(Holding \cup Left) /\ IsFiniteSet(Opening) /\ Cardinality(Opening) \in Nat
      BY <2>1, FiniteParts
    <3> DEFINE A == Holding \cup Left
    <3>4. IsFiniteSet(A \cup Opening)
          /\ Cardinality(A \cup Opening) = Cardinality(A) + Cardinality(Opening) - Cardinality(A \cap Opening)
      <4> HIDE DEF A
      <4>1. IsFiniteSet(A) /\ IsFiniteSet(Opening)
        BY <3>3 DEF A
      <4> QED BY <4>1, FS_Union
    <3>5. Cardinality(A \cap Opening) = 0
      BY <3>1, FS_EmptySet
    <3>6. Cardinality(A) \in Nat
      BY <3>2
    <3> HIDE DEF A
    <3>7. IsFiniteSet(A \cup Opening) /\ Cardinality(A \cup Opening) = Cardinality(A) + Cardinality(Opening)
      BY <3>3, <3>4, <3>5, <3>6
    <3> QED BY <3>7 DEF A
  <2> DEFINE Busy == (Holding \cup Left) \cup Opening
  <2>3. t \notin Busy /\ Busy \cup {t} \in SUBSET Threads
    BY DEF Left, Opening
  <2>4. IsFiniteSet(Busy \cup {t}) /\ Cardinality(Busy \cup {t}) = Cardinality(Busy) + 1
    BY <2>2, <2>3, FS_AddElement
  <2>5. Cardinality(Busy \cup {t}) <= Cardinality(Threads)
    BY <2>3, FS_Subset, CopyAssumption
  <2> QED BY <2>1, <2>2, <2>4, <2>5, <1>1, FiniteParts
<1> HIDE DEF Holding, Held
<1>7. Cardinality(Threads) \in Nat
  BY CopyAssumption, FS_CardinalityType
<1> QED BY <1>1, <1>2, <1>3, <1>5, <1>6, <1>7, FiniteParts DEF IInv, SpoiledInv

(* There are never more sessions, those being opened included, than threads. *)
LEMMA BoundStep == IInv /\ [Next]_vars => SessionsWithinThreads'
<1> SUFFICES ASSUME IInv, [Next]_vars PROVE SessionsWithinThreads'
  OBVIOUS
<1> USE DEF SessionsWithinThreads
<1>0. Cardinality(Opened) + Cardinality(Opening) <= Cardinality(Threads) /\ Cardinality(Threads) \in Nat
  BY CopyAssumption, FS_CardinalityType DEF IInv
<1>1. ASSUME NEW t \in Threads, query \in {"running", "error"}, NoneIdle(t) PROVE SessionsWithinThreads'
  <2>1. Opened' = Opened /\ t \notin Opening /\ Opening' = Opening \cup {t}
    BY <1>1 DEF NoneIdle, Opened, Opening, IInv, TypeOK
  <2>2. Cardinality(Opening') = Cardinality(Opening) + 1
    BY <2>1, FiniteParts, FS_AddElement
  <2>3. Cardinality(Opened) + Cardinality(Opening) + 1 <= Cardinality(Threads)
    BY <1>1, RoomForOneMore DEF NoneIdle
  <2> QED BY <2>1, <2>2, <2>3, FiniteParts, <1>0
<1>2. ASSUME NEW t \in Threads, NEW s \in Sessions, OpenWriter(t, s) PROVE SessionsWithinThreads'
  <2>1. /\ s \notin Opened /\ Opened' = Opened \cup {s}
        /\ t \in Opening /\ Opening' = Opening \ {t}
    BY <1>2 DEF OpenWriter, Opened, Opening, IInv, TypeOK
  <2>2. Cardinality(Opened') = Cardinality(Opened) + 1 /\ Cardinality(Opening') = Cardinality(Opening) - 1
    BY <2>1, FiniteParts, FS_AddElement, FS_RemoveElement
  <2> QED BY <2>2, FiniteParts, <1>0
<1>3. ASSUME NEW t \in Threads, OpenWriterFails(t) PROVE SessionsWithinThreads'
  <2>1. Opened' = Opened /\ t \in Opening /\ Opening' = Opening \ {t}
    BY <1>3 DEF OpenWriterFails, Throw, Opened, Opening, IInv, TypeOK
  <2>2. Cardinality(Opening') = Cardinality(Opening) - 1
    BY <2>1, FiniteParts, FS_RemoveElement
  <2> QED BY <2>1, <2>2, FiniteParts, <1>0
<1>4. ASSUME NEW t \in Threads, ThreadStep(t), ~NoneIdle(t), ~(\E s \in Sessions : OpenWriter(t, s)),
             ~OpenWriterFails(t)
      PROVE Opened' = Opened /\ Opening' = Opening
  BY <1>4 DEF ThreadStep, PrepareBatch, TakeIdle, PushWriter, WriteChunk, WriteChunkFails, Throw,
              ReleaseWriter, Opened, Opening, IInv, TypeOK
<1>5. ASSUME \/ StartFinalize \/ EndFinalize \/ Interrupt \/ Teardown \/ Crash
             \/ UNCHANGED vars
      PROVE Opened' = Opened /\ Opening' = Opening
  BY <1>5 DEF StartFinalize, EndFinalize, Interrupt, Teardown, Crash, ClearWriters, RollBackAll,
              vars, local, Opened, Opening, IInv, TypeOK
<1>6. ASSUME NEW s \in Sessions, FinishStep(s)
      PROVE Opened' = Opened /\ Opening' = Opening
  <2>1. session[s] # "unopened"
    BY <1>6 DEF FinishStep, FinishSession, FinishSessionFails, IInv, PhaseInv, TypeOK
  <2> QED BY <1>6, <2>1 DEF FinishStep, FinishSession, FinishSessionFails, local, Opened, Opening, IInv, TypeOK
<1>7. ASSUME Opened' = Opened, Opening' = Opening PROVE SessionsWithinThreads'
  BY <1>7, <1>0
<1> QED
  BY <1>1, <1>2, <1>3, <1>4, <1>5, <1>6, <1>7 DEF Next, ThreadStep


(* What the statement reports when it ends is what the sessions committed. *)
LEMMA ReportStep == IInv /\ [Next]_vars => (LostAck \/ ReportIsTrue)'
<1> SUFFICES ASSUME IInv, [Next]_vars PROVE (LostAck \/ ReportIsTrue)'
  OBVIOUS
<1> USE CopyAssumption DEF IInv, TypeOK, Ended, work, local, pool
<1>1. ASSUME NEW t \in Threads, NEW b \in todo, query \in {"running", "error"}, PrepareBatch(t, b) PROVE (LostAck \/ ReportIsTrue)'
  BY <1>1 DEF PrepareBatch, ReportIsTrue
<1>2. ASSUME NEW t \in Threads, NEW s \in idle, query \in {"running", "error"}, TakeIdle(t, s) PROVE (LostAck \/ ReportIsTrue)'
  BY <1>2 DEF TakeIdle, ReportIsTrue
<1>3. ASSUME NEW t \in Threads, query \in {"running", "error"}, NoneIdle(t) PROVE (LostAck \/ ReportIsTrue)'
  BY <1>3 DEF NoneIdle, ReportIsTrue
<1>4. ASSUME NEW t \in Threads, NEW s \in Sessions, query \in {"running", "error"}, OpenWriter(t, s) PROVE (LostAck \/ ReportIsTrue)'
  BY <1>4 DEF OpenWriter, ReportIsTrue
<1>5. ASSUME NEW t \in Threads, query \in {"running", "error"}, OpenWriterFails(t) PROVE (LostAck \/ ReportIsTrue)'
  BY <1>5 DEF OpenWriterFails, Throw, ReportIsTrue
<1>6. ASSUME NEW t \in Threads, query \in {"running", "error"}, PushWriter(t) PROVE (LostAck \/ ReportIsTrue)'
  BY <1>6 DEF PushWriter, ReportIsTrue
<1>7. ASSUME NEW t \in Threads, query \in {"running", "error"}, WriteChunk(t) PROVE (LostAck \/ ReportIsTrue)'
  BY <1>7 DEF WriteChunk, ReportIsTrue
<1>8. ASSUME NEW t \in Threads, query \in {"running", "error"}, WriteChunkFails(t) PROVE (LostAck \/ ReportIsTrue)'
  BY <1>8 DEF WriteChunkFails, Throw, ReportIsTrue
<1>9. ASSUME NEW t \in Threads, query \in {"running", "error"}, ReleaseWriter(t) PROVE (LostAck \/ ReportIsTrue)'
  BY <1>9 DEF ReleaseWriter, ReportIsTrue
<1>10. CASE StartFinalize
  BY <1>10 DEF StartFinalize, ReportIsTrue
<1>11. ASSUME NEW s \in Sessions, FinishSession(s) PROVE (LostAck \/ ReportIsTrue)'
  BY <1>11 DEF FinishSession, ReportIsTrue
<1>12. ASSUME NEW s \in Sessions, FinishSessionFails(s) PROVE (LostAck \/ ReportIsTrue)'
  BY <1>12 DEF FinishSessionFails, ReportIsTrue
<1>13. CASE EndFinalize
  <2> SUFFICES ASSUME ~LostAck PROVE ReportIsTrue'
    OBVIOUS
  <2> DEFINE Done == {s \in Sessions : session'[s] = "committed"}
  <2>1. /\ spoiled = {} /\ prepared = input
        /\ \A t \in Threads : pc[t] # "write" /\ pc[t] # "push"
    BY <1>13 DEF EndFinalize, PhaseInv, BatchInv
  <2>2. \A s \in writers : s \in Sessions /\ rows[s] # {}
    BY <2>1 DEF PoolInv, RowInv
  <2>3. Opened = writers
    BY <1>13, <2>1 DEF EndFinalize, PoolInv, Alive
  <2>4. Done = writers \ Failed
    BY <1>13 DEF EndFinalize, ClearWriters, PhaseInv, Failed
  <2>5. rows' = rows /\ Source' = Source /\ Visible' = UNION {rows[s] : s \in Done}
    BY <1>13 DEF EndFinalize, Visible, Source
  <2> HIDE DEF Done
  <2>6. \A s \in Sessions : rows[s] \subseteq Source
    BY DEF RowInv, Source, Row
  <2>7. CASE Failed = {}
    <3>1. Source \subseteq Visible'
      <4> SUFFICES ASSUME NEW r \in Source PROVE r \in Visible'
        OBVIOUS
      <4>1. PICK b \in prepared, c \in 1 .. Chunks : r = <<b, c>>
        BY <2>1 DEF Source
      <4>2. PICK s \in Opened : r \in rows[s]
        BY <4>1 DEF RowInv
      <4> QED BY <4>2, <2>3, <2>4, <2>5, <2>7
    <3>2. Visible' \subseteq Source
      BY <2>2, <2>4, <2>5, <2>6
    <3>3. query' = "success"
      BY <1>13, <2>7 DEF EndFinalize
    <3> QED BY <3>1, <3>2, <3>3, <2>5 DEF ReportIsTrue, RowInv
  <2>8. CASE Failed # {} /\ Failed = writers
    <3>1. query' = "nodata"
      BY <1>13, <2>8 DEF EndFinalize
    <3>2. Visible' = {}
      BY <2>4, <2>5, <2>8
    <3> QED BY <3>1, <3>2 DEF ReportIsTrue
  <2>9. CASE Failed # {} /\ Failed # writers
    <3>1. query' = "partial"
      BY <1>13, <2>9 DEF EndFinalize
    <3>2. PICK x \in writers \ Failed : TRUE
      BY <2>9 DEF Failed
    <3>3. Visible' # {}
      BY <3>2, <2>2, <2>4, <2>5
    <3>4. PICK y \in Failed : y \in writers
      BY <2>9 DEF Failed
    <3>5. PICK r \in rows[y] : r \in Source
      BY <3>4, <2>2, <2>6
    <3>6. \A s \in Done : r \notin rows[s]
      BY <3>4, <3>5, <2>2, <2>4 DEF RowInv
    <3>7. r \notin Visible'
      BY <3>6, <2>5
    <3> QED BY <3>1, <3>3, <3>5, <3>7, <2>5 DEF ReportIsTrue
  <2> QED BY <2>7, <2>8, <2>9
<1>14. CASE Interrupt
  BY <1>14 DEF Interrupt, ReportIsTrue
<1>15. CASE Teardown
  <2>1. query' = "failed"
    BY <1>15 DEF Teardown
  <2>2. Visible' = {}
    BY <1>15 DEF Teardown, ClearWriters, PhaseInv, Visible
  <2> QED BY <2>1, <2>2 DEF ReportIsTrue
<1>16. CASE Crash
  BY <1>16 DEF Crash, RollBackAll, ReportIsTrue
<1>17. CASE UNCHANGED vars
  BY <1>17 DEF vars, ReportIsTrue, Visible, Source
<1> QED
  BY <1>1, <1>2, <1>3, <1>4, <1>5, <1>6, <1>7, <1>8, <1>9, <1>10, <1>11, <1>12, <1>13, <1>14, <1>15, <1>16, <1>17
  DEF Next, ThreadStep, FinishStep

(* The statement starts in a state of the invariant. *)
LEMMA InitEstablishesIInv == Init => IInv
<1> SUFFICES ASSUME Init PROVE IInv
  OBVIOUS
<1> USE CopyAssumption DEF Init
<1>1. TypeOK  BY DEF TypeOK, Row, Ended
<1>2. Opened = {} /\ Opening = {} /\ Left = {} /\ Visible = {}
  BY DEF Opened, Opening, Left, Visible
<1>3. SessionsWithinThreads /\ SpoiledInv
  BY <1>2, FS_EmptySet, FS_CardinalityType DEF SessionsWithinThreads, SpoiledInv
<1>4. WriterIsExclusive /\ NothingVisibleBeforeFinalize /\ ReportIsTrue /\ NoSessionLeft
  BY <1>2 DEF WriterIsExclusive, NothingVisibleBeforeFinalize, ReportIsTrue, NoSessionLeft, Ended
<1>5. PoolInv /\ BatchInv /\ RowInv /\ PhaseInv
  BY <1>2 DEF PoolInv, BatchInv, RowInv, PhaseInv
<1> QED BY <1>1, <1>3, <1>4, <1>5 DEF IInv

(* The inductive invariant holds throughout the COPY. *)
THEOREM CopyInvariant == Spec => []IInv
<1>1. IInv /\ [Next]_vars => IInv'
  BY TypeStep, ExclusiveStep, BatchStep, PhaseStep, PoolStep, RowStep, NothingVisibleStep,
     NoSessionLeftStep, SpoiledStep, BoundStep, ReportStep DEF IInv
<1> QED BY InitEstablishesIInv, <1>1, PTL DEF Spec

(* Types, and the pool: a session has one user at a time (Acquire, Release). *)
THEOREM WritersAreExclusive == Spec => [](TypeOK /\ WriterIsExclusive)
<1>1. IInv => TypeOK /\ WriterIsExclusive  BY DEF IInv
<1> QED BY <1>1, CopyInvariant, PTL

(* There are never more sessions, those being opened included, than threads  *)
(* that load: the pool needs no limit of its own.                           *)
THEOREM PoolNeedsNoLimit == Spec => []SessionsWithinThreads
<1>1. IInv => SessionsWithinThreads  BY DEF IInv
<1> QED BY <1>1, CopyInvariant, PTL

(* Nothing is visible before Finalize, and an error before it leaves the    *)
(* table unchanged.                                                         *)
THEOREM NothingIsEarly == Spec => []NothingVisibleBeforeFinalize
<1>1. IInv => NothingVisibleBeforeFinalize  BY DEF IInv
<1> QED BY <1>1, CopyInvariant, PTL

(* No session outlives the COPY with its load open, however it ended.       *)
THEOREM NoLoadIsLeft == Spec => []NoSessionLeft
<1>1. IInv => NoSessionLeft  BY DEF IInv
<1> QED BY <1>1, CopyInvariant, PTL

(* When commit acknowledgements are not lost, the outcome the user is told  *)
(* is what the table holds.                                                 *)
THEOREM ReportsAreTrue == ASSUME ~LostAck PROVE Spec => []ReportIsTrue
<1>1. IInv => ReportIsTrue  BY DEF IInv
<1> QED BY <1>1, CopyInvariant, PTL

(* A session that raised an error is neither written again nor committed:   *)
(* it is not in the pool any more, and the error keeps Finalize away.       *)
THEOREM SpoiledSessionsAreDropped == Spec => SpoiledIsNeverUsed
<1>1. IInv /\ [Next]_vars =>
        [\A s \in spoiled : rows'[s] = rows[s] /\ session'[s] # "committed"]_vars
  <2> DEFINE OK == \A x \in spoiled : rows'[x] = rows[x] /\ session'[x] # "committed"
  <2> SUFFICES ASSUME IInv, Next PROVE OK
    OBVIOUS
  <2> USE DEF IInv, TypeOK, PoolInv, PhaseInv, Ended, local, pool, work
  <2>1. ASSUME NEW t \in Threads, NEW b \in todo, query \in {"running", "error"}, PrepareBatch(t, b) PROVE OK
    BY <2>1 DEF PrepareBatch
  <2>2. ASSUME NEW t \in Threads, NEW s \in idle, query \in {"running", "error"}, TakeIdle(t, s) PROVE OK
    BY <2>2 DEF TakeIdle
  <2>3. ASSUME NEW t \in Threads, query \in {"running", "error"}, NoneIdle(t) PROVE OK
    BY <2>3 DEF NoneIdle
  <2>4. ASSUME NEW t \in Threads, NEW s \in Sessions, query \in {"running", "error"}, OpenWriter(t, s) PROVE OK
    BY <2>4 DEF OpenWriter
  <2>5. ASSUME NEW t \in Threads, query \in {"running", "error"}, OpenWriterFails(t) PROVE OK
    BY <2>5 DEF OpenWriterFails, Throw
  <2>6. ASSUME NEW t \in Threads, query \in {"running", "error"}, PushWriter(t) PROVE OK
    BY <2>6 DEF PushWriter
  <2>7. ASSUME NEW t \in Threads, query \in {"running", "error"}, WriteChunk(t) PROVE OK
    BY <2>7 DEF WriteChunk
  <2>8. ASSUME NEW t \in Threads, query \in {"running", "error"}, WriteChunkFails(t) PROVE OK
    BY <2>8 DEF WriteChunkFails, Throw
  <2>9. ASSUME NEW t \in Threads, query \in {"running", "error"}, ReleaseWriter(t) PROVE OK
    BY <2>9 DEF ReleaseWriter
  <2>10. CASE StartFinalize
    BY <2>10 DEF StartFinalize
  <2>11. ASSUME NEW s \in Sessions, FinishSession(s) PROVE OK
    BY <2>11 DEF FinishSession
  <2>12. ASSUME NEW s \in Sessions, FinishSessionFails(s) PROVE OK
    BY <2>12 DEF FinishSessionFails
  <2>13. CASE EndFinalize
    BY <2>13 DEF EndFinalize, ClearWriters
  <2>14. CASE Interrupt
    BY <2>14 DEF Interrupt
  <2>15. CASE Teardown
    BY <2>15 DEF Teardown, ClearWriters
  <2>16. CASE Crash
    BY <2>16 DEF Crash, RollBackAll
  <2> QED
    BY <2>1, <2>2, <2>3, <2>4, <2>5, <2>6, <2>7, <2>8, <2>9, <2>10, <2>11, <2>12, <2>13, <2>14, <2>15, <2>16
    DEF Next, ThreadStep, FinishStep
<1> QED BY <1>1, CopyInvariant, PTL DEF Spec, SpoiledIsNeverUsed

(* When commit acknowledgements are not lost, every behaviour of the COPY,  *)
(* crashes of the client included, is one its promise allows.               *)
THEOREM CopyImplementsAtomicLoad == ASSUME ~LostAck PROVE Spec => ImplementsAtomicLoad
<1>1. Init => Promise!Init
  BY DEF Init, Promise!Init, Visible
<1>2. IInv /\ [Next]_vars => [Promise!Next]_(Promise!vars)
  <2> SUFFICES ASSUME IInv, [Next]_vars PROVE [Promise!Next]_(Promise!vars)
    OBVIOUS
  <2>0. NothingVisibleBeforeFinalize' /\ ReportIsTrue'
    BY NothingVisibleStep, ReportStep
  <2>1. Source' = Source
    BY DEF Next, ThreadStep, FinishStep, PrepareBatch, TakeIdle, NoneIdle, OpenWriter, OpenWriterFails,
       PushWriter, WriteChunk, WriteChunkFails, ReleaseWriter, StartFinalize, FinishSession,
       FinishSessionFails, EndFinalize, Interrupt, Teardown, Crash, vars, work, Source
  <2>2. CASE \E t \in Threads : ThreadStep(t)
    <3>1. query \in {"running", "error"} /\ query' \in {"running", "error"}
      BY <2>2 DEF ThreadStep, PrepareBatch, TakeIdle, NoneIdle, OpenWriter, OpenWriterFails,
         Throw, PushWriter, WriteChunk, WriteChunkFails, ReleaseWriter
    <3>2. Visible = {} /\ Visible' = {}
      BY <3>1, <2>0 DEF IInv, NothingVisibleBeforeFinalize
    <3> QED BY <3>1, <3>2, <2>1 DEF Promise!vars
  <2>3. CASE Interrupt
    BY <2>3, <2>1 DEF Interrupt, Visible, Promise!vars
  <2>4. CASE StartFinalize
    <3>1. Visible' = Visible
      BY <2>4 DEF StartFinalize, Visible
    <3> QED BY <3>1, <2>4, <2>1 DEF StartFinalize, Promise!Next, Promise!StartCommit
  <2>5. ASSUME NEW s \in Sessions, FinishSession(s) PROVE Promise!Next
    <3>1. rows' = rows /\ query = "finalizing" /\ query' = "finalizing"
          /\ session' = [session EXCEPT ![s] = "committed"]
      BY <2>5 DEF FinishSession
    <3>2. \A x \in Sessions : rows[x] \subseteq Source
      BY DEF IInv, TypeOK, RowInv, Source, Row
    <3>3. Visible \subseteq Visible' /\ Visible' \subseteq Source
      BY <3>1, <3>2 DEF Visible, IInv, TypeOK
    <3> QED BY <3>1, <3>3, <2>1 DEF Promise!Next, Promise!CommitPart
  <2>6. ASSUME NEW s \in Sessions, FinishSessionFails(s) PROVE UNCHANGED Promise!vars
    BY <2>6, <2>1 DEF FinishSessionFails, Visible, Promise!vars
  <2>7. ASSUME ClearWriters \/ RollBackAll, rows' = rows PROVE Visible' = Visible
    <3>1. \A x \in Sessions : session'[x] = "committed" <=> session[x] = "committed"
      BY <2>7 DEF ClearWriters, RollBackAll, IInv, TypeOK
    <3> QED BY <3>1, <2>7 DEF Visible
  <2>8. CASE EndFinalize
    <3>1. Visible' = Visible /\ query = "finalizing" /\ query' \in {"success", "nodata", "partial"}
      BY <2>7, <2>8 DEF EndFinalize
    <3> QED BY <3>1, <2>0, <2>1 DEF ReportIsTrue, Promise!Next, Promise!Succeed, Promise!Fail, Promise!FailPartially
  <2>9. CASE Teardown
    <3>1. Visible' = Visible /\ query = "error" /\ query' = "failed"
      BY <2>7, <2>9 DEF Teardown
    <3> QED BY <3>1, <2>0, <2>1 DEF ReportIsTrue, Promise!Next, Promise!Fail
  <2>10. CASE Crash
    <3>1. Visible' = Visible /\ query \in {"running", "error", "finalizing"} /\ query' = "crashed"
      BY <2>7, <2>10 DEF Crash, IInv, TypeOK
    <3> QED BY <3>1, <2>1 DEF Promise!Next, Promise!Crash
  <2>11. CASE UNCHANGED vars
    BY <2>11 DEF vars, Visible, Source, work, Promise!vars
  <2> QED
    BY <2>2, <2>3, <2>4, <2>5, <2>6, <2>8, <2>9, <2>10, <2>11 DEF Next, FinishStep
<1> QED BY <1>1, <1>2, CopyInvariant, PTL DEF Spec, ImplementsAtomicLoad, Promise!Spec
=============================================================================
