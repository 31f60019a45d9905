------------------------------- MODULE CopyLoad -------------------------------
(***************************************************************************)
(* COPY ... TO (FORMAT oraduck): several DuckDB threads hand over batches   *)
(* at once, each batch borrows an Oracle session from a pool, and Finalize  *)
(* commits all the sessions in parallel.  A session is the LoadSession that *)
(* DirectPathLoader implements; OpenWriter is its constructor.              *)
(*                                                                         *)
(* A block under OraduckGlobalState::lock is one step.  DuckDB (external)   *)
(* decides which thread gets which batch, may interrupt the query, calls    *)
(* Finalize only when every batch was prepared without error, and destroys  *)
(* the global state only when no thread is left inside PrepareBatch.        *)
(***************************************************************************)
EXTENDS Naturals, FiniteSets

CONSTANTS
  Threads,   \* DuckDB threads that run the sink of the COPY
  Sessions,  \* Oracle sessions that could be opened
  Batches,   \* batches the query could produce
  Chunks,    \* DataChunks in a batch
  None,      \* no session, no batch
  LostAck    \* may a commit happen and its acknowledgement be lost?

ASSUME CopyAssumption ==
  /\ IsFiniteSet(Threads) /\ IsFiniteSet(Sessions)
  /\ Chunks \in Nat \ {0}
  /\ None \notin Sessions /\ None \notin Batches
  /\ LostAck \in BOOLEAN

VARIABLES
  input,     \* the batches of this query
  todo,      \* batches no thread has taken yet
  prepared,  \* batches whose PrepareBatch returned
  pc,        \* per thread: where it is in PrepareBatch
  batch,     \* per thread: its batch
  sent,      \* per thread: chunks of the batch written so far
  writer,    \* per thread: the session it borrowed
  writers, idle,  \* OraduckGlobalState
  session,   \* per session: what became of it in Oracle
  rows,      \* per session: the rows it was given, as <<batch, chunk>>
  spoiled,   \* sessions that raised an error while writing
  finish,    \* per session: the thread of Finalize that finishes it
  query      \* how far the statement is, or how it ended

work  == <<input, todo, prepared>>
local == <<pc, batch, sent, writer>>
pool  == <<writers, idle>>
vars  == <<work, local, pool, session, rows, spoiled, finish, query>>

Row == Batches \X (1 .. Chunks)
Ended == {"success", "failed", "nodata", "partial", "crashed"}

Init ==
  /\ input \in SUBSET Batches /\ todo = input /\ prepared = {}
  /\ pc = [t \in Threads |-> "ready"]
  /\ batch = [t \in Threads |-> None]
  /\ sent = [t \in Threads |-> 0]
  /\ writer = [t \in Threads |-> None]
  /\ writers = {} /\ idle = {}
  /\ session = [s \in Sessions |-> "unopened"]
  /\ rows = [s \in Sessions |-> {}]
  /\ spoiled = {}
  /\ finish = [s \in Sessions |-> "none"]
  /\ query = "running"

-----------------------------------------------------------------------------
(* PrepareBatch. *)

(* DuckDB hands a batch to a thread: it may still do so when another thread *)
(* has failed already.                                                      *)
PrepareBatch(t, b) ==
  /\ query \in {"running", "error"}
  /\ pc[t] = "ready" /\ b \in todo
  /\ todo' = todo \ {b}
  /\ pc' = [pc EXCEPT ![t] = "acquire"]
  /\ batch' = [batch EXCEPT ![t] = b]
  /\ UNCHANGED <<input, prepared, sent, writer, pool, session, rows, spoiled, finish, query>>

(* AcquireWriter, first block under the lock. *)
MutTakeIdle(t, s) ==  \* no pop_back
  /\ pc[t] = "acquire" /\ s \in idle
  /\ writer' = [writer EXCEPT ![t] = s]
  /\ pc' = [pc EXCEPT ![t] = "write"]
  /\ UNCHANGED <<work, batch, sent, pool, session, rows, spoiled, finish, query>>

TakeIdle(t, s) ==
  /\ pc[t] = "acquire" /\ s \in idle
  /\ idle' = idle \ {s}
  /\ writer' = [writer EXCEPT ![t] = s]
  /\ pc' = [pc EXCEPT ![t] = "write"]
  /\ UNCHANGED <<work, batch, sent, writers, session, rows, spoiled, finish, query>>

NoneIdle(t) ==
  /\ pc[t] = "acquire" /\ idle = {}
  /\ pc' = [pc EXCEPT ![t] = "open"]
  /\ UNCHANGED <<work, batch, sent, writer, pool, session, rows, spoiled, finish, query>>

(* OpenWriter runs outside the lock: other threads go on meanwhile. *)
OpenWriter(t, s) ==
  /\ pc[t] = "open" /\ session[s] = "unopened"
  /\ session' = [session EXCEPT ![s] = "loading"]
  /\ writer' = [writer EXCEPT ![t] = s]
  /\ pc' = [pc EXCEPT ![t] = "push"]
  /\ UNCHANGED <<work, batch, sent, pool, rows, spoiled, finish, query>>

(* An exception leaves PrepareBatch: the thread is done with the query, the *)
(* session it held is not given back.                                       *)
Throw(t) ==
  /\ pc' = [pc EXCEPT ![t] = "left"]
  /\ batch' = [batch EXCEPT ![t] = None]
  /\ sent' = [sent EXCEPT ![t] = 0]
  /\ writer' = [writer EXCEPT ![t] = None]
  /\ query' = "error"

OpenWriterFails(t) ==
  /\ pc[t] = "open"
  /\ Throw(t)
  /\ UNCHANGED <<work, pool, session, rows, spoiled, finish>>

(* AcquireWriter, second block under the lock. *)
MutPushWriter(t) ==  \* the writer is used, but the pool does not own it
  /\ pc[t] = "push"
  /\ pc' = [pc EXCEPT ![t] = "write"]
  /\ UNCHANGED <<work, batch, sent, writer, pool, session, rows, spoiled, finish, query>>

PushWriter(t) ==
  /\ pc[t] = "push"
  /\ writers' = writers \cup {writer[t]}
  /\ pc' = [pc EXCEPT ![t] = "write"]
  /\ UNCHANGED <<work, batch, sent, writer, idle, session, rows, spoiled, finish, query>>

WriteChunk(t) ==
  /\ pc[t] = "write" /\ sent[t] < Chunks
  /\ rows' = [rows EXCEPT ![writer[t]] = @ \cup {<<batch[t], sent[t] + 1>>}]
  /\ sent' = [sent EXCEPT ![t] = @ + 1]
  /\ UNCHANGED <<work, pc, batch, writer, pool, session, spoiled, finish, query>>

(* A value is refused by a codec, by OCI or by Oracle; rows before it may   *)
(* have gone out.                                                           *)
MutWriteChunkFails(t) ==  \* the writer is released on error
  /\ pc[t] = "write" /\ sent[t] < Chunks
  /\ spoiled' = spoiled \cup {writer[t]}
  /\ idle' = idle \cup {writer[t]}
  /\ Throw(t)
  /\ UNCHANGED <<work, writers, session, rows, finish>>

WriteChunkFails(t) ==
  /\ pc[t] = "write" /\ sent[t] < Chunks
  /\ spoiled' = spoiled \cup {writer[t]}
  /\ \/ UNCHANGED rows
     \/ rows' = [rows EXCEPT ![writer[t]] = @ \cup {<<batch[t], sent[t] + 1>>}]
  /\ Throw(t)
  /\ UNCHANGED <<work, pool, session, finish>>

MutReleaseWriter(t) ==  \* the writer is not given back
  /\ pc[t] = "write" /\ sent[t] = Chunks
  /\ prepared' = prepared \cup {batch[t]}
  /\ pc' = [pc EXCEPT ![t] = "ready"]
  /\ batch' = [batch EXCEPT ![t] = None]
  /\ sent' = [sent EXCEPT ![t] = 0]
  /\ writer' = [writer EXCEPT ![t] = None]
  /\ UNCHANGED <<input, todo, pool, session, rows, spoiled, finish, query>>

ReleaseWriter(t) ==
  /\ pc[t] = "write" /\ sent[t] = Chunks
  /\ idle' = idle \cup {writer[t]}
  /\ prepared' = prepared \cup {batch[t]}
  /\ pc' = [pc EXCEPT ![t] = "ready"]
  /\ batch' = [batch EXCEPT ![t] = None]
  /\ sent' = [sent EXCEPT ![t] = 0]
  /\ writer' = [writer EXCEPT ![t] = None]
  /\ UNCHANGED <<input, todo, writers, session, rows, spoiled, finish, query>>

-----------------------------------------------------------------------------
(* Finalize: one thread per session. *)
StartFinalize ==
  /\ query = "running" /\ prepared = input
  /\ query' = "finalizing"
  /\ finish' = [s \in Sessions |-> IF s \in writers THEN "running" ELSE "none"]
  /\ UNCHANGED <<work, local, pool, session, rows, spoiled>>

FinishSession(s) ==
  /\ finish[s] = "running" /\ query = "finalizing"
  /\ finish' = [finish EXCEPT ![s] = "ok"]
  /\ session' = [session EXCEPT ![s] = "committed"]
  /\ UNCHANGED <<work, local, pool, rows, spoiled, query>>

FinishSessionFails(s) ==
  /\ finish[s] = "running" /\ query = "finalizing"
  /\ finish' = [finish EXCEPT ![s] = "error"]
  /\ \/ UNCHANGED session
     \/ LostAck /\ session' = [session EXCEPT ![s] = "committed"]
  /\ UNCHANGED <<work, local, pool, rows, spoiled, query>>

(* idle and writers are cleared; the destructor of each writer that the pool  *)
(* owns, and of no other, aborts a session that was not finished.             *)
MutClearWriters ==  \* the destructor finishes instead
  /\ session' = [s \in Sessions |->
       IF s \in writers /\ session[s] = "loading" THEN "committed" ELSE session[s]]
  /\ idle' = {} /\ writers' = {}

ClearWriters ==
  /\ session' = [s \in Sessions |->
       IF s \in writers /\ session[s] = "loading" THEN "aborted" ELSE session[s]]
  /\ idle' = {} /\ writers' = {}

MutFailed == {}  \* an error without text is not counted

Failed == {s \in writers : finish[s] = "error"}

(* Join the threads, clear idle and writers, and report. *)
EndFinalize ==
  /\ query = "finalizing"
  /\ \A s \in writers : finish[s] # "running"
  /\ ClearWriters
  /\ query' = IF Failed = {} THEN "success"
              ELSE IF Failed = writers THEN "nodata" ELSE "partial"
  /\ UNCHANGED <<work, local, rows, spoiled, finish>>

-----------------------------------------------------------------------------
(* The user interrupts the query, or another operator of it fails. *)
Interrupt ==
  /\ query = "running"
  /\ query' = "error"
  /\ UNCHANGED <<work, local, pool, session, rows, spoiled, finish>>

(* The failed query is torn down: ~OraduckGlobalState. *)
MutTeardown ==  \* waits for threads that left with an error
  /\ query = "error"
  /\ \A t \in Threads : pc[t] = "ready"
  /\ ClearWriters
  /\ query' = "failed"
  /\ UNCHANGED <<work, local, rows, spoiled, finish>>

Teardown ==
  /\ query = "error"
  /\ \A t \in Threads : pc[t] \in {"ready", "left"}
  /\ ClearWriters
  /\ query' = "failed"
  /\ UNCHANGED <<work, local, rows, spoiled, finish>>

(* The process dies: Oracle rolls back what was not committed. *)
RollBackAll ==
  session' = [s \in Sessions |-> IF session[s] = "loading" THEN "aborted" ELSE session[s]]

Crash ==
  /\ query \notin Ended
  /\ RollBackAll
  /\ query' = "crashed"
  /\ UNCHANGED <<work, local, pool, rows, spoiled, finish>>

ThreadStep(t) ==
  /\ query \in {"running", "error"}
  /\ \/ \E b \in todo : PrepareBatch(t, b)
     \/ \E s \in idle : TakeIdle(t, s)
     \/ NoneIdle(t)
     \/ \E s \in Sessions : OpenWriter(t, s)
     \/ OpenWriterFails(t)
     \/ PushWriter(t)
     \/ WriteChunk(t) \/ WriteChunkFails(t)
     \/ ReleaseWriter(t)

FinishStep(s) == FinishSession(s) \/ FinishSessionFails(s)

Next ==
  \/ \E t \in Threads : ThreadStep(t)
  \/ StartFinalize
  \/ \E s \in Sessions : FinishStep(s)
  \/ EndFinalize
  \/ Interrupt \/ Teardown \/ Crash

Spec == Init /\ [][Next]_vars

(* Threads are scheduled and OCI calls return; interrupts and crashes need  *)
(* not happen.                                                              *)
Fairness ==
  /\ \A t \in Threads : WF_vars(ThreadStep(t))
  /\ \A s \in Sessions : WF_vars(FinishStep(s))
  /\ WF_vars(StartFinalize) /\ WF_vars(EndFinalize) /\ WF_vars(Teardown)

FairSpec == Spec /\ Fairness

-----------------------------------------------------------------------------
TypeOK ==
  /\ input \subseteq Batches /\ todo \subseteq input /\ prepared \subseteq input
  /\ pc \in [Threads -> {"ready", "acquire", "open", "push", "write", "left"}]
  /\ batch \in [Threads -> Batches \cup {None}]
  /\ sent \in [Threads -> 0 .. Chunks]
  /\ writer \in [Threads -> Sessions \cup {None}]
  /\ writers \subseteq Sessions /\ idle \subseteq Sessions /\ spoiled \subseteq Sessions
  /\ session \in [Sessions -> {"unopened", "loading", "committed", "aborted"}]
  /\ rows \in [Sessions -> SUBSET Row]
  /\ finish \in [Sessions -> {"none", "running", "ok", "error"}]
  /\ query \in {"running", "error", "finalizing"} \cup Ended

Opened  == {s \in Sessions : session[s] # "unopened"}
Opening == {t \in Threads : pc[t] = "open"}
Visible == UNION {rows[s] : s \in {x \in Sessions : session[x] = "committed"}}
Source  == input \X (1 .. Chunks)

(* A session is written by one thread at a time: it is never idle while a   *)
(* thread holds it, and no two threads hold it, although the pool is left   *)
(* unlocked while a new session logs in.                                    *)
WriterIsExclusive ==
  \A t \in Threads : writer[t] # None =>
    /\ writer[t] \notin idle
    /\ \A u \in Threads \ {t} : writer[u] # writer[t]

(* "there are at most as many sessions as threads loading at the same       *)
(* time": a session being opened counts.                                    *)
SessionsWithinThreads ==
  Cardinality(Opened) + Cardinality(Opening) <= Cardinality(Threads)

(* "No data is visible before finalize", and an error before it leaves the  *)
(* table unchanged.                                                         *)
NothingVisibleBeforeFinalize ==
  query \in {"running", "error", "failed"} => Visible = {}

(* What the end of the COPY says is what the table holds: every row, in one *)
(* session only, after a success; none after an error; some but not all     *)
(* after a PARTIAL load.                                                    *)
ReportIsTrue ==
  /\ query = "success" => /\ Visible = Source
                          /\ \A s, u \in Sessions : s # u => rows[s] \cap rows[u] = {}
  /\ query \in {"failed", "nodata"} => Visible = {}
  /\ query = "partial" => Visible # {} /\ Visible # Source

(* "On error the writer is not released": a session that raised an error is *)
(* never written again and never committed.                                 *)
SpoiledIsNeverUsed ==
  [][\A s \in spoiled : rows'[s] = rows[s] /\ session'[s] # "committed"]_vars

(* When the statement is over, no session that a thread ever opened still   *)
(* holds its load open in Oracle: each of them had reached the pool, idle,  *)
(* in use or given up with an error, before the pool was cleared.  (After a *)
(* crash that is Oracle's doing.)                                           *)
NoSessionLeft ==
  query \in Ended \ {"crashed"} => \A s \in Sessions : session[s] # "loading"

(* What the error "commit failed, no data loaded" says. *)
NoDataMeansNone == query = "nodata" => Visible = {}

-----------------------------------------------------------------------------
(* The inductive invariant behind the properties above. *)
Alive == query \in {"running", "error", "finalizing"}
Left  == {t \in Threads : pc[t] = "left"}

(* Every session of the pool is idle, held by the thread that writes it, or *)
(* spoiled; a session that is open and not in the pool is about to be       *)
(* pushed by the thread that opened it.                                     *)
PoolInv ==
  /\ \A t \in Threads : writer[t] # None <=> pc[t] \in {"push", "write"}
  /\ \A t \in Threads : pc[t] = "push" => writer[t] \in Opened \ (writers \cup spoiled)
  /\ \A t \in Threads : pc[t] = "write" => writer[t] \in writers \ spoiled
  /\ idle \subseteq writers \ spoiled
  /\ writers \subseteq Opened /\ spoiled \subseteq Opened
  /\ \A s \in writers : \/ s \in idle \cup spoiled
                        \/ \E t \in Threads : pc[t] = "write" /\ writer[t] = s
  /\ Alive => \A s \in Opened : \/ s \in writers
                                \/ \E t \in Threads : pc[t] = "push" /\ writer[t] = s

(* Each spoiled session was given up by a thread that left with an error. *)
SpoiledInv == Cardinality(spoiled) <= Cardinality(Left)

(* A batch is in one place: not taken, with one thread, prepared or lost    *)
(* with an error.                                                           *)
BatchInv ==
  /\ \A t \in Threads : batch[t] # None <=> pc[t] \in {"acquire", "open", "push", "write"}
  /\ \A t \in Threads : batch[t] # None => batch[t] \in input \ (todo \cup prepared)
  /\ todo \cap prepared = {}
  /\ \A t, u \in Threads : t # u /\ batch[t] # None => batch[t] # batch[u]
  /\ \A t \in Threads : sent[t] > 0 => pc[t] = "write"

(* Where the rows of a batch are. *)
RowInv ==
  /\ \A s \in Sessions : \A r \in rows[s] : s \in Opened /\ r[1] \in input \ todo
  /\ \A t \in Threads, s \in Sessions : \A r \in rows[s] :
       batch[t] = r[1] => pc[t] = "write" /\ s = writer[t] /\ r[2] <= sent[t]
  /\ \A t \in Threads : pc[t] = "write" =>
       \A c \in 1 .. sent[t] : <<batch[t], c>> \in rows[writer[t]]
  /\ \A b \in prepared, c \in 1 .. Chunks : \E s \in Opened : <<b, c>> \in rows[s]
  /\ \A s, u \in Sessions : s # u => rows[s] \cap rows[u] = {}
  /\ \A s \in idle : rows[s] # {}

(* How the phases of the statement show in the sessions. *)
PhaseInv ==
  /\ spoiled # {} => query \in {"error", "failed", "crashed"}
  /\ query \in {"running", "error"} =>
       \A s \in Sessions : session[s] \in {"unopened", "loading"} /\ finish[s] = "none"
  /\ query = "finalizing" =>
       /\ prepared = input
       /\ \A s \in Sessions \ writers : session[s] = "unopened" /\ finish[s] = "none"
       /\ \A s \in writers :
            /\ finish[s] = "ok" => session[s] = "committed"
            /\ finish[s] = "running" => session[s] = "loading"
            /\ finish[s] = "error" => session[s] = "loading" \/ (LostAck /\ session[s] = "committed")
            /\ finish[s] # "none"

IInv ==
  /\ TypeOK
  /\ WriterIsExclusive /\ SessionsWithinThreads
  /\ NothingVisibleBeforeFinalize /\ (LostAck \/ ReportIsTrue) /\ NoSessionLeft
  /\ PoolInv /\ SpoiledInv /\ BatchInv /\ RowInv /\ PhaseInv

(* The COPY ends. *)
CopyEnds == <>(query \in Ended)

(* The COPY implements its abstract promise. *)
Promise == INSTANCE AtomicLoad WITH
  source <- Source,
  visible <- Visible,
  phase <- CASE query \in {"running", "error"} -> "loading"
             [] query = "finalizing" -> "committing"
             [] query = "nodata" -> "failed"
             [] OTHER -> query

ImplementsAtomicLoad == Promise!Spec
=============================================================================
