--------------------------- MODULE DirectPathLoader ---------------------------
(***************************************************************************)
(* One direct path session: the class DirectPathLoader, with the OCI calls *)
(* it makes as single steps.  A row is a number: the i-th row given to the *)
(* loader is row i, so rows in a buffer are counts and the order of the    *)
(* rows is the order of the counts.                                        *)
(*                                                                         *)
(* OCI (external) chooses how many rows fit in the stream buffer, whether  *)
(* a row is split over two streams, and which calls fail.                  *)
(***************************************************************************)
EXTENDS Naturals

CONSTANTS
  MaxRows,                     \* bound: rows one session is given in all
  ArrayRows,                   \* rows_: capacity of the column array
  kMaxStreamsWithoutProgress,  \* 4096 in the code
  LostAck                      \* may OCIDirPathFinish commit and still return an error?

ASSUME LoaderAssumption ==
  /\ MaxRows \in Nat
  /\ ArrayRows \in Nat \ {0}
  /\ kMaxStreamsWithoutProgress \in Nat
  /\ LostAck \in BOOLEAN

VARIABLES
  pc,                \* the statement the loader's thread is at
  resume,            \* where LoadStream returns to
  nrows, rowoff, converted, without_progress,           \* locals of ConvertAndLoad
  accumulate_stream,                                    \* LoaderOptions, set once
  stream_pending, rows_in_stream, rows_loaded, done, ctx, \* fields of the class
  handed,            \* rows of the ConvertAndLoad calls that returned
  stream,            \* OCI: complete rows in the stream buffer
  fragment,          \* OCI: the row of which only a part was converted, 0 for none
  received,          \* Oracle: complete rows the session has sent
  oracle             \* Oracle: what became of the session's rows

locals == <<resume, nrows, rowoff, converted, without_progress>>
fields == <<accumulate_stream, stream_pending, rows_in_stream, rows_loaded>>
handle == <<done, ctx>>
oci    == <<stream, fragment, received>>
vars   == <<pc, locals, fields, handle, handed, oci, oracle>>

Init ==
  /\ pc = "new" /\ resume = "ready"
  /\ nrows = 0 /\ rowoff = 0 /\ converted = 0 /\ without_progress = 0
  /\ accumulate_stream \in BOOLEAN
  /\ stream_pending = FALSE /\ rows_in_stream = 0 /\ rows_loaded = 0
  /\ done = FALSE /\ ctx = FALSE
  /\ handed = 0
  /\ stream = 0 /\ fragment = 0 /\ received = 0
  /\ oracle = "none"

-----------------------------------------------------------------------------
(* Release(abort).  OCIDirPathAbort is called only on a context that was    *)
(* not finished.  Its effect on a finished one is outside OCI's contract:   *)
(* here it would drop the rows, so that such a call does not go unnoticed.  *)
(* A commit whose acknowledgement was lost is out of its reach: the         *)
(* connection is gone.                                                      *)
OciAbort == oracle' = IF pc = "failed" /\ oracle = "committed" THEN oracle ELSE "aborted"

Release(abort) ==
  /\ IF abort /\ ctx /\ ~done THEN OciAbort ELSE UNCHANGED oracle
  /\ done' = TRUE
  /\ ctx' = FALSE

(* Constructor: log in and allocate the context, then set its attributes,   *)
(* prepare the load and allocate the column array and the stream.           *)
AllocContext ==
  /\ pc = "new" /\ ~ctx
  /\ ctx' = TRUE
  /\ UNCHANGED <<pc, locals, fields, done, handed, oci, oracle>>

LoginFails ==
  /\ pc = "new" /\ ~ctx
  /\ pc' = "released"
  /\ Release(TRUE)
  /\ UNCHANGED <<locals, fields, handed, oci>>

Prepare ==
  /\ pc = "new" /\ ctx
  /\ pc' = "ready"
  /\ oracle' = "loading"
  /\ UNCHANGED <<locals, fields, handle, handed, oci>>

PrepareFails ==
  /\ pc = "new" /\ ctx
  /\ pc' = "released"
  /\ Release(TRUE)
  /\ UNCHANGED <<locals, fields, handed, oci>>

-----------------------------------------------------------------------------
(* ConvertAndLoad(n): the column array holds n rows. *)
ConvertAndLoad(n) ==
  /\ pc = "ready" /\ ~done
  /\ handed + n <= MaxRows
  /\ pc' = "convert"
  /\ nrows' = n /\ rowoff' = 0 /\ without_progress' = 0
  /\ UNCHANGED <<resume, converted, fields, handle, handed, oci, oracle>>

(* OCIDirPathColArrayToStream returned OCI_SUCCESS: the rest of the rows is *)
(* in the stream.                                                           *)
StreamTakesAll ==
  /\ pc = "convert" /\ rowoff < nrows
  /\ stream' = stream + (nrows - rowoff)
  /\ fragment' = 0
  /\ stream_pending' = TRUE
  /\ rows_in_stream' = rows_in_stream + (nrows - rowoff)
  /\ pc' = "converted"
  /\ UNCHANGED <<locals, accumulate_stream, rows_loaded, handle, handed, received, oracle>>

(* The streams in a row that completed no row, after one more of k rows. *)
MutStreamsWithoutProgress(k) == 0  \* never counts

StreamsWithoutProgress(k) == IF k = 0 THEN without_progress + 1 ELSE 0

(* OCI_CONTINUE: k more rows are complete in the stream, and the next one   *)
(* has a part in it when split.                                             *)
StreamFull(k, split) ==
  /\ pc = "convert" /\ rowoff < nrows
  /\ rowoff + k <= nrows
  /\ split => rowoff + k < nrows
  /\ stream' = stream + k
  /\ fragment' = IF split THEN handed + rowoff + k + 1
                          ELSE IF k > 0 THEN 0 ELSE fragment
  /\ converted' = k
  /\ without_progress' = StreamsWithoutProgress(k)
  /\ IF without_progress' > kMaxStreamsWithoutProgress
       THEN pc' = "failed" /\ UNCHANGED <<resume, stream_pending, rows_in_stream>>
       ELSE /\ pc' = "load" /\ resume' = "convert"
            /\ stream_pending' = TRUE
            /\ rows_in_stream' = rows_in_stream + k
  /\ UNCHANGED <<nrows, rowoff, accumulate_stream, rows_loaded, handle, handed, received, oracle>>

(* Any other status: a value cannot be converted.  The rows before it are   *)
(* in the stream already.                                                   *)
ConversionFails(k) ==
  /\ pc = "convert" /\ rowoff + k < nrows
  /\ stream' = stream + k
  /\ pc' = "failed"
  /\ UNCHANGED <<locals, fields, handle, handed, fragment, received, oracle>>

(* The loop ends because every row was converted. *)
LoopEnds ==
  /\ pc = "convert" /\ rowoff >= nrows
  /\ pc' = "converted"
  /\ UNCHANGED <<locals, fields, handle, handed, oci, oracle>>

(* Return to the caller; the locals die. *)
ConvertReturns ==
  /\ handed' = handed + nrows
  /\ nrows' = 0 /\ rowoff' = 0 /\ converted' = 0 /\ without_progress' = 0

EndOfBatch ==
  /\ pc = "converted"
  /\ IF ~accumulate_stream /\ stream_pending
       THEN /\ pc' = "load" /\ resume' = "ready"
            /\ UNCHANGED <<handed, nrows, rowoff, converted, without_progress>>
       ELSE /\ pc' = "ready" /\ UNCHANGED resume
            /\ ConvertReturns
  /\ UNCHANGED <<fields, handle, oci, oracle>>

-----------------------------------------------------------------------------
(* Where ConvertAndLoad resumes: the first row not yet converted. *)
MutResumeAt == rowoff + converted + 1  \* skips the row that was cut

ResumeAt == rowoff + converted

(* LoadStream, with a pending stream: OCI_SUCCESS, OCI_SUCCESS_WITH_INFO or *)
(* OCI_NEED_DATA, then the reset of the stream.                             *)
LoadStream ==
  /\ pc = "load"
  /\ received' = received + stream
  /\ stream' = 0
  /\ rows_loaded' = rows_loaded + rows_in_stream
  /\ rows_in_stream' = 0
  /\ stream_pending' = FALSE
  /\ pc' = resume
  /\ CASE resume = "convert" ->
            /\ rowoff' = ResumeAt
            /\ UNCHANGED <<nrows, converted, without_progress, handed>>
       [] resume = "ready" -> ConvertReturns
       [] OTHER -> UNCHANGED <<nrows, rowoff, converted, without_progress, handed>>
  /\ UNCHANGED <<resume, accumulate_stream, handle, fragment, oracle>>

LoadStreamRejected ==
  /\ pc = "load"
  /\ pc' = "failed"
  /\ UNCHANGED <<locals, fields, handle, handed, oci, oracle>>

(* The rows went out, but the stream could not be reset: it still counts as *)
(* pending.                                                                 *)
StreamResetFails ==
  /\ pc = "load"
  /\ received' = received + stream
  /\ pc' = "failed"
  /\ UNCHANGED <<locals, fields, handle, handed, stream, fragment, oracle>>

-----------------------------------------------------------------------------
(* Finish: flush the pending stream, then OCIDirPathFinish. *)
MutFinish ==  \* no Flush
  /\ pc = "ready" /\ ~done
  /\ pc' = "finish"
  /\ UNCHANGED <<locals, fields, handle, handed, oci, oracle>>

Finish ==
  /\ pc = "ready" /\ ~done
  /\ IF stream_pending
       THEN pc' = "load" /\ resume' = "finish"
       ELSE pc' = "finish" /\ UNCHANGED resume
  /\ UNCHANGED <<nrows, rowoff, converted, without_progress, fields, handle, handed, oci, oracle>>

MutDirPathFinish ==  \* done_ is not set: the destructor aborts
  /\ pc = "finish"
  /\ oracle' = "committed"
  /\ pc' = "ready"
  /\ UNCHANGED <<locals, fields, handle, handed, oci>>

DirPathFinish ==
  /\ pc = "finish"
  /\ oracle' = "committed"
  /\ done' = TRUE /\ ctx' = FALSE        \* done_ = true; Release(false)
  /\ pc' = "ready"
  /\ UNCHANGED <<locals, fields, handed, oci>>

DirPathFinishFails ==
  /\ pc = "finish"
  /\ pc' = "failed"
  /\ \/ UNCHANGED oracle
     \/ LostAck /\ oracle' = "committed"
  /\ UNCHANGED <<locals, fields, handle, handed, oci>>

(* ~DirectPathLoader, and Abort. *)
Destroy ==
  /\ pc \in {"ready", "failed"}
  /\ Release(TRUE)
  /\ pc' = "released"
  /\ UNCHANGED <<locals, fields, handed, oci>>

Step ==
  \/ AllocContext \/ LoginFails \/ Prepare \/ PrepareFails
  \/ StreamTakesAll
  \/ \E k \in 0 .. ArrayRows, split \in BOOLEAN : StreamFull(k, split)
  \/ \E k \in 0 .. ArrayRows : ConversionFails(k)
  \/ LoopEnds \/ EndOfBatch
  \/ LoadStream \/ LoadStreamRejected \/ StreamResetFails
  \/ Finish \/ DirPathFinish \/ DirPathFinishFails
  \/ Destroy

Call == \E n \in 1 .. ArrayRows : ConvertAndLoad(n)

Next == Call \/ Step

Spec == Init /\ [][Next]_vars

(* The thread that runs the loader keeps running, and C++ always destroys   *)
(* the loader; nothing forces the caller to hand over more rows.            *)
FairSpec == Spec /\ WF_vars(Step)

-----------------------------------------------------------------------------
TypeOK ==
  /\ pc \in {"new", "ready", "convert", "converted", "load", "finish", "failed", "released"}
  /\ resume \in {"convert", "ready", "finish"}
  /\ nrows \in 0 .. ArrayRows /\ rowoff \in 0 .. ArrayRows /\ converted \in 0 .. ArrayRows
  /\ without_progress \in 0 .. kMaxStreamsWithoutProgress + 1
  /\ accumulate_stream \in BOOLEAN
  /\ stream_pending \in BOOLEAN /\ rows_in_stream \in Nat /\ rows_loaded \in Nat
  /\ done \in BOOLEAN /\ ctx \in BOOLEAN
  /\ handed \in 0 .. MaxRows
  /\ stream \in Nat /\ fragment \in Nat /\ received \in Nat
  /\ oracle \in {"none", "loading", "committed", "aborted"}

(* Rows the loader has taken over from its caller so far. *)
Consumed ==
  CASE pc = "convert" -> handed + rowoff
    [] pc = "load" /\ resume = "convert" -> handed + rowoff + converted
    [] pc = "converted" \/ (pc = "load" /\ resume = "ready") -> handed + nrows
    [] OTHER -> handed

Healthy == pc \notin {"failed", "released"}

(* Every row taken over is either with Oracle or in the stream, once, and   *)
(* the counters agree with OCI.                                             *)
RowConservation ==
  Healthy => /\ received + stream = Consumed
             /\ rows_loaded = received
             /\ rows_in_stream = stream
             /\ ~stream_pending => stream = 0

(* The next row to be converted is the one OCI holds a fragment of. *)
FragmentIsNextRow ==
  Healthy /\ fragment # 0 => fragment = Consumed + 1

(* As long as no error was thrown, the resumption at rowoff += converted      *)
(* neither repeats nor skips a row: each row taken over is once with Oracle   *)
(* or in the stream, and a row wider than the stream buffer is continued      *)
(* where it was cut.                                                          *)
RowsAreKept == RowConservation /\ FragmentIsNextRow

(* Where the loader's thread is tells what its state looks like. *)
Control ==
  /\ pc = "convert" => rowoff <= nrows
  /\ pc = "load" => /\ stream_pending
                    /\ resume = "convert" => rowoff + converted <= nrows
  /\ pc \in {"convert", "converted", "load"} => handed + nrows <= MaxRows
  /\ pc \in {"convert", "converted", "load"} /\ fragment # 0 => fragment <= handed + nrows
  /\ pc = "convert" \/ (pc = "load" /\ resume = "convert")
       => without_progress <= kMaxStreamsWithoutProgress
  /\ pc = "finish" => ~stream_pending
  /\ pc = "load" /\ resume = "finish" => nrows = 0
  /\ pc \in {"new", "ready", "finish"} => nrows = 0 /\ fragment = 0

(* How the fields done_ and ctx_ follow what happens in Oracle. *)
HandleMatchesOracle ==
  /\ pc = "new" => oracle = "none" /\ ~done
  /\ pc \in {"convert", "converted", "load", "finish", "failed"} => ~done /\ ctx
  /\ pc \in {"convert", "converted", "load", "finish"} => oracle = "loading"
  /\ pc = "ready" => \/ oracle = "loading" /\ ~done /\ ctx
                     \/ oracle = "committed" /\ done /\ ~ctx
  /\ pc = "failed" => oracle \in {"loading", "committed"}
  /\ pc = "released" => oracle \in {"none", "committed", "aborted"} /\ done /\ ~ctx

(* What OCIDirPathFinish commits: every row of every ConvertAndLoad call    *)
(* that returned, no part of a row, and rows_loaded() tells their number.   *)
CommitIsComplete ==
  oracle = "committed" => /\ received = handed
                          /\ stream = 0 /\ fragment = 0
                          /\ rows_loaded = handed

(* "committed: never abort from now on", and an aborted session never       *)
(* commits either.                                                          *)
OutcomeIsFinal ==
  [][(oracle \in {"committed", "aborted"}) => UNCHANGED oracle]_vars

(* The inductive invariant: all of the above. *)
IInv ==
  /\ TypeOK
  /\ RowConservation /\ FragmentIsNextRow
  /\ Control /\ HandleMatchesOracle
  /\ CommitIsComplete

(* Every session ends, also when a row never fits in the stream: its rows   *)
(* are committed or dropped, never left open.                               *)
SessionEnds == <>[](pc = "released" /\ oracle # "loading" /\ ~ctx)

(* The loader implements the promise of a load session. *)
SessionState ==
  CASE oracle = "committed" -> "committed"
    [] pc = "released" /\ oracle # "committed" -> "aborted"
    [] pc = "failed" /\ oracle # "committed" -> "broken"
    [] OTHER -> "open"

Abstract == INSTANCE LoadSession WITH
  state <- SessionState,
  accepted <- handed,
  visible <- IF oracle = "committed" THEN received ELSE 0

ImplementsLoadSession == Abstract!Spec
=============================================================================
