----------------------- MODULE DirectPathLoaderProofs -----------------------
(***************************************************************************)
(* For every capacity of the column array, every number of rows and every  *)
(* choice OCI makes: a session commits exactly the rows it was given, and  *)
(* DirectPathLoader implements LoadSession.                                *)
(***************************************************************************)
EXTENDS DirectPathLoader, TLAPS

(* The types of the constants, from the assumption of DirectPathLoader. *)
LEMMA Constants ==
  /\ MaxRows \in Nat /\ ArrayRows \in Nat /\ ArrayRows > 0
  /\ kMaxStreamsWithoutProgress \in Nat
BY LoaderAssumption

(* The constructor starts in a state of the invariant. *)
LEMMA InitEstablishesIInv == Init => IInv
<1> SUFFICES ASSUME Init PROVE IInv
  OBVIOUS
<1> USE Constants DEF Init
<1>1. TypeOK
  <2>1. 0 \in 0 .. ArrayRows /\ 0 \in 0 .. MaxRows /\ 0 \in Nat
        /\ 0 \in 0 .. kMaxStreamsWithoutProgress + 1
    OBVIOUS
  <2> QED BY <2>1, Zenon DEF TypeOK
<1>2. RowConservation     BY DEF RowConservation, Consumed
<1>3. FragmentIsNextRow   BY DEF FragmentIsNextRow
<1>4. Control             BY DEF Control
<1>5. HandleMatchesOracle BY DEF HandleMatchesOracle
<1>6. CommitIsComplete    BY DEF CommitIsComplete
<1> QED BY <1>1, <1>2, <1>3, <1>4, <1>5, <1>6 DEF IInv

(* Every step of the loader, of OCI or of its caller keeps the invariant:   *)
(* the control part fixes where rows may be, the conservation part counts   *)
(* them.                                                                    *)
LEMMA StepKeepsIInv == IInv /\ [Next]_vars => IInv'
<1> SUFFICES ASSUME IInv, [Next]_vars PROVE IInv'
  OBVIOUS
<1> USE Constants DEF IInv, TypeOK, RowConservation, FragmentIsNextRow, Control,
        HandleMatchesOracle, CommitIsComplete, Consumed, Healthy,
        locals, fields, handle, oci
<1>1. CASE AllocContext   BY <1>1 DEF AllocContext
<1>2. CASE LoginFails     BY <1>2 DEF LoginFails, Release, OciAbort
<1>3. CASE Prepare        BY <1>3 DEF Prepare
<1>4. CASE PrepareFails   BY <1>4 DEF PrepareFails, Release, OciAbort
<1>5. ASSUME NEW n \in 1 .. ArrayRows, ConvertAndLoad(n) PROVE IInv'
  BY <1>5 DEF ConvertAndLoad
<1>6. CASE StreamTakesAll BY <1>6 DEF StreamTakesAll
<1>7. ASSUME NEW k \in 0 .. ArrayRows, NEW split \in BOOLEAN, StreamFull(k, split) PROVE IInv'
  <2> USE <1>7 DEF StreamFull, StreamsWithoutProgress
  <2>1. TypeOK'
    <3>1. without_progress' \in 0 .. kMaxStreamsWithoutProgress + 1
      OBVIOUS
    <3>2. fragment' \in Nat
      OBVIOUS
    <3>3. rows_in_stream' \in Nat /\ stream' \in Nat /\ converted' \in 0 .. ArrayRows
      OBVIOUS
    <3>4. stream_pending' \in BOOLEAN /\ pc' \in {"load", "failed"}
          /\ resume' \in {"convert", "ready", "finish"}
      OBVIOUS
    <3> QED BY <3>1, <3>2, <3>3, <3>4
  <2>2. RowConservation'     OBVIOUS
  <2>3. FragmentIsNextRow'   OBVIOUS
  <2>4. Control'             OBVIOUS
  <2>5. HandleMatchesOracle' OBVIOUS
  <2>6. CommitIsComplete'    OBVIOUS
  <2> QED BY <2>1, <2>2, <2>3, <2>4, <2>5, <2>6
<1>8. ASSUME NEW k \in 0 .. ArrayRows, ConversionFails(k) PROVE IInv'
  BY <1>8 DEF ConversionFails
<1>9. CASE LoopEnds       BY <1>9 DEF LoopEnds
<1>10. CASE EndOfBatch    BY <1>10 DEF EndOfBatch, ConvertReturns
<1>11. CASE LoadStream    
  <2> USE <1>11 DEF LoadStream, ResumeAt, ConvertReturns
  <2>1. TypeOK'
    <3>1. handed' \in 0 .. MaxRows
      OBVIOUS
    <3>2. nrows' \in 0 .. ArrayRows /\ rowoff' \in 0 .. ArrayRows /\ converted' \in 0 .. ArrayRows
      OBVIOUS
    <3>3. without_progress' \in 0 .. kMaxStreamsWithoutProgress + 1
      OBVIOUS
    <3>4. received' \in Nat /\ stream' \in Nat /\ rows_loaded' \in Nat /\ rows_in_stream' \in Nat
      OBVIOUS
    <3> QED BY <3>1, <3>2, <3>3, <3>4
  <2>2. RowConservation'     OBVIOUS
  <2>3. FragmentIsNextRow'   OBVIOUS
  <2>4. Control'             OBVIOUS
  <2>5. HandleMatchesOracle' OBVIOUS
  <2>6. CommitIsComplete'    OBVIOUS
  <2> QED BY <2>1, <2>2, <2>3, <2>4, <2>5, <2>6
<1>12. CASE LoadStreamRejected BY <1>12 DEF LoadStreamRejected
<1>13. CASE StreamResetFails   BY <1>13 DEF StreamResetFails
<1>14. CASE Finish        BY <1>14 DEF Finish
<1>15. CASE DirPathFinish 
  <2> USE <1>15 DEF DirPathFinish
  <2>1. TypeOK'              OBVIOUS
  <2>2. RowConservation'     OBVIOUS
  <2>3. FragmentIsNextRow'   OBVIOUS
  <2>4. Control'             OBVIOUS
  <2>5. HandleMatchesOracle' OBVIOUS
  <2>6. CommitIsComplete'    OBVIOUS
  <2> QED BY <2>1, <2>2, <2>3, <2>4, <2>5, <2>6
<1>16. CASE DirPathFinishFails BY <1>16 DEF DirPathFinishFails
<1>17. CASE Destroy       BY <1>17 DEF Destroy, Release, OciAbort
<1>18. CASE UNCHANGED vars BY <1>18 DEF vars
<1> QED
  BY <1>1, <1>2, <1>3, <1>4, <1>5, <1>6, <1>7, <1>8, <1>9, <1>10, <1>11, <1>12, <1>13,
     <1>14, <1>15, <1>16, <1>17, <1>18 DEF Next, Call, Step

(* The inductive invariant holds in every state of the loader. *)
THEOREM LoaderInvariant == Spec => []IInv
BY InitEstablishesIInv, StepKeepsIInv, PTL DEF Spec

(* The loader keeps its types. *)
THEOREM LoaderTypes == Spec => []TypeOK
<1>1. IInv => TypeOK  BY DEF IInv
<1> QED BY <1>1, LoaderInvariant, PTL

(* No row is lost, sent twice or taken for another between the column       *)
(* array, the stream and Oracle, whatever OCI does with the stream buffer.  *)
THEOREM RowsAreConserved == Spec => []RowsAreKept
<1>1. IInv => RowsAreKept  BY DEF IInv, RowsAreKept
<1> QED BY <1>1, LoaderInvariant, PTL

(* A commit covers every row given to the session and nothing else, and     *)
(* rows_loaded() is their number.                                           *)
THEOREM CommitsAreComplete == Spec => []CommitIsComplete
<1>1. IInv => CommitIsComplete  BY DEF IInv
<1> QED BY <1>1, LoaderInvariant, PTL

(* Once Oracle has committed or aborted the session's rows no later call,   *)
(* the destructor's included, changes it.                                   *)
THEOREM OutcomesAreFinal == Spec => OutcomeIsFinal
<1>1. IInv /\ [Next]_vars => [(oracle \in {"committed", "aborted"}) => UNCHANGED oracle]_vars
  <2> SUFFICES ASSUME IInv, Next, oracle \in {"committed", "aborted"}
               PROVE UNCHANGED oracle
    OBVIOUS
  <2>1. pc \in {"ready", "failed", "released"} /\ (pc = "ready" => done)
        /\ (pc = "failed" => oracle = "committed") /\ ~(pc = "new")
    BY DEF IInv, HandleMatchesOracle, TypeOK
  <2> QED
    BY <2>1 DEF Next, Call, Step, AllocContext, LoginFails, Prepare, PrepareFails, ConvertAndLoad,
      StreamTakesAll, StreamFull, ConversionFails, LoopEnds, EndOfBatch, LoadStream,
      LoadStreamRejected, StreamResetFails, Finish, DirPathFinish, DirPathFinishFails,
      Destroy, Release, OciAbort
<1> QED BY <1>1, LoaderInvariant, PTL DEF Spec, OutcomeIsFinal

(* Every behaviour of the loader is one of LoadSession: rows are accepted   *)
(* while the session is open, become visible in one step, and a session     *)
(* that raised an error is only dropped.                                    *)
THEOREM LoaderImplementsLoadSession == Spec => ImplementsLoadSession
<1>1. Init => Abstract!Init
  BY DEF Init, Abstract!Init, SessionState
<1>2. IInv /\ [Next]_vars => [Abstract!Next]_(Abstract!vars)
  <2> SUFFICES ASSUME IInv, [Next]_vars PROVE [Abstract!Next]_(Abstract!vars)
    OBVIOUS
  <2> USE Constants DEF IInv, TypeOK, RowConservation, Control, HandleMatchesOracle,
        CommitIsComplete, Consumed, Healthy, locals, fields, handle, oci, SessionState,
        Abstract!vars
  <2>1. CASE AllocContext   BY <2>1 DEF AllocContext
  <2>2. CASE LoginFails     BY <2>2 DEF LoginFails, Release, OciAbort, Abstract!Next, Abstract!Abort
  <2>3. CASE Prepare        BY <2>3 DEF Prepare
  <2>4. CASE PrepareFails   BY <2>4 DEF PrepareFails, Release, OciAbort, Abstract!Next, Abstract!Abort
  <2>5. ASSUME NEW n \in 1 .. ArrayRows, ConvertAndLoad(n) PROVE UNCHANGED Abstract!vars
    BY <2>5 DEF ConvertAndLoad
  <2>6. CASE StreamTakesAll BY <2>6 DEF StreamTakesAll
  <2>7. ASSUME NEW k \in 0 .. ArrayRows, NEW split \in BOOLEAN, StreamFull(k, split)
        PROVE [Abstract!Next]_(Abstract!vars)
    BY <2>7 DEF StreamFull, StreamsWithoutProgress, Abstract!Next, Abstract!Break
  <2>8. ASSUME NEW k \in 0 .. ArrayRows, ConversionFails(k)
        PROVE [Abstract!Next]_(Abstract!vars)
    BY <2>8 DEF ConversionFails, Abstract!Next, Abstract!Break
  <2>9. CASE LoopEnds       BY <2>9 DEF LoopEnds
  <2>10. CASE EndOfBatch
    BY <2>10 DEF EndOfBatch, ConvertReturns, Abstract!Next, Abstract!Accept
  <2>11. CASE LoadStream
    BY <2>11 DEF LoadStream, ResumeAt, ConvertReturns, Abstract!Next, Abstract!Accept
  <2>12. CASE LoadStreamRejected
    BY <2>12 DEF LoadStreamRejected, Abstract!Next, Abstract!Break
  <2>13. CASE StreamResetFails
    BY <2>13 DEF StreamResetFails, Abstract!Next, Abstract!Break
  <2>14. CASE Finish        BY <2>14 DEF Finish
  <2>15. CASE DirPathFinish BY <2>15 DEF DirPathFinish, Abstract!Next, Abstract!Commit
  <2>16. CASE DirPathFinishFails
    BY <2>16 DEF DirPathFinishFails, Abstract!Next, Abstract!Break, Abstract!Commit
  <2>17. CASE Destroy
    BY <2>17 DEF Destroy, Release, OciAbort, Abstract!Next, Abstract!Abort
  <2>18. CASE UNCHANGED vars BY <2>18 DEF vars
  <2> QED
    BY <2>1, <2>2, <2>3, <2>4, <2>5, <2>6, <2>7, <2>8, <2>9, <2>10, <2>11, <2>12, <2>13,
       <2>14, <2>15, <2>16, <2>17, <2>18 DEF Next, Call, Step
<1> QED BY <1>1, <1>2, LoaderInvariant, PTL DEF Spec, ImplementsLoadSession, Abstract!Spec
=============================================================================
