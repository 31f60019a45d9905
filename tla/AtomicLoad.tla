------------------------------ MODULE AtomicLoad ------------------------------
(***************************************************************************)
(* What COPY ... TO (FORMAT oraduck) promises its user: no row is visible   *)
(* before the final commit, and the way the statement ends tells what is in *)
(* the table: every row after a success, no row after an error, something   *)
(* in between only when the error says PARTIAL or the client process died   *)
(* while it was committing.                                                *)
(***************************************************************************)
EXTENDS Naturals

VARIABLES
  source,   \* the rows of the query
  visible,  \* the rows other Oracle sessions see
  phase     \* "loading", "committing", or how the statement ended

vars == <<source, visible, phase>>

Init == visible = {} /\ phase = "loading"

StartCommit ==
  /\ phase = "loading"
  /\ phase' = "committing"
  /\ UNCHANGED <<source, visible>>

CommitPart ==
  /\ phase = "committing"
  /\ visible' \subseteq source
  /\ visible \subseteq visible'
  /\ UNCHANGED <<source, phase>>

Succeed ==
  /\ phase = "committing" /\ visible = source
  /\ phase' = "success"
  /\ UNCHANGED <<source, visible>>

Fail ==
  /\ phase \in {"loading", "committing"} /\ visible = {}
  /\ phase' = "failed"
  /\ UNCHANGED <<source, visible>>

FailPartially ==
  /\ phase = "committing" /\ visible # {} /\ visible # source
  /\ phase' = "partial"
  /\ UNCHANGED <<source, visible>>

Crash ==
  /\ phase \in {"loading", "committing"}
  /\ phase' = "crashed"
  /\ UNCHANGED <<source, visible>>

Next == StartCommit \/ CommitPart \/ Succeed \/ Fail \/ FailPartially \/ Crash

Spec == Init /\ [][Next]_vars
=============================================================================
