----------------------------- MODULE LoadSession -----------------------------
(***************************************************************************)
(* What one direct path session promises to the COPY that owns it: it      *)
(* accepts rows, none of them is visible in the table until one atomic     *)
(* commit, and the commit makes visible exactly the rows accepted.  A      *)
(* session that raised an error can only be dropped.                       *)
(*                                                                         *)
(* DirectPathLoader is shown to implement this specification.              *)
(***************************************************************************)
EXTENDS Naturals

VARIABLES
  state,     \* "open", "broken" (an error was thrown), "committed" or "aborted"
  accepted,  \* rows of the ConvertAndLoad calls that returned
  visible    \* rows of this session that other Oracle sessions can see

vars == <<state, accepted, visible>>

TypeOK ==
  /\ state \in {"open", "broken", "committed", "aborted"}
  /\ accepted \in Nat
  /\ visible \in Nat

Init == state = "open" /\ accepted = 0 /\ visible = 0

Accept ==
  /\ state = "open"
  /\ accepted' \in Nat /\ accepted' > accepted
  /\ UNCHANGED <<state, visible>>

Break ==
  /\ state = "open"
  /\ state' = "broken"
  /\ UNCHANGED <<accepted, visible>>

Commit ==
  /\ state = "open"
  /\ state' = "committed"
  /\ visible' = accepted
  /\ UNCHANGED accepted

Abort ==
  /\ state \in {"open", "broken"}
  /\ state' = "aborted"
  /\ UNCHANGED <<accepted, visible>>

Next == Accept \/ Break \/ Commit \/ Abort

Spec == Init /\ [][Next]_vars
=============================================================================
