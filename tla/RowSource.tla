------------------------------- MODULE RowSource -------------------------------
(***************************************************************************)
(* What a scan promises the query above it: it hands over rows of the      *)
(* table, each at most once, in any order, and says it is complete only    *)
(* when every row was handed over.  It may instead end early: on an error, *)
(* an interrupt, or because the query needs no more rows.                  *)
(***************************************************************************)
EXTENDS Naturals

VARIABLES
  table,      \* the rows to read
  delivered,  \* the rows handed over
  state       \* "open", "complete" or "abandoned"

vars == <<table, delivered, state>>

Init == delivered = {} /\ state = "open"

Deliver ==
  /\ state = "open"
  /\ delivered' \subseteq table
  /\ delivered \subseteq delivered' /\ delivered # delivered'
  /\ UNCHANGED <<table, state>>

Complete ==
  /\ state = "open" /\ delivered = table
  /\ state' = "complete"
  /\ UNCHANGED <<table, delivered>>

Abandon ==
  /\ state = "open"
  /\ state' = "abandoned"
  /\ UNCHANGED <<table, delivered>>

Next == Deliver \/ Complete \/ Abandon

Spec == Init /\ [][Next]_vars
=============================================================================
