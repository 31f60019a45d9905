----------------------------- MODULE ColumnNames -----------------------------
(***************************************************************************)
(* The names of columns between Oracle, which tells "ID" from "id", and     *)
(* DuckDB, which does not: the names a scan shows (DuckColumnNames), and    *)
(* the columns of the target that COPY finds for them (BuildColumnPlan).    *)
(*                                                                         *)
(* A name is <<word, form, suffix>>: a word in one of its forms (the same   *)
(* letters in another case) and the numbers appended to it, <<1>> for _1.   *)
(***************************************************************************)
EXTENDS Naturals, Sequences, FiniteSets, Functions

Lower(name) == <<name[1], name[3]>>
Names(columns) == {columns[i].name : i \in DOMAIN columns}
LowerNames(columns) == {Lower(name) : name \in Names(columns)}

(* The first of name_1, name_2, ... that is free. *)
Generated(name, avoid) ==
  LET With(k) == <<name[1], name[2], Append(name[3], k)>>
      Free(k) == Lower(With(k)) \notin avoid
  IN With(CHOOSE k \in 1 .. Cardinality(avoid) + 1 : Free(k) /\ \A j \in 1 .. k - 1 : ~Free(j))

(* What a generated name avoids: every Oracle name and every name given.      *)
MutAvoided(columns, given) == given  \* names of later columns are not avoided

Avoided(columns, given) == LowerNames(columns) \cup given

(* The name of the next column, after the names given to those before it. *)
NameOf(name, columns, before) ==
  LET given == {Lower(before[j]) : j \in DOMAIN before}
  IN IF Lower(name) \notin given THEN name ELSE Generated(name, Avoided(columns, given))

(* The Oracle names, deduplicated in column order up to case. *)
DuckColumnNames(columns) ==
  LET names[i \in 0 .. Len(columns)] ==
        IF i = 0 THEN <<>> ELSE Append(names[i - 1], NameOf(columns[i].name, columns, names[i - 1]))
  IN names[Len(columns)]

-----------------------------------------------------------------------------
NoColumn == 0
NoPlan   == <<NoColumn>>

(* The column of exactly this name, else the only one up to case. *)
MatchColumn(name, columns) ==
  LET exact       == {i \in DOMAIN columns : columns[i].name = name}
      insensitive == {i \in DOMAIN columns : Lower(columns[i].name) = Lower(name)}
  IN CASE exact # {} -> CHOOSE i \in exact : TRUE
       [] exact = {} /\ Cardinality(insensitive) = 1 -> CHOOSE i \in insensitive : TRUE
       [] OTHER -> NoColumn

(* NOT NULL columns of the target that the query does not have. *)
MutMissing(plan, columns) == {}  \* not looked for

Missing(plan, columns) == {i \in DOMAIN columns : ~columns[i].nullable} \ {plan[j] : j \in DOMAIN plan}

(* Per query column, its column of the target; each fits its family. *)
BuildColumnPlan(names, types, columns) ==
  LET plan == [i \in DOMAIN names |-> MatchColumn(names[i], columns)]
  IN IF /\ \A i \in DOMAIN plan : plan[i] # NoColumn /\ columns[plan[i]].family = types[i]
        /\ IsInjective(plan)
        /\ Missing(plan, columns) = {}
     THEN plan ELSE NoPlan
=============================================================================
