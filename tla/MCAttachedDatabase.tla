-------------------------- MODULE MCAttachedDatabase --------------------------
(* Instances of AttachedDatabase for TLC: the default schema APP and the user *)
(* HR, a table name in both cases, and dictionaries that lead a               *)
(* lookup each way: to a table, to the exact name before the upper-cased one, *)
(* through a public synonym, around a circle of synonyms, to a database link, *)
(* and past a table in the recycle bin.                                       *)
EXTENDS AttachedDatabase, TLC

CONSTANTS app, hr, emp

APP == <<app, TRUE>>
HR  == <<hr, TRUE>>
EMP == <<emp, TRUE>>
lower == <<emp, FALSE>>

MCOwners == {APP, HR, <<hr, FALSE>>}
MCNames  == {EMP, lower}
MCRequests == {<<APP, lower>>, <<<<hr, FALSE>>, EMP>>}

Is(kind) == [kind |-> kind, version |-> 0, to |-> Absent]
To(owner) == [kind |-> "synonym", version |-> 0, to |-> <<owner, EMP>>]

Only(objects) == objects @@ [o \in Cells |-> Absent]

MCDictionaries == {Only(d) : d \in {
  <<APP, EMP>> :> Is("table") @@ <<APP, lower>> :> Is("view"),
  <<HR, EMP>> :> Is("table") @@ <<Public, EMP>> :> To(HR) @@ <<HR, lower>> :> Is("recycled"),
  <<APP, EMP>> :> To(HR) @@ <<HR, EMP>> :> To(APP),
  <<APP, EMP>> :> Is("table") @@ <<HR, EMP>> :> Is("link") }}

MCCreatable == {[kind |-> "table", to |-> Absent], [kind |-> "synonym", to |-> <<HR, EMP>>]}
=============================================================================
