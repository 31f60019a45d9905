--------------------------- MODULE SourceDescription ---------------------------
(***************************************************************************)
(* DescribeSource and DescribeSchema: what Oracle's dictionary says of one  *)
(* name, through synonyms, or of all tables and views of a user.  Each is a *)
(* sequence of queries, each query sees the dictionary of its own moment,   *)
(* and other sessions create, replace and drop objects between two queries. *)
(*                                                                         *)
(* An object is [kind, version, to]: its kind, the change that made it, and *)
(* the object a synonym stands for.  A "link" is a synonym over a database  *)
(* link, "recycled" a table in the recycle bin.                             *)
(***************************************************************************)
EXTENDS Naturals, FiniteSets

CONSTANTS
  Threads,          \* DuckDB connections
  Owners, Public,   \* users that may own objects, and the owner of public synonyms
  CurrentSchema,    \* the schema of an unqualified name
  Names,            \* names of objects: a word and whether it is in upper case
  Absent,           \* no object, no entry, no answer
  Creatable,        \* the [kind, to] that other sessions create
  MaxSynonymDepth,  \* MAX_SYNONYM_DEPTH
  MaxDdl            \* bound: changes of the dictionary

VARIABLES
  dictionary,  \* per owner and name, its object
  past,        \* per owner and name, all that dictionary had since ATTACH
  ddl,         \* changes so far
  describing   \* per connection: the description in progress

Cells    == (Owners \cup {Public}) \X Names
Synonyms == {"synonym", "link"}
Tables   == {"table", "recycled"}
Versions == 0 .. MaxDdl
Object   == [kind : {"synonym"}, version : Versions, to : Cells]
       \cup [kind : {"link", "view"} \cup Tables, version : Versions, to : {Absent}]

IsSource(o) == o # Absent /\ o.kind \notin Synonyms
IsTable(o)  == o # Absent /\ o.kind \in Tables

NotDescribing ==
  [pc |-> "none", at |-> Absent, depth |-> 0, public_allowed |-> FALSE, kind |-> Absent,
   columns |-> Absent, table |-> Absent, listing |-> Absent]

oracle == <<dictionary, past, ddl>>

(* Another Oracle session creates, replaces or drops an object; CREATE OR     *)
(* REPLACE keeps its kind.                                                    *)
ObjectDdl(o, d) ==
  /\ ddl < MaxDdl
  /\ dictionary[o] # Absent /\ d # Absent => d.kind = dictionary[o].kind
  /\ ddl' = ddl + 1
  /\ dictionary' = [dictionary EXCEPT ![o] =
       IF d = Absent THEN Absent ELSE [kind |-> d.kind, to |-> d.to, version |-> ddl + 1]]
  /\ dictionary' # dictionary
  /\ past' = [past EXCEPT ![o] = @ \cup {dictionary'[o]}]
  /\ UNCHANGED describing

-----------------------------------------------------------------------------
Describing(t, pc) == describing[t].pc = pc
Goes(t, pc) == describing' = [describing EXCEPT ![t].pc = pc]

(* DescribeSource of a name of owner; an unqualified name is one of the       *)
(* current schema or, failing that, a public synonym.                         *)
DescribeSource(t, owner, name) ==
  describing' = [describing EXCEPT ![t] = [NotDescribing EXCEPT
    !.pc = "find", !.at = <<owner, name>>, !.public_allowed = (owner = CurrentSchema)]]

(* What follows once an object is found at a place. *)
AfterFind(d, kind) ==
  IF kind \notin Synonyms THEN "columns"
  ELSE IF d.depth >= MaxSynonymDepth THEN "error" ELSE "synonym"

Found(t, place) ==
  describing' = [describing EXCEPT ![t].at = place, ![t].public_allowed = FALSE,
                                   ![t].kind = dictionary[place].kind,
                                   ![t].pc = AfterFind(describing[t], dictionary[place].kind)]

(* FindObjectType of the name; only the name asked for may be public. *)
FindObjectType(t) ==
  /\ Describing(t, "find")
  /\ LET d == describing[t] IN
     \/ dictionary[d.at] # Absent /\ Found(t, d.at)
     \/ dictionary[d.at] = Absent /\ d.public_allowed /\ Goes(t, "public")
     \/ dictionary[d.at] = Absent /\ ~d.public_allowed /\ Goes(t, "not_found")
  /\ UNCHANGED oracle

FindPublicSynonym(t) ==
  /\ Describing(t, "public")
  /\ LET place == <<Public, describing[t].at[2]>> IN
     IF dictionary[place] # Absent THEN Found(t, place) ELSE Goes(t, "not_found")
  /\ UNCHANGED oracle

(* One synonym deeper. *)
MutDeeper(d) == d.depth  \* the synonyms followed are not counted

Deeper(d) == d.depth + 1

(* ALL_SYNONYMS, which may have no row for it any more. *)
ReadSynonym(t) ==
  /\ Describing(t, "synonym")
  /\ LET d == describing[t]
         o == dictionary[d.at] IN
     \/ (o = Absent \/ IsSource(o)) /\ Goes(t, "not_found")
     \/ o # Absent /\ o.kind = "link" /\ Goes(t, "error")
     \/ o # Absent /\ o.kind = "synonym"
        /\ describing' = [describing EXCEPT ![t].at = o.to, ![t].depth = Deeper(d), ![t].pc = "find"]
  /\ UNCHANGED oracle

(* ALL_TAB_COLUMNS: no rows when there is no table or view any more. *)
ReadColumns(t) ==
  /\ Describing(t, "columns")
  /\ LET o == dictionary[describing[t].at] IN
     describing' = [describing EXCEPT
       ![t].columns = IF IsSource(o) THEN o.version ELSE Absent,
       ![t].pc = IF describing[t].kind = "view" THEN "described" ELSE "table"]
  /\ UNCHANGED oracle

(* ALL_TABLES: partitioned, num_rows. *)
ReadTable(t) ==
  /\ Describing(t, "table")
  /\ LET o == dictionary[describing[t].at] IN
     describing' = [describing EXCEPT ![t].table = IF IsTable(o) THEN o.version ELSE Absent,
                                      ![t].pc = "described"]
  /\ UNCHANGED oracle

(* Logon or a query fails. *)
QueryFails(t) ==
  /\ describing[t].pc \in {"find", "public", "synonym", "columns", "table", "list", "list_columns", "list_tables"}
  /\ Goes(t, "error")
  /\ UNCHANGED oracle

(* The OracleTableDescription. *)
Description(t) ==
  LET d == describing[t]
  IN [at |-> d.at, view |-> (d.kind = "view"), columns |-> d.columns, table |-> d.table]

-----------------------------------------------------------------------------
(* DescribeSchema: ALL_OBJECTS, then the columns and ALL_TABLES of the owner. *)
DescribeSchema(t, owner) ==
  describing' = [describing EXCEPT ![t] = [NotDescribing EXCEPT !.pc = "list", !.at = <<owner, Absent>>]]

At(t, n) == dictionary[<<describing[t].at[1], n>>]

ListObjects(t) ==
  /\ Describing(t, "list")
  /\ LET found == {n \in Names : IsSource(At(t, n))} IN
     describing' = [describing EXCEPT
       ![t].listing = [n \in found |-> [at |-> <<describing[t].at[1], n>>, view |-> (At(t, n).kind = "view"),
                                        columns |-> Absent, table |-> Absent]],
       ![t].pc = IF found = {} THEN "listed" ELSE "list_columns"]
  /\ UNCHANGED oracle

ListColumns(t) ==
  /\ Describing(t, "list_columns")
  /\ describing' = [describing EXCEPT
       ![t].listing = [n \in DOMAIN @ |-> [@[n] EXCEPT !.columns = IF IsSource(At(t, n)) THEN At(t, n).version ELSE Absent]],
       ![t].pc = "list_tables"]
  /\ UNCHANGED oracle

(* A table in the recycle bin is taken off the list. *)
InRecycleBin(t, n, d) == ~d.view /\ IsTable(At(t, n)) /\ At(t, n).kind = "recycled"

ListTables(t) ==
  /\ Describing(t, "list_tables")
  /\ LET found == describing[t].listing IN
     describing' = [describing EXCEPT
       ![t].listing = [n \in {m \in DOMAIN found : ~InRecycleBin(t, m, found[m])} |->
          [found[n] EXCEPT !.table = IF ~found[n].view /\ IsTable(At(t, n)) THEN At(t, n).version ELSE Absent]],
       ![t].pc = "listed"]
  /\ UNCHANGED oracle

DescribeStep(t) ==
  \/ FindObjectType(t) \/ FindPublicSynonym(t) \/ ReadSynonym(t) \/ ReadColumns(t) \/ ReadTable(t)
  \/ ListObjects(t) \/ ListColumns(t) \/ ListTables(t)
=============================================================================
