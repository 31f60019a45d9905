------------------------------ MODULE SchemaEntry ------------------------------
(***************************************************************************)
(* The table caches of the schemas of an attached Oracle database           *)
(* (OraduckSchemaEntry), looked up and listed by several DuckDB connections *)
(* while Oracle's dictionary changes.  Each block under the lock is one     *)
(* step; Oracle is asked outside the lock (SourceDescription).              *)
(***************************************************************************)
EXTENDS SourceDescription, Sequences

VARIABLES
  tables,         \* per schema and name, its entry
  missing,        \* per schema, the names Oracle reported missing
  tables_loaded,  \* per schema
  local           \* per connection: the call it is in

entries == <<tables, missing, tables_loaded>>

UpperName(n) == <<n[1], TRUE>>

(* LookupEntry's candidates: the exact name, then the upper-cased one. *)
MutCandidates(n) == <<UpperName(n), n>>  \* the upper-cased name first

Candidates(n) == IF UpperName(n) = n THEN <<n>> ELSE <<n, UpperName(n)>>

NoCall == [pc |-> "idle", schema |-> Absent, name |-> Absent, todo |-> <<>>, answer |-> Absent]

EntriesInit ==
  /\ tables = [s \in Owners |-> [n \in Names |-> Absent]]
  /\ missing = [s \in Owners |-> {}]
  /\ tables_loaded = [s \in Owners |-> FALSE]
  /\ local = [t \in Threads |-> NoCall]

-----------------------------------------------------------------------------
Calling(t, pc) == local[t].pc = pc
Returns(t, a) == local' = [local EXCEPT ![t].pc = "answered", ![t].answer = a, ![t].todo = <<>>]
Throws(t) == local' = [local EXCEPT ![t] = NoCall]
NotDescribingAnyMore(t) == describing' = [describing EXCEPT ![t] = NotDescribing]

(* AddTable, lock held: an entry is never replaced. *)
MutAddTable(s, n, d) == d  \* replaces the entry

AddTable(s, n, d) == IF tables[s][n] = Absent THEN d ELSE tables[s][n]

(* LookupEntry *)
LookupEntry(t, s, n) ==
  /\ Calling(t, "idle")
  /\ local' = [local EXCEPT ![t] = [NoCall EXCEPT !.pc = "check", !.schema = s, !.name = n, !.todo = Candidates(n)]]
  /\ UNCHANGED <<oracle, describing, entries>>

NextCandidate(t) == local' = [local EXCEPT ![t].pc = "check", ![t].todo = Tail(@)]

(* The cache, under the lock: the entry, else the names found missing. *)
CheckCache(t) ==
  /\ Calling(t, "check") /\ local[t].todo # <<>>
  /\ LET s == local[t].schema
         n == Head(local[t].todo) IN
     \/ tables[s][n] # Absent /\ Returns(t, tables[s][n]) /\ UNCHANGED describing
     \/ tables[s][n] = Absent /\ n \in missing[s] /\ NextCandidate(t) /\ UNCHANGED describing
     \/ /\ tables[s][n] = Absent /\ n \notin missing[s]
        /\ local' = [local EXCEPT ![t].pc = "describe"]
        /\ DescribeSource(t, s, n)
  /\ UNCHANGED <<oracle, entries>>

NotFound(t) ==
  /\ Calling(t, "check") /\ local[t].todo = <<>>
  /\ Returns(t, Absent)
  /\ UNCHANGED <<oracle, describing, entries>>

(* SourceNotFoundError: the candidate is missing. *)
AddMissing(t) ==
  /\ Calling(t, "describe") /\ Describing(t, "not_found")
  /\ missing' = [missing EXCEPT ![local[t].schema] = @ \cup {Head(local[t].todo)}]
  /\ NextCandidate(t)
  /\ NotDescribingAnyMore(t)
  /\ UNCHANGED <<oracle, tables, tables_loaded>>

AddFound(t) ==
  /\ Calling(t, "describe") /\ Describing(t, "described")
  /\ LET s == local[t].schema
         n == Head(local[t].todo) IN
     /\ tables' = [tables EXCEPT ![s][n] = AddTable(s, n, Description(t))]
     /\ Returns(t, tables'[s][n])
  /\ NotDescribingAnyMore(t)
  /\ UNCHANGED <<oracle, missing, tables_loaded>>

(* Any other error of Oracle: thrown, nothing is cached. *)
MutLookupThrows(t) ==  \* every error is taken for a missing source
  /\ Calling(t, "describe") /\ Describing(t, "error")
  /\ missing' = [missing EXCEPT ![local[t].schema] = @ \cup {Head(local[t].todo)}]
  /\ NextCandidate(t)
  /\ NotDescribingAnyMore(t)
  /\ UNCHANGED <<oracle, tables, tables_loaded>>

LookupThrows(t) ==
  /\ Calling(t, "describe") /\ Describing(t, "error")
  /\ Throws(t)
  /\ NotDescribingAnyMore(t)
  /\ UNCHANGED <<oracle, entries>>

-----------------------------------------------------------------------------
(* Scan and LoadTables: a listing describes the whole schema once. *)
Scan(t, s) ==
  /\ Calling(t, "idle")
  /\ ~tables_loaded[s]
  /\ local' = [local EXCEPT ![t] = [NoCall EXCEPT !.pc = "load", !.schema = s]]
  /\ DescribeSchema(t, s)
  /\ UNCHANGED <<oracle, entries>>

(* Oracle unreachable: a warning, nothing listed, nothing cached. *)
ScanWarns(t) ==
  /\ Calling(t, "load") /\ Describing(t, "error")
  /\ Throws(t)
  /\ NotDescribingAnyMore(t)
  /\ UNCHANGED <<oracle, entries>>

LoadTables(t) ==
  /\ Calling(t, "load") /\ Describing(t, "listed")
  /\ LET s == local[t].schema
         d == describing[t].listing IN
     /\ tables' = IF tables_loaded[s] THEN tables
                  ELSE [tables EXCEPT ![s] = [n \in Names |-> IF n \in DOMAIN d THEN AddTable(s, n, d[n]) ELSE @[n]]]
     /\ tables_loaded' = [tables_loaded EXCEPT ![s] = TRUE]
  /\ Throws(t)
  /\ NotDescribingAnyMore(t)
  /\ UNCHANGED <<oracle, missing>>

(* ListedTables: the entries that are the schema's own objects. *)
ListedTables(s) == {n \in Names : tables[s][n] # Absent /\ tables[s][n].at = <<s, n>>}

EntryStep(t) ==
  \/ CheckCache(t) \/ NotFound(t) \/ AddMissing(t) \/ AddFound(t) \/ LookupThrows(t)
  \/ ScanWarns(t) \/ LoadTables(t)
=============================================================================
