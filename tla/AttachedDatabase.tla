--------------------------- MODULE AttachedDatabase ---------------------------
(***************************************************************************)
(* An attached Oracle database as the binder uses it: a connection resolves *)
(* a schema name (Catalog), then looks a table up in that schema or lists   *)
(* its tables (SchemaEntry), which describes them (SourceDescription),      *)
(* while other Oracle sessions create and drop users and objects.           *)
(***************************************************************************)
EXTENDS SchemaEntry

CONSTANTS
  Dictionaries,  \* the objects of Oracle at ATTACH
  Requests,      \* the qualified names that are looked up
  MaxCalls       \* bound: lookups and listings

ASSUME AttachedAssumption ==
  /\ MaxDdl \in Nat /\ MaxCalls \in Nat /\ MaxSynonymDepth \in Nat
  /\ CurrentSchema \in Owners /\ Public \notin Owners /\ Absent \notin Owners
  /\ Absent \notin [at : Cells, view : BOOLEAN, columns : Versions \cup {Absent}, table : Versions \cup {Absent}]
  /\ \A n \in Names : UpperName(n) \in Names
  /\ Dictionaries \subseteq [Cells -> Object \cup {Absent}]
  /\ Requests \subseteq Owners \X Names
  /\ Creatable \subseteq [kind : {"synonym"}, to : Cells] \cup [kind : {"table", "view"}, to : {Absent}]

VARIABLES
  all_users, ever, users_loaded, users, schemas, resolving,
  asked,  \* per connection: the qualified name it looks up
  calls   \* lookups and listings so far

C == INSTANCE Catalog WITH Users <- Owners, Nobody <- Absent

catalog == <<all_users, ever, users_loaded, users, schemas, resolving>>
attach  == <<entries, local, describing>>
vars    == <<oracle, catalog, attach, asked, calls>>

Init ==
  /\ C!Init
  /\ dictionary \in Dictionaries
  /\ \A o \in Cells : dictionary[o] # Absent => o[1] \in all_users \cup {Public}
  /\ past = [o \in Cells |-> {dictionary[o]}]
  /\ describing = [t \in Threads |-> NotDescribing]
  /\ EntriesInit
  /\ asked = [t \in Threads |-> Absent]
  /\ calls = 0

(* Other sessions; the objects of a user go with it. *)
Ddl ==
  \/ /\ C!Ddl
     /\ dictionary' = [o \in Cells |-> IF o[1] \in all_users' \cup {Public} THEN dictionary[o] ELSE Absent]
     /\ past' = [o \in Cells |-> past[o] \cup {dictionary'[o]}]
     /\ UNCHANGED <<attach, asked, calls>>
  \/ /\ \E o \in Cells, d \in Creatable \cup {Absent} :
          /\ o[1] \in all_users \cup {Public}
          /\ ~(o[1] = Public /\ d # Absent /\ d.kind # "synonym")
          /\ ObjectDdl(o, d)
     /\ UNCHANGED <<catalog, entries, local, asked, calls>>

-----------------------------------------------------------------------------
Free(t) == C!At(t, "idle") /\ Calling(t, "idle")

Call(t) == calls < MaxCalls /\ calls' = calls + 1 /\ Free(t)

(* The binder looks schema.name up. *)
Lookup(t, request) ==
  /\ Call(t)
  /\ C!LookupSchema(t, request[1])
  /\ asked' = [asked EXCEPT ![t] = request]
  /\ UNCHANGED <<dictionary, past, attach>>

(* The schema is known, or there is none. *)
InSchema(t) ==
  /\ C!Answered(t)
  /\ LET s == resolving[t].answer IN
     IF s # Absent THEN LookupEntry(t, s, asked[t][2])
     ELSE /\ local' = [local EXCEPT ![t].pc = "answered"]
          /\ UNCHANGED <<oracle, describing, entries>>
  /\ UNCHANGED <<all_users, ever, users_loaded, users, schemas, asked, calls>>

(* SHOW TABLES and the like list each schema that ScanSchemas gives. *)
List(t) ==
  \/ Free(t) /\ C!ScanSchemas(t) /\ UNCHANGED <<dictionary, past, attach, asked, calls>>
  \/ /\ Call(t)
     /\ \E s \in schemas : Scan(t, s)
     /\ UNCHANGED <<catalog, asked>>

(* The connection has its answer and goes on. *)
Return(t) ==
  /\ Calling(t, "answered")
  /\ Throws(t)
  /\ asked' = [asked EXCEPT ![t] = Absent]
  /\ UNCHANGED <<oracle, catalog, entries, describing, calls>>

Step(t) ==
  \/ C!Step(t) /\ UNCHANGED <<dictionary, past, attach, asked, calls>>
  \/ InSchema(t)
  \/ DescribeStep(t) /\ UNCHANGED <<catalog, entries, local, asked, calls>>
  \/ QueryFails(t) /\ UNCHANGED <<catalog, entries, local, asked, calls>>
  \/ EntryStep(t) /\ UNCHANGED <<catalog, asked, calls>>
  \/ Return(t)

Next ==
  \/ Ddl
  \/ \E t \in Threads :
       \/ Step(t)
       \/ \E request \in Requests : Lookup(t, request)
       \/ List(t)

(* A connection that is in a call goes on. *)
Spec == Init /\ [][Next]_vars /\ \A t \in Threads : WF_vars(Step(t))

-----------------------------------------------------------------------------
TypeOK ==
  /\ C!TypeOK
  /\ dictionary \in [Cells -> Object \cup {Absent}]
  /\ past \in [Cells -> SUBSET (Object \cup {Absent})]
  /\ missing \in [Owners -> SUBSET Names] /\ tables_loaded \in [Owners -> BOOLEAN]
  /\ DOMAIN describing = Threads /\ DOMAIN local = Threads /\ DOMAIN asked = Threads
  /\ \A t \in Threads : DOMAIN describing[t] = DOMAIN NotDescribing /\ DOMAIN local[t] = DOMAIN NoCall
  /\ calls \in 0 .. MaxCalls

(* Every schema has a place for every name. *)
TablesInv == tables = [s \in Owners |-> [n \in Names |-> tables[s][n]]]

(* An entry handed to DuckDB is a pointer the binder keeps: until DETACH no   *)
(* entry of a schema or of a table is dropped or replaced, and a schema name  *)
(* resolves the same way, whichever lookups and listings race.                *)
EntriesAreStable ==
  [][/\ \A s \in Owners, n \in Names : (tables[s][n] # Absent) => tables'[s][n] = tables[s][n]
     /\ C!SchemasStay]_<<entries, catalog>>

(* Everything an object was, seen through one query. *)
SeenAs(o, Fits(_)) == \E d \in past[o] : d # Absent /\ Fits(d)

(* Each part of a description is what the object was at some moment. *)
WasTrue(e) ==
  LET IsKind(d)    == IsSource(d) /\ e.view = (d.kind = "view")
      IsColumns(d) == IsSource(d) /\ d.version = e.columns
      IsRow(d)     == IsTable(d) /\ d.version = e.table
  IN /\ e.at \in Cells /\ SeenAs(e.at, IsKind)
     /\ e.columns # Absent => SeenAs(e.at, IsColumns)
     /\ e.table # Absent => SeenAs(e.at, IsRow)

(* Where the synonyms that ever were lead from a place. *)
Closed(places) == \A o \in places : \A d \in past[o] : d # Absent /\ d.kind = "synonym" => d.to \in places
LeadsTo(o, p) == \A places \in SUBSET Cells : Closed(places) /\ o \in places => p \in places
LedNowhere(o) == \E p \in Cells : LeadsTo(o, p) /\ Absent \in past[p]
WasSynonym(o) == SeenAs(o, LAMBDA d : d.kind \in Synonyms)

(* The name led to nothing, nor did the public synonym, unless the name was a *)
(* synonym of the schema's own.                                               *)
WasMissing(s, n) ==
  /\ LedNowhere(<<s, n>>)
  /\ s = CurrentSchema => WasSynonym(<<s, n>>) \/ LedNowhere(<<Public, n>>)

(* The caches hold nothing that was not so, although a description is made of *)
(* several queries: each of its parts is what the object was at some moment   *)
(* since ATTACH, a name that is missing led to a missing object, a schema was *)
(* a user, and an error of Oracle is never cached as an answer.               *)
CacheWasTrue ==
  /\ \A s \in Owners, n \in Names : tables[s][n] # Absent => WasTrue(tables[s][n])
  /\ \A s \in Owners : \A n \in missing[s] : WasMissing(s, n)
  /\ C!AnswersAreOracles

(* Oracle's own resolution of a name: the object a chain of at most           *)
(* MaxSynonymDepth synonyms leads to, and the objects it depends on.          *)
Follow[d \in 0 .. MaxSynonymDepth + 1] ==
  [o \in Cells |-> IF d = 0 \/ dictionary[o] = Absent \/ dictionary[o].kind # "synonym" THEN o
                  ELSE Follow[d - 1][dictionary[o].to]]

(* Where a name of a schema is looked for. *)
Place(s, n) ==
  IF s = CurrentSchema /\ dictionary[<<s, n>>] = Absent /\ dictionary[<<Public, n>>] # Absent
  THEN <<Public, n>> ELSE <<s, n>>

Dependencies(s, n) ==
  {<<s, n>>} \cup (IF s = CurrentSchema THEN {<<Public, n>>} ELSE {})
  \cup {Follow[d][Place(s, n)] : d \in 0 .. MaxSynonymDepth + 1}

ObjectOf(s, n) == dictionary[Follow[MaxSynonymDepth + 1][Place(s, n)]]

IsRecycled(o) == o # Absent /\ o.kind = "recycled"
MayBeLookedUp(s, n) == \E request \in Requests :
  C!Upper(request[1]) = C!Upper(s) /\ n \in {request[2], UpperName(request[2])}

NeverChanged(os) == \A o \in os : past[o] = {dictionary[o]}

(* A qualified name that leads to objects that did not change since ATTACH is *)
(* answered as Oracle resolves it: the exact name first, then the upper-cased *)
(* one, through synonyms, public ones for the default schema only; its        *)
(* description is whole; and a listing shows the tables and views of its      *)
(* schema that did not change, not its synonyms, nor the recycle bin unless a *)
(* table in it was looked up by its name.                                     *)
UnchangedNamesResolve ==
  /\ \A t \in Threads : Calling(t, "answered") /\ local[t].schema # Absent =>
       LET s == local[t].schema
           n == asked[t][2]
           m == IF IsSource(ObjectOf(s, n)) THEN n ELSE UpperName(n)
           o == Follow[MaxSynonymDepth + 1][Place(s, m)]
       IN NeverChanged(Dependencies(s, n) \cup Dependencies(s, m)) =>
            IF IsSource(dictionary[o])
            THEN local[t].answer = [at |-> o, view |-> (dictionary[o].kind = "view"), columns |-> dictionary[o].version,
                                    table |-> IF IsTable(dictionary[o]) THEN dictionary[o].version ELSE Absent]
            ELSE local[t].answer = Absent
  /\ \A s \in Owners : tables_loaded[s] => \A n \in Names :
       LET o == dictionary[<<s, n>>] IN
       NeverChanged({<<s, n>>}) /\ ~(IsRecycled(o) /\ MayBeLookedUp(s, n)) =>
         (n \in ListedTables(s)) = (IsSource(o) /\ ~IsRecycled(o))

(* Every call ends, also when synonyms lead in a circle.                      *)
CallsEnd == \A t \in Threads : []<>Free(t)

(* What the code says of a name found missing: it stays missing until DETACH. *)
MissingStaysMissing ==
  [][\A s \in Owners : \A n \in missing[s] : (tables[s][n] = Absent) => tables'[s][n] = Absent]_entries

-----------------------------------------------------------------------------
(* The inductive invariant behind CacheWasTrue. *)

(* An object keeps its kind until it is dropped. *)
PastInv == \A o \in Cells :
  /\ dictionary[o] \in past[o]
  /\ Absent \in past[o] \/ \A d, e \in past[o] : d.kind = e.kind

Finding  == {"find", "public", "synonym", "columns", "table", "described", "not_found"}
Listing  == {"list", "list_columns", "list_tables", "listed"}

(* Which call a connection is in, with what. *)
CallInv(t) ==
  /\ describing[t].pc \in Finding => Calling(t, "describe")
  /\ describing[t].pc \in Listing => Calling(t, "load")
  /\ local[t].pc \in {"check", "describe", "load"} => local[t].schema \in Owners
  /\ local[t].pc \in {"check", "describe"} => local[t].todo \in Seq(Names)
  /\ Calling(t, "describe") => local[t].todo # <<>>
  /\ ~C!At(t, "idle") => Calling(t, "idle") /\ asked[t] \in Requests

(* How the description of a name got to a place without finding the name. *)
OnTheWay(s, n, o) ==
  \/ o = <<s, n>> /\ s # CurrentSchema
  \/ WasSynonym(<<s, n>>) /\ LeadsTo(<<s, n>>, o)
  \/ s = CurrentSchema /\ Absent \in past[<<s, n>>] /\ LeadsTo(<<Public, n>>, o)

FindInv(t) ==
  LET d == describing[t]
      s == local[t].schema
      n == Head(local[t].todo)
  IN /\ d.pc \in Finding => d.at \in Cells
     /\ d.pc \in {"find", "public", "synonym"} => d.columns = Absent /\ d.table = Absent
     /\ d.pc = "find" => IF d.public_allowed THEN d.at = <<s, n>> /\ s = CurrentSchema ELSE OnTheWay(s, n, d.at)
     /\ d.pc = "public" => d.at = <<s, n>> /\ s = CurrentSchema /\ Absent \in past[d.at]
     /\ d.pc = "synonym" => OnTheWay(s, n, d.at) /\ WasSynonym(d.at) /\ ~d.public_allowed
     /\ d.pc = "not_found" => WasMissing(s, n)
     /\ d.pc \in {"columns", "table", "described"} => WasTrue(Description(t))

ListInv(t) ==
  LET d == describing[t]
  IN /\ d.pc \in Listing => d.at \in Owners \X {Absent}
     /\ d.pc \in Listing \ {"list"} =>
          /\ DOMAIN d.listing \subseteq Names
          /\ \A n \in DOMAIN d.listing :
               LET e == d.listing[n]
               IN /\ DOMAIN e = {"at", "view", "columns", "table"}
                  /\ e.at = <<d.at[1], n>> /\ WasTrue(e)

IInv ==
  /\ TypeOK /\ TablesInv /\ PastInv /\ C!ResolveInv
  /\ (\A t \in Threads : CallInv(t) /\ FindInv(t) /\ ListInv(t))
  /\ CacheWasTrue
-----------------------------------------------------------------------------
(* The inductive invariant behind UnchangedNamesResolve: what is known of a   *)
(* name while the objects that it depends on stay as they were at ATTACH.     *)
Exact(o) ==
  [at |-> o, view |-> (dictionary[o].kind = "view"), columns |-> dictionary[o].version,
   table |-> IF IsTable(dictionary[o]) THEN dictionary[o].version ELSE Absent]

(* An entry is right for a name, and a name is rightly taken as missing. *)
Right(s, n, e) ==
  NeverChanged(Dependencies(s, n)) =>
    IsSource(ObjectOf(s, n)) /\ e = Exact(Follow[MaxSynonymDepth + 1][Place(s, n)])

Unresolved(s, n) == NeverChanged(Dependencies(s, n)) => ~IsSource(ObjectOf(s, n))

(* An entry is of the name's own object unless that was a synonym or absent. *)
OwnOrOther(s, n, o) == o = <<s, n>> \/ WasSynonym(<<s, n>>) \/ Absent \in past[<<s, n>>]

(* A listed schema shows its unchanged tables and views; one of the recycle   *)
(* bin has an entry only by a lookup of it.                                   *)
EntryInv(s, n) ==
  LET o == dictionary[<<s, n>>]
  IN /\ tables[s][n] # Absent => Right(s, n, tables[s][n]) /\ OwnOrOther(s, n, tables[s][n].at)
     /\ n \in missing[s] => Unresolved(s, n)
     /\ NeverChanged({<<s, n>>}) =>
          /\ tables_loaded[s] /\ IsSource(o) /\ ~IsRecycled(o) => tables[s][n] # Absent
          /\ tables[s][n] # Absent /\ IsRecycled(o) => MayBeLookedUp(s, n)

(* A description of a name on its way, d as describing has it. *)
Finds(s, n, d) ==
  NeverChanged(Dependencies(s, n)) =>
    LET o == dictionary[d.at]
    IN /\ d.pc \in {"find", "synonym"} /\ ~d.public_allowed =>
            /\ Follow[MaxSynonymDepth + 1 - d.depth][d.at] = Follow[MaxSynonymDepth + 1][Place(s, n)]
            /\ \A k \in 0 .. MaxSynonymDepth + 1 - d.depth : Follow[k][d.at] \in Dependencies(s, n)
       /\ d.pc \in {"columns", "table", "described"} =>
            d.at = Follow[MaxSynonymDepth + 1][Place(s, n)] /\ IsSource(o) /\ d.kind = o.kind
       /\ d.pc \in {"table", "described"} => d.columns = o.version
       /\ d.pc = "table" => d.kind # "view"
       /\ d.pc = "described" => d.table = IF IsTable(o) THEN o.version ELSE Absent
       /\ d.pc = "not_found" => ~IsSource(ObjectOf(s, n))

WayInv(t) ==
  LET d == describing[t]
      s == local[t].schema
      n == Head(local[t].todo)
  IN d.pc \in Finding =>
       /\ d.depth \in 0 .. MaxSynonymDepth /\ (d.pc = "synonym" => d.depth < MaxSynonymDepth)
       /\ ((d.pc = "find" /\ d.public_allowed) \/ d.pc = "public") => d.depth = 0
       /\ d.pc \in {"columns", "table"} => d.table = Absent
       /\ d.pc \in {"columns", "table", "described"} => OwnOrOther(s, n, d.at)
       /\ Finds(s, n, d)

(* A listing of a schema, at one of its names. *)
Lists(s, n, d) ==
  NeverChanged({<<s, n>>}) =>
    LET o == dictionary[<<s, n>>]
    IN /\ IsSource(o) /\ ~IsRecycled(o) => n \in DOMAIN d.listing
       /\ n \in DOMAIN d.listing =>
            /\ IsSource(o) /\ (d.pc = "listed" => ~IsRecycled(o))
            /\ d.listing[n] =
                 [at |-> <<s, n>>, view |-> (o.kind = "view"),
                  columns |-> IF d.pc = "list_columns" THEN Absent ELSE o.version,
                  table |-> IF d.pc = "listed" /\ IsTable(o) THEN o.version ELSE Absent]

SchemaInv(t) ==
  LET d == describing[t]
      s == local[t].schema
  IN d.pc \in Listing =>
       /\ d.at = <<s, Absent>>
       /\ d.pc # "list" => \A n \in Names : Lists(s, n, d)

(* A lookup of a name: what it was asked, and that the candidates it has done *)
(* with are rightly missing.                                                  *)
Looks(l, r, a) ==
  LET s == l.schema
      n == a[2]
      u == UpperName(n)
  IN /\ r.pc # "idle" => r.name = a[1]
     /\ r.pc \in {"entry", "answered"} => r.answer \in {r.name, C!Upper(r.name), Absent}
     /\ l.pc = "idle" => s = Absent
     /\ l.pc \in {"check", "describe", "answered"} /\ s # Absent =>
          s \in Owners /\ a \in Requests /\ C!Upper(a[1]) = C!Upper(s)
     /\ l.pc \in {"check", "describe"} =>
          \/ l.todo = Candidates(n)
          \/ l.todo = <<u>> /\ Unresolved(s, n)
          \/ l.todo = <<>> /\ Unresolved(s, n) /\ Unresolved(s, u)
     /\ l.pc = "answered" /\ s # Absent =>
          \/ Right(s, n, l.answer)
          \/ Unresolved(s, n) /\ Right(s, u, l.answer)
          \/ Unresolved(s, n) /\ Unresolved(s, u) /\ l.answer = Absent

LookupInv(t) == Looks(local[t], resolving[t], asked[t])

RInv ==
  /\ IInv
  /\ \A s \in Owners, n \in Names : EntryInv(s, n)
  /\ \A t \in Threads : WayInv(t) /\ SchemaInv(t) /\ LookupInv(t)
=============================================================================
