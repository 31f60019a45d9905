------------------------- MODULE AttachedDatabaseProofs -------------------------
(***************************************************************************)
(* Proofs about the caches of an attached database, for any users, names,   *)
(* connections and dictionaries.                                            *)
(*                                                                         *)
(*   - What DuckDB keeps pointers to stays (EntriesStay): the two steps     *)
(*     that write entries write only those that are free.                   *)
(*   - What is cached was so (CachesAreTrue).  History only grows, so what  *)
(*     a description saw stays true (WhatWasStays) while other sessions go  *)
(*     on; each of its queries adds one thing that is so now.               *)
(*   - What did not change is resolved as Oracle does                       *)
(*     (UnchangedNamesAreResolved).  An object that is as it was at ATTACH   *)
(*     after a step was so before it (UnchangedBefore), so what is known of  *)
(*     a name whose objects did not change stays known (RightStays), and     *)
(*     each query goes one synonym on along the name's way (Follow).         *)
(***************************************************************************)
EXTENDS AttachedDatabase, NaturalsInduction, WellFoundedInduction, TLAPS

(* A step that keeps every entry there is. *)
EntriesKept == \A s \in Owners, n \in Names : (tables[s][n] # Absent) => tables'[s][n] = tables[s][n]

(* AddTable's caller for one name: AddFound writes one entry, if it is free.  *)
LEMMA AddFoundKeeps ==
  ASSUME TablesInv, NEW t \in Threads, AddFound(t) PROVE TablesInv' /\ EntriesKept
<1> DEFINE s == local[t].schema
           n == Head(local[t].todo)
           d == AddTable(s, n, Description(t))
<1>1. tables' = [tables EXCEPT ![s][n] = d]
  BY DEF AddFound
<1>2. \A x \in Owners, m \in Names : tables'[x][m] = IF x = s /\ m = n THEN d ELSE tables[x][m]
  BY <1>1 DEF TablesInv
<1>3. tables[s][n] # Absent => d = tables[s][n]
  BY DEF AddTable
<1>4. EntriesKept
  BY <1>2, <1>3 DEF EntriesKept
<1>5. TablesInv'
  BY <1>1 DEF TablesInv
<1> QED BY <1>4, <1>5

(* And for a whole schema: LoadTables writes the entries that are free.       *)
LEMMA LoadTablesKeeps ==
  ASSUME TablesInv, NEW t \in Threads, LoadTables(t) PROVE TablesInv' /\ EntriesKept
<1> DEFINE s == local[t].schema
           d == describing[t].listing
           loaded == [n \in Names |-> IF n \in DOMAIN d THEN AddTable(s, n, d[n]) ELSE tables[s][n]]
<1>1. tables' = IF tables_loaded[s] THEN tables ELSE [tables EXCEPT ![s] = loaded]
  BY DEF LoadTables
<1>2. CASE tables_loaded[s]
  BY <1>1, <1>2 DEF TablesInv, EntriesKept
<1>3. CASE ~tables_loaded[s]
  <2>1. tables' = [x \in Owners |-> IF x = s THEN loaded ELSE tables[x]]
    BY <1>1, <1>3 DEF TablesInv
  <2>2. \A n \in Names : tables[s][n] # Absent => loaded[n] = tables[s][n]
    BY DEF AddTable
  <2>3. EntriesKept
    BY <2>1, <2>2 DEF EntriesKept
  <2>4. TablesInv'
    BY <2>1 DEF TablesInv
  <2> QED BY <2>3, <2>4
<1> QED BY <1>2, <1>3

(* No other step of a connection or of Oracle writes entries. *)
LEMMA OtherStepsKeep ==
  ASSUME [Next]_vars
  PROVE  (\E t \in Threads : AddFound(t) \/ LoadTables(t)) \/ UNCHANGED tables
<1> USE DEF entries, attach
<1>1. CASE Ddl
  BY <1>1 DEF Ddl
<1>2. ASSUME NEW t \in Threads, Step(t)
      PROVE  AddFound(t) \/ LoadTables(t) \/ UNCHANGED tables
  <2>1. CASE C!Step(t) /\ UNCHANGED <<dictionary, past, attach, asked, calls>>
    BY <2>1
  <2>2. CASE InSchema(t)
    BY <2>2 DEF InSchema, LookupEntry
  <2>3. CASE EntryStep(t)
    BY <2>3 DEF EntryStep, CheckCache, NotFound, AddMissing, LookupThrows, ScanWarns
  <2>4. CASE (DescribeStep(t) \/ QueryFails(t)) /\ UNCHANGED <<catalog, entries, local, asked, calls>>
    BY <2>4
  <2>5. CASE Return(t)
    BY <2>5 DEF Return
  <2> QED BY <1>2, <2>1, <2>2, <2>3, <2>4, <2>5 DEF Step
<1>3. ASSUME NEW t \in Threads, NEW request \in Requests, Lookup(t, request)
      PROVE  UNCHANGED tables
  BY <1>3 DEF Lookup
<1>4. ASSUME NEW t \in Threads, List(t)
      PROVE  UNCHANGED tables
  BY <1>4 DEF List, Scan
<1>5. CASE UNCHANGED vars
  BY <1>5 DEF vars
<1> QED BY <1>1, <1>2, <1>3, <1>4, <1>5 DEF Next

(* The list of users and the schema entries stay.                             *)
LEMMA SchemasAreKept ==
  ASSUME [Next]_vars
  PROVE  C!SchemasStay
<1> USE DEF C!SchemasStay, C!cache, catalog
<1>1. CASE Ddl
  BY <1>1 DEF Ddl, C!Ddl
<1>2. ASSUME NEW t \in Threads, Step(t)
      PROVE  C!SchemasStay
  <2>1. CASE C!Step(t)
    BY <2>1 DEF C!Step, C!QueryUsers, C!QueryUsersFails, C!StoreUsers, C!ResolveUser, C!GetSchemaEntry
  <2>2. CASE InSchema(t)
    BY <2>2 DEF InSchema
  <2>3. CASE UNCHANGED catalog
    BY <2>3
  <2> QED BY <1>2, <2>1, <2>2, <2>3 DEF Step, Return
<1>3. ASSUME NEW t \in Threads, NEW request \in Requests, Lookup(t, request)
      PROVE  C!SchemasStay
  BY <1>3 DEF Lookup, C!LookupSchema
<1>4. ASSUME NEW t \in Threads, List(t)
      PROVE  C!SchemasStay
  BY <1>4 DEF List, C!ScanSchemas
<1>5. CASE UNCHANGED vars
  BY <1>5 DEF vars
<1> QED BY <1>1, <1>2, <1>3, <1>4, <1>5 DEF Next

(* So every step keeps the entries, and a place for every name. *)
LEMMA TablesStep == TablesInv /\ [Next]_vars => TablesInv' /\ EntriesKept
<1> SUFFICES ASSUME TablesInv, [Next]_vars PROVE TablesInv' /\ EntriesKept
  OBVIOUS
<1>1. CASE UNCHANGED tables
  BY <1>1 DEF TablesInv, EntriesKept
<1> QED BY <1>1, OtherStepsKeep, AddFoundKeeps, LoadTablesKeeps

(* Which step a connection takes, when it moves. *)
Moves(t) == Step(t) \/ (\E request \in Requests : Lookup(t, request)) \/ List(t)

(* Only other sessions change what Oracle has. *)
LEMMA MovesKeepOracle ==
  ASSUME NEW t \in Threads, Moves(t)
  PROVE  UNCHANGED <<dictionary, past, ddl, all_users, ever>>
<1>1. CASE C!Step(t) /\ UNCHANGED <<dictionary, past, attach, asked, calls>>
  BY <1>1 DEF C!Step, C!QueryUsers, C!QueryUsersFails, C!StoreUsers, C!ResolveUser, C!GetSchemaEntry
<1>2. CASE InSchema(t)
  BY <1>2 DEF InSchema, LookupEntry, oracle
<1>3. CASE EntryStep(t) /\ UNCHANGED <<catalog, asked, calls>>
  BY <1>3 DEF EntryStep, CheckCache, NotFound, AddMissing, AddFound, LookupThrows, ScanWarns, LoadTables, oracle, catalog
<1>4. CASE (DescribeStep(t) \/ QueryFails(t)) /\ UNCHANGED <<catalog, entries, local, asked, calls>>
  BY <1>4 DEF DescribeStep, FindObjectType, FindPublicSynonym, ReadSynonym, ReadColumns, ReadTable,
              ListObjects, ListColumns, ListTables, QueryFails, oracle, catalog
<1>5. CASE Return(t)
  BY <1>5 DEF Return, oracle, catalog
<1>6. ASSUME NEW request \in Requests, Lookup(t, request)
      PROVE  UNCHANGED <<dictionary, past, ddl, all_users, ever>>
  BY <1>6 DEF Lookup, C!LookupSchema
<1>7. CASE List(t)
  BY <1>7 DEF List, C!ScanSchemas, Scan, oracle, catalog
<1> QED BY <1>1, <1>2, <1>3, <1>4, <1>5, <1>6, <1>7 DEF Moves, Step

(* A step of Next is of another session, or leaves Oracle as it is. *)
LEMMA OthersChangeOracle ==
  [Next]_vars => Ddl \/ UNCHANGED <<dictionary, past, ddl, all_users, ever>>
<1>1. UNCHANGED vars => UNCHANGED <<dictionary, past, ddl, all_users, ever>>
  BY DEF vars, oracle, catalog
<1> QED BY <1>1, MovesKeepOracle DEF Next, Moves

(* The dictionary and its history keep their types; history grows. *)
LEMMA DdlFacts ==
  ASSUME TypeOK, PastInv, Ddl
  PROVE  /\ dictionary' \in [Cells -> Object \cup {Absent}]
         /\ past' \in [Cells -> SUBSET (Object \cup {Absent})]
         /\ \A o \in Cells : past'[o] = past[o] \cup {dictionary'[o]}
         /\ \A o \in Cells : dictionary'[o] \in {dictionary[o], Absent} \/ dictionary[o] = Absent
                              \/ dictionary'[o].kind = dictionary[o].kind
<1> USE AttachedAssumption DEF TypeOK, PastInv
<1>1. CASE C!Ddl /\ dictionary' = [o \in Cells |-> IF o[1] \in all_users' \cup {Public} THEN dictionary[o] ELSE Absent]
           /\ past' = [o \in Cells |-> past[o] \cup {dictionary'[o]}]
  <2>1. dictionary' \in [Cells -> Object \cup {Absent}]
    BY <1>1
  <2> QED BY <1>1, <2>1
<1>2. ASSUME NEW o \in Cells, NEW d \in Creatable \cup {Absent}, ObjectDdl(o, d)
      PROVE  /\ dictionary' \in [Cells -> Object \cup {Absent}]
             /\ past' \in [Cells -> SUBSET (Object \cup {Absent})]
             /\ \A x \in Cells : past'[x] = past[x] \cup {dictionary'[x]}
             /\ \A x \in Cells : dictionary'[x] \in {dictionary[x], Absent} \/ dictionary[x] = Absent
                                  \/ dictionary'[x].kind = dictionary[x].kind
  <2> DEFINE new == IF d = Absent THEN Absent ELSE [kind |-> d.kind, to |-> d.to, version |-> ddl + 1]
  <2>1. dictionary' = [dictionary EXCEPT ![o] = new]
    BY <1>2 DEF ObjectDdl
  <2>2. past' = [past EXCEPT ![o] = @ \cup {dictionary'[o]}]
    BY <1>2 DEF ObjectDdl
  <2>3. d # Absent => new \in Object
    <3> SUFFICES ASSUME d # Absent PROVE new \in Object
      OBVIOUS
    <3>1. ddl + 1 \in Versions
      BY <1>2 DEF ObjectDdl, Versions, C!TypeOK
    <3>2. CASE d \in [kind : {"synonym"}, to : Cells]
      BY <3>1, <3>2 DEF Object
    <3>3. CASE d \in [kind : {"table", "view"}, to : {Absent}]
      BY <3>1, <3>3 DEF Object, Tables
    <3> QED BY <3>2, <3>3
  <2>4. d # Absent /\ dictionary[o] # Absent => new.kind = dictionary[o].kind
    BY <1>2 DEF ObjectDdl
  <2>5. new \in Object \cup {Absent} /\ (d = Absent => new = Absent)
    BY <2>3
  <2> HIDE DEF new
  <2>6. dictionary' \in [Cells -> Object \cup {Absent}] /\ dictionary'[o] = new
    BY <2>1, <2>5
  <2>7. \A x \in Cells : x # o => dictionary'[x] = dictionary[x] /\ dictionary'[x] \in past[x]
    BY <2>1
  <2>8. past' \in [Cells -> SUBSET (Object \cup {Absent})] /\ \A x \in Cells : past'[x] = past[x] \cup {dictionary'[x]}
    BY <2>2, <2>5, <2>6, <2>7
  <2>9. \A x \in Cells : dictionary'[x] \in {dictionary[x], Absent} \/ dictionary[x] = Absent
                                  \/ dictionary'[x].kind = dictionary[x].kind
    BY <2>4, <2>5, <2>6, <2>7
  <2> QED BY <2>6, <2>8, <2>9
<1> QED BY <1>1, <1>2 DEF Ddl

(* What every step keeps of the dictionary and of its history. *)
LEMMA PastStep ==
  ASSUME TypeOK, PastInv, [Next]_vars
  PROVE  /\ dictionary' \in [Cells -> Object \cup {Absent}]
         /\ past' \in [Cells -> SUBSET (Object \cup {Absent})]
         /\ PastInv'
         /\ \A o \in Cells : past[o] \subseteq past'[o]
<1>1. CASE Ddl
  <2>1. ASSUME NEW o \in Cells
        PROVE  dictionary'[o] \in past'[o] /\ (Absent \in past'[o] \/ \A d, e \in past'[o] : d.kind = e.kind)
    <3>1. past'[o] = past[o] \cup {dictionary'[o]}
      BY <1>1, DdlFacts
    <3>2. dictionary'[o] \in {dictionary[o], Absent} \/ dictionary[o] = Absent \/ dictionary'[o].kind = dictionary[o].kind
      BY <1>1, DdlFacts
    <3>3. dictionary[o] \in past[o] /\ (Absent \in past[o] \/ \A d, e \in past[o] : d.kind = e.kind)
      BY DEF PastInv
    <3> QED BY <3>1, <3>2, <3>3
  <2> QED BY <1>1, <2>1, DdlFacts DEF PastInv
<1>2. CASE UNCHANGED <<dictionary, past, ddl, all_users, ever>>
  BY <1>2 DEF TypeOK, PastInv
<1> QED BY <1>1, <1>2, OthersChangeOracle

(* What was so stays so. *)
LEMMA WhatWasStays ==
  ASSUME \A o \in Cells : past[o] \subseteq past'[o]
  PROVE  /\ \A e : WasTrue(e) => WasTrue(e)'
         /\ \A o, p : LeadsTo(o, p) => LeadsTo(o, p)'
         /\ \A o \in Cells : WasSynonym(o) => WasSynonym(o)'
         /\ \A o : LedNowhere(o) => LedNowhere(o)'
<1>1. \A e : WasTrue(e) => WasTrue(e)'
  BY DEF WasTrue, SeenAs
<1>2. \A o, p : LeadsTo(o, p) => LeadsTo(o, p)'
  BY DEF LeadsTo, Closed
<1>3. \A o \in Cells : WasSynonym(o) => WasSynonym(o)'
  BY DEF WasSynonym, SeenAs
<1>4. \A o : LedNowhere(o) => LedNowhere(o)'
  BY <1>2 DEF LedNowhere
<1> QED BY <1>1, <1>2, <1>3, <1>4

(* A name has a place in a schema and one among the public synonyms. *)
LEMMA NamesArePlaces ==
  ASSUME NEW s \in Owners, NEW n \in Names
  PROVE  <<s, n>> \in Cells /\ <<Public, n>> \in Cells
BY DEF Cells

(* And so does the way a description took, and that it led nowhere. *)
LEMMA TheWayStays ==
  ASSUME \A o \in Cells : past[o] \subseteq past'[o], NEW s \in Owners, NEW n \in Names
  PROVE  /\ \A o : OnTheWay(s, n, o) => OnTheWay(s, n, o)'
         /\ WasMissing(s, n) => WasMissing(s, n)'
<1>1. /\ \A o, p : LeadsTo(o, p) => LeadsTo(o, p)'
      /\ WasSynonym(<<s, n>>) => WasSynonym(<<s, n>>)'
      /\ \A o : LedNowhere(o) => LedNowhere(o)'
      /\ Absent \in past[<<s, n>>] => Absent \in past'[<<s, n>>]
  BY WhatWasStays, NamesArePlaces
<1>2. \A o : OnTheWay(s, n, o) => OnTheWay(s, n, o)'
  BY <1>1 DEF OnTheWay
<1>3. WasMissing(s, n) => WasMissing(s, n)'
  BY <1>1 DEF WasMissing
<1> QED BY <1>2, <1>3

(* A synonym leads to what it stands for. *)
LEMMA OneSynonymMore ==
  ASSUME NEW o, NEW p \in Cells, LeadsTo(o, p), NEW d \in past[p], d # Absent, d.kind = "synonym"
  PROVE  LeadsTo(o, d.to)
BY DEF LeadsTo, Closed

(* No synonym at all leads from a place to itself. *)
LEMMA PlaceLeadsToItself == \A o : LeadsTo(o, o)
BY DEF LeadsTo

(* A description that finds nothing where its way led is of a missing name.   *)
LEMMA NothingOnTheWay ==
  ASSUME NEW s \in Owners, NEW n \in Names, NEW o \in Cells, OnTheWay(s, n, o), Absent \in past[o]
  PROVE  WasMissing(s, n)
<1>1. CASE o = <<s, n>> /\ s # CurrentSchema
  BY <1>1, PlaceLeadsToItself DEF WasMissing, LedNowhere
<1>2. CASE WasSynonym(<<s, n>>) /\ LeadsTo(<<s, n>>, o)
  BY <1>2 DEF WasMissing, LedNowhere
<1>3. CASE s = CurrentSchema /\ Absent \in past[<<s, n>>] /\ LeadsTo(<<Public, n>>, o)
  <2>1. LedNowhere(<<s, n>>)
    BY <1>3, PlaceLeadsToItself, NamesArePlaces DEF LedNowhere
  <2>2. LedNowhere(<<Public, n>>)
    BY <1>3 DEF LedNowhere
  <2> QED BY <2>1, <2>2 DEF WasMissing
<1> QED BY <1>1, <1>2, <1>3 DEF OnTheWay

(* A synonym that is one no more was dropped. *)
LEMMA SynonymWasDropped ==
  ASSUME PastInv, NEW o \in Cells, WasSynonym(o), dictionary[o] = Absent \/ IsSource(dictionary[o])
  PROVE  Absent \in past[o]
BY DEF PastInv, WasSynonym, SeenAs, IsSource, Synonyms

-----------------------------------------------------------------------------
(* Which connection a step is of, and what it leaves alone. *)
Same(w) == /\ describing'[w] = describing[w] /\ local'[w] = local[w]
           /\ resolving'[w] = resolving[w] /\ asked'[w] = asked[w]

Shapes == /\ DOMAIN describing = Threads /\ DOMAIN local = Threads /\ DOMAIN asked = Threads /\ DOMAIN resolving = Threads
          /\ \A t \in Threads : /\ DOMAIN describing[t] = DOMAIN NotDescribing /\ DOMAIN local[t] = DOMAIN NoCall
                                /\ DOMAIN resolving[t] = DOMAIN C!Idle

(* A query of a connection is its own. *)
LEMMA DescribeFrame ==
  ASSUME Shapes, NEW t \in Threads, DescribeStep(t) \/ QueryFails(t), UNCHANGED <<catalog, entries, local, asked, calls>>
  PROVE  Shapes' /\ \A w \in Threads \ {t} : Same(w)
<1> USE DEF Shapes, Same, NotDescribing, catalog, Goes, Found
<1>1. CASE FindObjectType(t)
  BY <1>1 DEF FindObjectType
<1>2. CASE FindPublicSynonym(t)
  BY <1>2 DEF FindPublicSynonym
<1>3. CASE ReadSynonym(t)
  BY <1>3 DEF ReadSynonym
<1>4. CASE ReadColumns(t)
  BY <1>4 DEF ReadColumns
<1>5. CASE ReadTable(t)
  BY <1>5 DEF ReadTable
<1>6. CASE ListObjects(t)
  BY <1>6 DEF ListObjects
<1>7. CASE ListColumns(t)
  BY <1>7 DEF ListColumns
<1>8. CASE ListTables(t)
  BY <1>8 DEF ListTables
<1>9. CASE QueryFails(t)
  BY <1>9 DEF QueryFails
<1> QED BY <1>1, <1>2, <1>3, <1>4, <1>5, <1>6, <1>7, <1>8, <1>9 DEF DescribeStep

(* So is a step of the table caches. *)
LEMMA EntryFrame ==
  ASSUME Shapes, NEW t \in Threads, EntryStep(t), UNCHANGED <<catalog, asked, calls>>
  PROVE  Shapes' /\ \A w \in Threads \ {t} : Same(w)
<1> USE DEF Shapes, Same, NotDescribing, NoCall, catalog, Returns, Throws, NotDescribingAnyMore, NextCandidate
<1>1. CASE CheckCache(t)
  BY <1>1 DEF CheckCache, DescribeSource
<1>2. CASE NotFound(t)
  BY <1>2 DEF NotFound
<1>3. CASE AddMissing(t)
  BY <1>3 DEF AddMissing
<1>4. CASE AddFound(t)
  BY <1>4 DEF AddFound
<1>5. CASE LookupThrows(t)
  BY <1>5 DEF LookupThrows
<1>6. CASE ScanWarns(t)
  BY <1>6 DEF ScanWarns
<1>7. CASE LoadTables(t)
  BY <1>7 DEF LoadTables
<1> QED BY <1>1, <1>2, <1>3, <1>4, <1>5, <1>6, <1>7 DEF EntryStep

(* So is a step of the schema cache. *)
LEMMA CatalogFrame ==
  ASSUME Shapes, NEW t \in Threads, C!Step(t), UNCHANGED <<dictionary, past, attach, asked, calls>>
  PROVE  Shapes' /\ \A w \in Threads \ {t} : Same(w)
<1> USE DEF Shapes, Same, C!Idle, attach
<1>1. CASE C!QueryUsers(t)
  BY <1>1 DEF C!QueryUsers
<1>2. CASE C!QueryUsersFails(t)
  BY <1>2 DEF C!QueryUsersFails
<1>3. CASE C!StoreUsers(t)
  BY <1>3 DEF C!StoreUsers
<1>4. CASE C!ResolveUser(t)
  BY <1>4 DEF C!ResolveUser
<1>5. CASE C!GetSchemaEntry(t)
  BY <1>5 DEF C!GetSchemaEntry
<1> QED BY <1>1, <1>2, <1>3, <1>4, <1>5 DEF C!Step

(* So is the start or the end of a call. *)
LEMMA CallFrame ==
  ASSUME Shapes, NEW t \in Threads, InSchema(t) \/ Return(t) \/ (\E request \in Requests : Lookup(t, request)) \/ List(t)
  PROVE  Shapes' /\ \A w \in Threads \ {t} : Same(w)
<1> USE DEF Shapes, Same, C!Idle, NoCall, NotDescribing, attach, catalog
<1>1. CASE InSchema(t)
  BY <1>1 DEF InSchema, C!Answered, LookupEntry
<1>2. CASE Return(t)
  BY <1>2 DEF Return, Throws
<1>3. ASSUME NEW request \in Requests, Lookup(t, request) PROVE Shapes' /\ \A w \in Threads \ {t} : Same(w)
  BY <1>3 DEF Lookup, C!LookupSchema
<1>4. CASE List(t)
  BY <1>4 DEF List, C!ScanSchemas, Scan, DescribeSchema
<1> QED BY <1>1, <1>2, <1>3, <1>4

-----------------------------------------------------------------------------
(* A connection that does not move keeps what is known of it. *)
LEMMA OthersStay ==
  ASSUME IInv, [Next]_vars, NEW w \in Threads, Same(w)
  PROVE  CallInv(w)' /\ FindInv(w)' /\ ListInv(w)'
<1> USE DEF Same
<1>0. CallInv(w) /\ FindInv(w) /\ ListInv(w)
  BY DEF IInv
<1>1. CallInv(w)'
  BY <1>0 DEF CallInv, Calling, C!At
<1>2. \A o \in Cells : past[o] \subseteq past'[o]
  BY PastStep DEF IInv
<1>3. FindInv(w)'
  <2> DEFINE d == describing[w]
             s == local[w].schema
             n == Head(local[w].todo)
  <2>1. d.pc \in Finding => s \in Owners /\ n \in Names /\ d.at \in Cells
    BY <1>0 DEF CallInv, FindInv, Calling
  <2>2. d.pc \in Finding =>
          /\ \A o : OnTheWay(s, n, o) => OnTheWay(s, n, o)'
          /\ WasMissing(s, n) => WasMissing(s, n)'
          /\ WasSynonym(d.at) => WasSynonym(d.at)'
          /\ Absent \in past[d.at] => Absent \in past'[d.at]
    BY <1>2, <2>1, TheWayStays, WhatWasStays
  <2>3. d.pc \in Finding /\ WasTrue(Description(w)) => WasTrue(Description(w))'
    BY <1>2, <2>1, WhatWasStays DEF Description
  <2>4. UNCHANGED <<d, s, n>>
    OBVIOUS
  <2>5. FindInv(w)
    BY <1>0
  <2>6. d.pc = "find" /\ ~d.public_allowed => OnTheWay(s, n, d.at)'
    BY <2>2, <2>4, <2>5 DEF FindInv, Finding
  <2>7. d.pc = "synonym" => OnTheWay(s, n, d.at)' /\ WasSynonym(d.at)'
    BY <2>2, <2>4, <2>5 DEF FindInv, Finding
  <2>8. d.pc = "not_found" => WasMissing(s, n)'
    BY <2>2, <2>4, <2>5 DEF FindInv, Finding
  <2>9. d.pc \in {"columns", "table", "described"} => WasTrue(Description(w))'
    BY <2>3, <2>5 DEF FindInv, Finding
  <2>10. d.pc = "public" => Absent \in past'[d.at]
    BY <2>2, <2>4, <2>5 DEF FindInv, Finding
  <2> QED BY <2>4, <2>5, <2>6, <2>7, <2>8, <2>9, <2>10 DEF FindInv
<1>4. ListInv(w)'
  <2>1. describing[w].pc \in Listing => \A n \in Names : <<describing[w].at[1], n>> \in Cells
    BY <1>0 DEF ListInv, Cells
  <2>2. \A e : WasTrue(e) => WasTrue(e)'
    BY <1>2, WhatWasStays
  <2> QED BY <1>0, <2>1, <2>2 DEF ListInv
<1> QED BY <1>1, <1>3, <1>4

(* The shapes are the part of the types that frames need. *)
LEMMA TypesAreShapes == ASSUME TypeOK PROVE Shapes
BY DEF TypeOK, C!TypeOK, Shapes

(* The catalog: its types and what its lookups read. *)
LEMMA ResolveStep ==
  ASSUME IInv, [Next]_vars
  PROVE  C!TypeOK' /\ C!ResolveInv' /\ C!AnswersAreOracles'
<1> USE AttachedAssumption DEF C!TypeOK, C!ResolveInv, C!AnswersAreOracles, C!At, C!Idle, C!cache
<1>0. C!TypeOK /\ C!ResolveInv /\ C!AnswersAreOracles
  BY DEF IInv, TypeOK, CacheWasTrue
<1>1. CASE C!Ddl
  BY <1>0, <1>1 DEF C!Ddl
<1>2. ASSUME UNCHANGED catalog, ddl' \in 0 .. MaxDdl PROVE C!TypeOK' /\ C!ResolveInv' /\ C!AnswersAreOracles'
  BY <1>0, <1>2 DEF catalog
<1>3. ASSUME NEW t \in Threads, C!QueryUsers(t) PROVE C!TypeOK' /\ C!ResolveInv' /\ C!AnswersAreOracles'
  BY <1>0, <1>3 DEF C!QueryUsers
<1>4. ASSUME NEW t \in Threads, C!QueryUsersFails(t) PROVE C!TypeOK' /\ C!ResolveInv' /\ C!AnswersAreOracles'
  BY <1>0, <1>4 DEF C!QueryUsersFails
<1>5. ASSUME NEW t \in Threads, C!StoreUsers(t) PROVE C!TypeOK' /\ C!ResolveInv' /\ C!AnswersAreOracles'
  BY <1>0, <1>5 DEF C!StoreUsers
<1>6. ASSUME NEW t \in Threads, C!ResolveUser(t) PROVE C!TypeOK' /\ C!ResolveInv' /\ C!AnswersAreOracles'
  BY <1>0, <1>6 DEF C!ResolveUser, C!Resolved
<1>7. ASSUME NEW t \in Threads, C!GetSchemaEntry(t) PROVE C!TypeOK' /\ C!ResolveInv' /\ C!AnswersAreOracles'
  BY <1>0, <1>7 DEF C!GetSchemaEntry
<1>8. ASSUME NEW t \in Threads, NEW request \in Requests, Lookup(t, request)
      PROVE  C!TypeOK' /\ C!ResolveInv' /\ C!AnswersAreOracles'
  BY <1>0, <1>8 DEF Lookup, C!LookupSchema
<1>9. ASSUME NEW t \in Threads, C!ScanSchemas(t) PROVE C!TypeOK' /\ C!ResolveInv' /\ C!AnswersAreOracles'
  BY <1>0, <1>9 DEF C!ScanSchemas
<1>10. ASSUME NEW t \in Threads, InSchema(t) PROVE C!TypeOK' /\ C!ResolveInv' /\ C!AnswersAreOracles'
  BY <1>0, <1>10 DEF InSchema, C!Answered, LookupEntry, oracle
<1>11. Ddl \/ UNCHANGED ddl
  BY OthersChangeOracle
<1>12. UNCHANGED ddl => ddl' \in 0 .. MaxDdl
  BY <1>0
<1>13. Ddl /\ ~C!Ddl => UNCHANGED catalog /\ ddl' \in 0 .. MaxDdl
  BY <1>0 DEF Ddl, ObjectDdl
<1> HIDE AttachedAssumption DEF C!TypeOK, C!ResolveInv, C!AnswersAreOracles, C!At, C!Idle, C!cache
<1> QED BY <1>1, <1>2, <1>3, <1>4, <1>5, <1>6, <1>7, <1>8, <1>9, <1>10, <1>11, <1>12, <1>13
        DEF Next, Step, C!Step, List, Return, vars

(* The types, and what the dictionary and the tables keep. *)
LEMMA TypeStep == ASSUME IInv, [Next]_vars PROVE TypeOK' /\ TablesInv' /\ PastInv'
<1> USE AttachedAssumption
<1>0. TypeOK /\ Shapes /\ TablesInv /\ PastInv
  BY TypesAreShapes DEF IInv
<1>1. C!TypeOK' /\ PastInv' /\ dictionary' \in [Cells -> Object \cup {Absent}]
      /\ past' \in [Cells -> SUBSET (Object \cup {Absent})] 
  BY <1>0, ResolveStep, PastStep
<1>2. Shapes'
  <2>1. CASE Ddl
    BY <1>0, <2>1 DEF Ddl, C!Ddl, ObjectDdl, Shapes, attach, catalog
  <2>2. CASE UNCHANGED vars
    BY <1>0, <2>2 DEF vars, Shapes, attach, catalog
  <2> QED BY <1>0, <2>1, <2>2, DescribeFrame, EntryFrame, CatalogFrame, CallFrame DEF Next, Step
<1>3. calls' \in 0 .. MaxCalls
  <2> USE DEF TypeOK
  <2>1. calls \in 0 .. MaxCalls /\ (calls' = calls \/ (calls < MaxCalls /\ calls' = calls + 1))
    <3>1. calls \in 0 .. MaxCalls
      BY <1>0
    <3>2. CASE Ddl
      BY <3>1, <3>2 DEF Ddl
    <3>3. ASSUME NEW t \in Threads, Step(t) PROVE calls' = calls
      BY <3>3 DEF Step, InSchema, Return
    <3>4. ASSUME NEW t \in Threads, List(t) PROVE calls' = calls \/ (calls < MaxCalls /\ calls' = calls + 1)
      BY <3>4 DEF List, Call
    <3>5. ASSUME NEW t \in Threads, NEW request \in Requests, Lookup(t, request)
          PROVE  calls < MaxCalls /\ calls' = calls + 1
      BY <3>5 DEF Lookup, Call
    <3> QED BY <3>1, <3>2, <3>3, <3>4, <3>5 DEF Next, vars
  <2> QED BY <2>1
<1>4. missing' \in [Owners -> SUBSET Names] /\ tables_loaded' \in [Owners -> BOOLEAN]
  <2>1. ASSUME NEW t \in Threads, AddMissing(t) PROVE missing' \in [Owners -> SUBSET Names] /\ UNCHANGED tables_loaded
    <3>1. CallInv(t)
      BY DEF IInv
    <3>2. local[t].todo \in Seq(Names) /\ local[t].todo # <<>>
      BY <2>1, <3>1 DEF AddMissing, CallInv, Calling
    <3>3. Head(local[t].todo) \in Names
      BY <3>2
    <3> QED BY <1>0, <2>1, <3>3 DEF AddMissing, TypeOK
  <2>2. ASSUME NEW t \in Threads, LoadTables(t) PROVE UNCHANGED missing /\ tables_loaded' \in [Owners -> BOOLEAN]
    BY <1>0, <2>2 DEF LoadTables, TypeOK
  <2>3. ASSUME NEW t \in Threads, EntryStep(t) PROVE AddMissing(t) \/ LoadTables(t) \/ UNCHANGED <<missing, tables_loaded>>
    BY <2>3 DEF EntryStep, CheckCache, NotFound, AddFound, LookupThrows, ScanWarns, entries
  <2>4. (\E t \in Threads : EntryStep(t)) \/ UNCHANGED <<missing, tables_loaded>>
    BY DEF Next, Ddl, Step, InSchema, LookupEntry, Return, Lookup, List, Scan, vars, attach, entries
  <2> QED BY <1>0, <2>1, <2>2, <2>3, <2>4 DEF TypeOK
<1> QED BY <1>1, <1>2, <1>3, <1>4, <1>0, TablesStep DEF TypeOK, Shapes
-----------------------------------------------------------------------------
(* At most one connection moves. *)
LEMMA OneMoves ==
  ASSUME IInv, [Next]_vars
  PROVE  (\A w \in Threads : Same(w)) \/ (\E t \in Threads : Moves(t) /\ \A w \in Threads \ {t} : Same(w))
<1>0. Shapes
  BY TypesAreShapes DEF IInv
<1>1. CASE Ddl
  BY <1>1 DEF Ddl, C!Ddl, ObjectDdl, Same, attach, catalog, C!cache
<1>2. CASE UNCHANGED vars
  BY <1>2 DEF vars, Same, attach, catalog
<1> QED BY <1>0, <1>1, <1>2, DescribeFrame, EntryFrame, CatalogFrame, CallFrame DEF Next, Step, Moves

(* LookupEntry's candidates are names. *)
LEMMA CandidatesAreNames ==
  ASSUME NEW n \in Names
  PROVE  Candidates(n) \in Seq(Names)
<1>1. UpperName(n) \in Names
  BY AttachedAssumption
<1> QED BY <1>1 DEF Candidates

(* The connection that moves is in one call, and describes for it.            *)
LEMMA CallStep ==
  ASSUME IInv, [Next]_vars, NEW t \in Threads, Moves(t)
  PROVE  CallInv(t)'
<1> USE DEF Calling, C!At, Finding, Listing
<1>0. CallInv(t) /\ Shapes /\ C!TypeOK
  BY TypesAreShapes DEF IInv, TypeOK
<1> USE DEF CallInv, Shapes, Describing, NotDescribing, NoCall, C!Idle
<1>1. ASSUME C!Step(t), UNCHANGED <<dictionary, past, attach, asked, calls>> PROVE CallInv(t)'
  BY <1>0, <1>1 DEF C!Step, C!QueryUsers, C!QueryUsersFails, C!StoreUsers, C!ResolveUser, C!GetSchemaEntry, attach
<1>2. ASSUME InSchema(t) PROVE CallInv(t)'
  <2>1. asked[t] \in Owners \X Names /\ resolving[t].answer \in Owners \cup {Absent}
    BY <1>0, <1>2, AttachedAssumption DEF InSchema, C!Answered, C!TypeOK
  <2>2. Candidates(asked[t][2]) \in Seq(Names)
    BY <2>1, CandidatesAreNames
  <2>3. /\ UNCHANGED describing /\ local[t].pc = "idle"
        /\ resolving'[t].pc = "idle"
    BY <1>0, <1>2 DEF InSchema, C!Answered, LookupEntry
  <2>4. describing[t].pc \notin Finding \cup Listing
    BY <1>0, <2>3
  <2>5. CASE resolving[t].answer = Absent
    <3>1. local'[t].pc = "answered"
      BY <1>0, <1>2, <2>5 DEF InSchema
    <3> QED BY <2>3, <2>4, <3>1
  <2>6. CASE resolving[t].answer # Absent
    <3>1. /\ local'[t].pc = "check" /\ local'[t].schema = resolving[t].answer
          /\ local'[t].todo = Candidates(asked[t][2])
      <4>1. local' = [local EXCEPT ![t] = [NoCall EXCEPT !.pc = "check", !.schema = resolving[t].answer,
                        !.name = asked[t][2], !.todo = Candidates(asked[t][2])]]
        BY <1>2, <2>6 DEF InSchema, LookupEntry
      <4>2. local'[t] = [NoCall EXCEPT !.pc = "check", !.schema = resolving[t].answer,
                        !.name = asked[t][2], !.todo = Candidates(asked[t][2])]
        BY <1>0, <4>1
      <4> QED BY <4>2
    <3>2. local'[t].todo \in Seq(Names) /\ local'[t].schema \in Owners
      BY <2>1, <2>2, <2>6, <3>1, Zenon
    <3>3. CallInv(t)' <=> TRUE
      BY <2>3, <2>4, <3>1, <3>2
    <3> QED BY <3>3
  <2> QED BY <2>5, <2>6
<1>3. ASSUME DescribeStep(t) \/ QueryFails(t), UNCHANGED <<catalog, entries, local, asked, calls>> PROVE CallInv(t)'
  <2>0. UNCHANGED <<local, asked, resolving>>
    BY <1>3 DEF catalog
  <2>1. CASE FindObjectType(t)
    BY <1>0, <2>0, <2>1 DEF FindObjectType, Found, Goes, AfterFind
  <2>2. CASE FindPublicSynonym(t)
    BY <1>0, <2>0, <2>2 DEF FindPublicSynonym, Found, Goes, AfterFind
  <2>3. CASE ReadSynonym(t)
    BY <1>0, <2>0, <2>3 DEF ReadSynonym, Goes
  <2>4. CASE ReadColumns(t)
    BY <1>0, <2>0, <2>4 DEF ReadColumns
  <2>5. CASE ReadTable(t)
    BY <1>0, <2>0, <2>5 DEF ReadTable
  <2>6. CASE ListObjects(t)
    BY <1>0, <2>0, <2>6 DEF ListObjects
  <2>7. CASE ListColumns(t)
    BY <1>0, <2>0, <2>7 DEF ListColumns
  <2>8. CASE ListTables(t)
    BY <1>0, <2>0, <2>8 DEF ListTables
  <2>9. CASE QueryFails(t)
    BY <1>0, <2>0, <2>9 DEF QueryFails, Goes
  <2> QED BY <1>3, <2>1, <2>2, <2>3, <2>4, <2>5, <2>6, <2>7, <2>8, <2>9 DEF DescribeStep
<1>4. ASSUME EntryStep(t), UNCHANGED <<catalog, asked, calls>> PROVE CallInv(t)'
  <2>0. UNCHANGED <<asked, resolving>>
    BY <1>4 DEF catalog
  <2>1. CASE CheckCache(t)
    <3> DEFINE s == local[t].schema
               n == Head(local[t].todo)
    <3>1. /\ local[t].pc = "check" /\ s \in Owners /\ local[t].todo # <<>>
          /\ n \in Names /\ local[t].todo \in Seq(Names) /\ Tail(local[t].todo) \in Seq(Names)
          /\ describing[t].pc \notin Finding \cup Listing /\ resolving[t].pc = "idle"
      BY <1>0, <2>1 DEF CheckCache
    <3>2. \/ UNCHANGED describing /\ local'[t].pc = "answered"
          \/ /\ UNCHANGED describing /\ local'[t].pc = "check"
             /\ local'[t].schema = s /\ local'[t].todo = Tail(local[t].todo)
          \/ /\ describing'[t].pc = "find" /\ local'[t].pc = "describe"
             /\ local'[t].schema = s /\ local'[t].todo = local[t].todo
      <4>1. CASE Returns(t, tables[s][n]) /\ UNCHANGED describing
        BY <1>0, <4>1 DEF Returns
      <4>2. CASE NextCandidate(t) /\ UNCHANGED describing
        BY <1>0, <4>2 DEF NextCandidate
      <4>3. CASE local' = [local EXCEPT ![t].pc = "describe"] /\ DescribeSource(t, s, n)
        BY <1>0, <4>3 DEF DescribeSource
      <4> QED BY <2>1, <4>1, <4>2, <4>3 DEF CheckCache
    <3>3. CASE UNCHANGED describing /\ local'[t].pc = "answered"
      BY <2>0, <3>1, <3>3
    <3>4. CASE /\ UNCHANGED describing /\ local'[t].pc = "check"
               /\ local'[t].schema = s /\ local'[t].todo = Tail(local[t].todo)
      <4>1. local'[t].todo \in Seq(Names)
        BY <3>1, <3>4, Zenon
      <4> QED BY <2>0, <3>1, <3>4, <4>1
    <3>5. CASE /\ describing'[t].pc = "find" /\ local'[t].pc = "describe"
               /\ local'[t].schema = s /\ local'[t].todo = local[t].todo
      BY <2>0, <3>1, <3>5
    <3> QED BY <3>2, <3>3, <3>4, <3>5
  <2>2. CASE NotFound(t)
    BY <1>0, <2>0, <2>2 DEF NotFound, Returns
  <2>3. CASE AddMissing(t)
    BY <1>0, <2>0, <2>3 DEF AddMissing, NextCandidate, NotDescribingAnyMore
  <2>4. CASE AddFound(t)
    BY <1>0, <2>0, <2>4 DEF AddFound, Returns, NotDescribingAnyMore
  <2>5. CASE LookupThrows(t)
    BY <1>0, <2>0, <2>5 DEF LookupThrows, Throws, NotDescribingAnyMore
  <2>6. CASE ScanWarns(t)
    BY <1>0, <2>0, <2>6 DEF ScanWarns, Throws, NotDescribingAnyMore
  <2>7. CASE LoadTables(t)
    BY <1>0, <2>0, <2>7 DEF LoadTables, Throws, NotDescribingAnyMore
  <2> QED BY <1>4, <2>1, <2>2, <2>3, <2>4, <2>5, <2>6, <2>7 DEF EntryStep
<1>5. ASSUME Return(t) PROVE CallInv(t)'
  BY <1>0, <1>5 DEF Return, Throws, catalog
<1>6. ASSUME NEW request \in Requests, Lookup(t, request) PROVE CallInv(t)'
  BY <1>0, <1>6 DEF Lookup, Call, Free, C!LookupSchema, attach
<1>7. ASSUME List(t) PROVE CallInv(t)'
  <2>1. CASE C!ScanSchemas(t) /\ UNCHANGED <<dictionary, past, attach, asked, calls>>
    BY <1>0, <2>1 DEF C!ScanSchemas, attach
  <2>2. ASSUME Call(t), NEW s \in schemas, Scan(t, s), UNCHANGED <<catalog, asked>> PROVE CallInv(t)'
    BY <1>0, <2>2 DEF Call, Free, Scan, DescribeSchema, catalog, C!TypeOK
  <2> QED BY <1>7, <2>1, <2>2 DEF List
<1> QED BY <1>1, <1>2, <1>3, <1>4, <1>5, <1>6, <1>7 DEF Moves, Step
-----------------------------------------------------------------------------
(* Nothing is known of a description that is of no name. *)
LEMMA NotFinding ==
  ASSUME NEW t \in Threads, describing'[t].pc \notin Finding
  PROVE  FindInv(t)'
BY DEF FindInv, Finding

(* Nor of one that is of no schema. *)
LEMMA NotListing ==
  ASSUME NEW t \in Threads, describing'[t].pc \notin Listing
  PROVE  ListInv(t)'
BY DEF ListInv, Listing

(* A description gets a part of what is at its place now. *)
LEMMA DescriptionGrows ==
  ASSUME PastInv, NEW e, NEW f, WasTrue(e), f.at = e.at, f.view = e.view,
         \/ f.columns \in {e.columns, Absent}
         \/ IsSource(dictionary[e.at]) /\ f.columns = dictionary[e.at].version,
         \/ f.table \in {e.table, Absent}
         \/ IsTable(dictionary[e.at]) /\ f.table = dictionary[e.at].version
  PROVE  WasTrue(f)
<1>1. e.at \in Cells /\ dictionary[e.at] \in past[e.at]
  BY DEF PastInv, WasTrue
<1>2. SeenAs(f.at, LAMBDA d : IsSource(d) /\ f.view = (d.kind = "view"))
  BY DEF WasTrue, SeenAs
<1>3. f.columns # Absent => SeenAs(f.at, LAMBDA d : IsSource(d) /\ d.version = f.columns)
  BY <1>1 DEF WasTrue, SeenAs, IsSource
<1>4. f.table # Absent => SeenAs(f.at, LAMBDA d : IsTable(d) /\ d.version = f.table)
  BY <1>1 DEF WasTrue, SeenAs, IsTable
<1> QED BY <1>1, <1>2, <1>3, <1>4 DEF WasTrue

(* An object that was found is described as what it is, or followed. *)
LEMMA FoundStep ==
  ASSUME PastInv, Shapes, NEW t \in Threads, NEW place \in Cells, Found(t, place), dictionary[place] # Absent,
         describing[t].columns = Absent, describing[t].table = Absent, UNCHANGED <<dictionary, past, local>>,
         \/ OnTheWay(local[t].schema, Head(local[t].todo), place)
         \/ place = <<local[t].schema, Head(local[t].todo)>>
  PROVE  FindInv(t)' /\ ListInv(t)'
<1> DEFINE s == local[t].schema
           n == Head(local[t].todo)
           o == dictionary[place]
<1>1. /\ describing'[t].at = place /\ describing'[t].kind = o.kind /\ describing'[t].public_allowed = FALSE
      /\ describing'[t].columns = Absent /\ describing'[t].table = Absent
      /\ describing'[t].pc = AfterFind(describing[t], o.kind)
  BY DEF Found, Shapes, NotDescribing
<1>2. o \in past[place]
  BY DEF PastInv
<1>3. ListInv(t)'
  BY <1>1, NotListing DEF Listing, AfterFind
<1>4. CASE o.kind \notin Synonyms
  <2>1. describing'[t].pc = "columns"
    BY <1>1, <1>4 DEF AfterFind
  <2>2. WasTrue(Description(t)')
    BY <1>1, <1>2, <1>4 DEF WasTrue, Description, SeenAs, IsSource
  <2>3. WasTrue(Description(t))'
    BY <2>2 DEF WasTrue, SeenAs
  <2> QED BY <1>1, <1>3, <2>1, <2>3 DEF FindInv
<1>5. CASE o.kind \in Synonyms
  <2>1. WasSynonym(place)
    BY <1>2, <1>5 DEF WasSynonym, SeenAs
  <2>2. OnTheWay(s, n, place)
    BY <2>1, PlaceLeadsToItself DEF OnTheWay
  <2>3. OnTheWay(s, n, place)' /\ WasSynonym(place)'
    BY <2>1, <2>2 DEF OnTheWay, WasSynonym, SeenAs, LeadsTo, Closed
  <2>4. describing'[t].pc \in {"error", "synonym"}
    BY <1>1, <1>5 DEF AfterFind
  <2> QED BY <1>1, <1>3, <2>3, <2>4 DEF FindInv, Finding
<1> QED BY <1>4, <1>5

(* One query of a description of a name. *)
LEMMA FindStep ==
  ASSUME IInv, NEW t \in Threads, FindObjectType(t) \/ FindPublicSynonym(t) \/ ReadSynonym(t),
         UNCHANGED <<dictionary, past, local>>
  PROVE  FindInv(t)' /\ ListInv(t)'
<1> DEFINE d == describing[t]
           s == local[t].schema
           n == Head(local[t].todo)
           o == dictionary[d.at]
<1>0. /\ CallInv(t) /\ FindInv(t) /\ Shapes /\ PastInv
      /\ dictionary \in [Cells -> Object \cup {Absent}]
  BY TypesAreShapes DEF IInv, TypeOK
<1>1. d.pc \in {"find", "public", "synonym"} /\ d.at \in Cells /\ d.columns = Absent /\ d.table = Absent
  BY <1>0 DEF FindInv, Finding, FindObjectType, FindPublicSynonym, ReadSynonym, Describing
<1>2. /\ s \in Owners /\ n \in Names
      /\ <<s, n>> \in Cells /\ <<Public, n>> \in Cells
  <2>1. s \in Owners /\ local[t].todo \in Seq(Names) /\ local[t].todo # <<>>
    BY <1>0, <1>1 DEF CallInv, Finding, Calling
  <2>2. n \in Names
    BY <2>1
  <2> QED BY <2>1, <2>2, NamesArePlaces
<1>3. \A x \in Cells : dictionary[x] \in past[x]
  BY <1>0 DEF PastInv
<1>4. ASSUME NEW pc \in {"public", "not_found", "error"}, Goes(t, pc)
      PROVE  /\ describing'[t].pc = pc /\ describing'[t].at = d.at
             /\ describing'[t].columns = Absent /\ describing'[t].table = Absent
  BY <1>0, <1>1, <1>4 DEF Goes, Shapes, NotDescribing
<1>5. Goes(t, "error") => FindInv(t)' /\ ListInv(t)'
  BY <1>4, NotFinding, NotListing DEF Finding, Listing
<1>6. Goes(t, "not_found") /\ WasMissing(s, n) => FindInv(t)' /\ ListInv(t)'
  <2> SUFFICES ASSUME Goes(t, "not_found"), WasMissing(s, n) PROVE FindInv(t)' /\ ListInv(t)'
    OBVIOUS
  <2>1. describing'[t].pc = "not_found" /\ describing'[t].at \in Cells
    BY <1>1, <1>4
  <2>2. WasMissing(s, n)'
    BY <1>2, TheWayStays
  <2>3. FindInv(t)'
    BY <2>1, <2>2 DEF FindInv
  <2> QED BY <2>1, <2>3, NotListing DEF Listing
<1>7. CASE FindObjectType(t)
  <2>0. d.pc = "find" /\ IF d.public_allowed THEN d.at = <<s, n>> /\ s = CurrentSchema ELSE OnTheWay(s, n, d.at)
    BY <1>0, <1>7 DEF FindObjectType, Describing, FindInv
  <2>1. CASE o # Absent /\ Found(t, d.at)
    BY <1>0, <1>1, <2>0, <2>1, FoundStep
  <2>2. CASE o = Absent /\ d.public_allowed /\ Goes(t, "public")
    <3>1. /\ describing'[t].pc = "public" /\ describing'[t].at = d.at
          /\ describing'[t].columns = Absent /\ describing'[t].table = Absent
      BY <1>4, <2>2
    <3>2. d.at = <<s, n>> /\ s = CurrentSchema /\ Absent \in past[d.at]
      BY <1>1, <1>3, <2>0, <2>2
    <3> QED BY <1>1, <3>1, <3>2, NotListing DEF FindInv, Listing
  <2>3. CASE o = Absent /\ ~d.public_allowed /\ Goes(t, "not_found")
    BY <1>1, <1>2, <1>3, <1>6, <2>0, <2>3, NothingOnTheWay
  <2> QED BY <1>7, <2>1, <2>2, <2>3 DEF FindObjectType
<1>8. CASE FindPublicSynonym(t)
  <2> DEFINE place == <<Public, n>>
  <2>0. d.pc = "public" /\ d.at = <<s, n>> /\ s = CurrentSchema /\ Absent \in past[d.at]
    BY <1>0, <1>8 DEF FindPublicSynonym, Describing, FindInv
  <2>1. OnTheWay(s, n, place)
    BY <2>0, PlaceLeadsToItself DEF OnTheWay
  <2>2. <<Public, d.at[2]>> = place
    BY <2>0
  <2>3. CASE dictionary[place] # Absent /\ Found(t, place)
    BY <1>0, <1>1, <1>2, <2>1, <2>3, FoundStep
  <2>4. CASE dictionary[place] = Absent /\ Goes(t, "not_found")
    BY <1>2, <1>3, <1>6, <2>1, <2>4, NothingOnTheWay
  <2> QED BY <1>8, <2>2, <2>3, <2>4 DEF FindPublicSynonym
<1>9. CASE ReadSynonym(t)
  <2>0. OnTheWay(s, n, d.at) /\ WasSynonym(d.at) /\ ~d.public_allowed
    BY <1>0, <1>9 DEF ReadSynonym, Describing, FindInv
  <2>1. CASE (o = Absent \/ IsSource(o)) /\ Goes(t, "not_found")
    <3>1. Absent \in past[d.at]
      BY <1>0, <1>1, <2>0, <2>1, SynonymWasDropped
    <3> QED BY <1>1, <1>2, <1>6, <2>0, <2>1, <3>1, NothingOnTheWay
  <2>2. CASE o # Absent /\ o.kind = "link" /\ Goes(t, "error")
    BY <1>5, <2>2
  <2>3. CASE /\ o # Absent /\ o.kind = "synonym"
             /\ describing' = [describing EXCEPT ![t].at = o.to, ![t].depth = Deeper(d), ![t].pc = "find"]
    <3>1. /\ describing'[t].pc = "find" /\ describing'[t].at = o.to /\ describing'[t].public_allowed = d.public_allowed
          /\ describing'[t].columns = Absent /\ describing'[t].table = Absent
      BY <1>0, <1>1, <2>3 DEF Shapes, NotDescribing
    <3>2. o \in past[d.at]
      BY <1>1, <1>3
    <3>3. o.to \in Cells
      BY <1>0, <1>1, <2>3 DEF Object, Tables
    <3>4. \A x : LeadsTo(x, d.at) => LeadsTo(x, o.to)
      BY <1>1, <2>3, <3>2, OneSynonymMore
    <3>5. PICK p \in Cells : p = o.to
      BY <3>3
    <3>6. OnTheWay(s, n, p)
      BY <2>0, <3>4, <3>5, PlaceLeadsToItself DEF OnTheWay
    <3>7. OnTheWay(s, n, p)'
      BY <1>2, <3>6, TheWayStays
    <3>8. describing'[t].at = p /\ ~describing'[t].public_allowed
      BY <2>0, <3>1, <3>5
    <3> QED BY <3>1, <3>7, <3>8, NotListing DEF FindInv, Listing
  <2> QED BY <1>9, <2>1, <2>2, <2>3 DEF ReadSynonym
<1> QED BY <1>7, <1>8, <1>9

(* A query for the columns or for the row of ALL_TABLES of what was found. *)
LEMMA DetailStep ==
  ASSUME IInv, NEW t \in Threads, ReadColumns(t) \/ ReadTable(t), UNCHANGED <<dictionary, past, local>>
  PROVE  FindInv(t)' /\ ListInv(t)'
<1> DEFINE d == describing[t]
           o == dictionary[d.at]
<1>0. FindInv(t) /\ Shapes /\ PastInv
  BY TypesAreShapes DEF IInv
<1>1. d.at \in Cells /\ WasTrue(Description(t))
  BY <1>0 DEF FindInv, Finding, ReadColumns, ReadTable, Describing
<1>2. /\ describing'[t].at = d.at /\ describing'[t].kind = d.kind
      /\ describing'[t].columns \in {d.columns, Absent} \/ (IsSource(o) /\ describing'[t].columns = o.version)
      /\ describing'[t].table \in {d.table, Absent} \/ (IsTable(o) /\ describing'[t].table = o.version)
  <2>1. CASE ReadColumns(t)
    BY <1>0, <2>1 DEF ReadColumns, Shapes, NotDescribing
  <2>2. CASE ReadTable(t)
    BY <1>0, <2>2 DEF ReadTable, Shapes, NotDescribing
  <2> QED BY <2>1, <2>2
<1>3. describing'[t].pc \in {"table", "described"}
  BY <1>0 DEF ReadColumns, ReadTable, Shapes, NotDescribing
<1>4. PICK f : f = [at |-> describing'[t].at, view |-> (describing'[t].kind = "view"),
                    columns |-> describing'[t].columns, table |-> describing'[t].table]
  OBVIOUS
<1>5. WasTrue(f)
  <2>1. PICK e : e = Description(t)
    OBVIOUS
  <2>2. WasTrue(e)
    BY <1>1, <2>1
  <2>3. f.at = e.at /\ f.view = e.view /\ e.at = d.at /\ e.columns = d.columns /\ e.table = d.table
    BY <1>2, <1>4, <2>1 DEF Description
  <2>4. /\ f.columns \in {e.columns, Absent} \/ (IsSource(dictionary[e.at]) /\ f.columns = dictionary[e.at].version)
        /\ f.table \in {e.table, Absent} \/ (IsTable(dictionary[e.at]) /\ f.table = dictionary[e.at].version)
    BY <1>2, <1>4, <2>3
  <2> QED BY <1>0, <2>2, <2>3, <2>4, DescriptionGrows
<1>6. WasTrue(f)'
  BY <1>5 DEF WasTrue, SeenAs
<1>7. WasTrue(Description(t))'
  <2>1. Description(t)' = f
    BY <1>4 DEF Description
  <2> QED BY <1>6, <2>1
<1>8. FindInv(t)'
  BY <1>1, <1>2, <1>3, <1>7 DEF FindInv
<1> QED BY <1>3, <1>8, NotListing DEF Listing

(* One query of a listing. *)
LEMMA ListStep ==
  ASSUME IInv, NEW t \in Threads, ListObjects(t) \/ ListColumns(t) \/ ListTables(t), UNCHANGED <<dictionary, past, local>>
  PROVE  FindInv(t)' /\ ListInv(t)'
<1> DEFINE d == describing[t]
           u == d.at[1]
           o(n) == At(t, n)
<1>0. ListInv(t) /\ Shapes /\ PastInv
  BY TypesAreShapes DEF IInv
<1>1. d.at \in Owners \X {Absent} /\ d.at = <<u, Absent>>
  <2>1. d.pc \in Listing
    BY DEF Listing, ListObjects, ListColumns, ListTables, Describing
  <2>2. d.at \in Owners \X {Absent}
    BY <1>0, <2>1 DEF ListInv
  <2> QED BY <2>2
<1>2. \A n \in Names : /\ <<u, n>> \in Cells /\ o(n) = dictionary[<<u, n>>] /\ o(n) \in past[<<u, n>>]
  BY <1>0, <1>1, NamesArePlaces DEF PastInv, At
<1> HIDE DEF o
<1>3. /\ describing'[t].at = d.at
      /\ describing'[t].pc \in {"list_columns", "list_tables", "listed"}
  BY <1>0 DEF ListObjects, ListColumns, ListTables, Shapes, NotDescribing
<1>4. /\ DOMAIN describing'[t].listing \subseteq Names
      /\ \A n \in DOMAIN describing'[t].listing :
           LET f == describing'[t].listing[n]
           IN DOMAIN f = {"at", "view", "columns", "table"} /\ f.at = <<u, n>> /\ WasTrue(f)
  <2>1. CASE ListObjects(t)
    <3> DEFINE found == {n \in Names : IsSource(o(n))}
               entry(n) == [at |-> <<u, n>>, view |-> (o(n).kind = "view"), columns |-> Absent, table |-> Absent]
    <3>1. describing'[t].listing = [n \in found |-> entry(n)]
      BY <1>0, <2>1 DEF ListObjects, Shapes, NotDescribing, o
    <3>2. ASSUME NEW n \in found PROVE WasTrue(entry(n))
      <4>1. PICK f : f = entry(n)
        OBVIOUS
      <4>2. f.at = <<u, n>> /\ f.view = (o(n).kind = "view") /\ f.columns = Absent /\ f.table = Absent
        BY <4>1
      <4>3. o(n) \in past[f.at] /\ IsSource(o(n)) /\ f.at \in Cells
        BY <1>2, <4>2
      <4>4. WasTrue(f)
        BY <4>2, <4>3 DEF WasTrue, SeenAs, IsSource
      <4> QED BY <4>1, <4>4
    <3>3. \A n \in found : DOMAIN entry(n) = {"at", "view", "columns", "table"} /\ entry(n).at = <<u, n>>
      OBVIOUS
    <3> HIDE DEF entry
    <3> QED BY <3>1, <3>2, <3>3
  <2>2. ASSUME ListColumns(t) \/ ListTables(t)
        PROVE  /\ DOMAIN d.listing \subseteq Names
               /\ \A n \in DOMAIN d.listing : /\ DOMAIN d.listing[n] = {"at", "view", "columns", "table"}
                                               /\ d.listing[n].at = <<u, n>> /\ WasTrue(d.listing[n])
    BY <1>0, <2>2 DEF ListInv, Listing, ListColumns, ListTables, Describing
  <2>3. CASE ListColumns(t)
    <3> DEFINE found == d.listing
               entry(n) == [found[n] EXCEPT !.columns = IF IsSource(o(n)) THEN o(n).version ELSE Absent]
    <3>1. describing'[t].listing = [n \in DOMAIN found |-> entry(n)]
      BY <1>0, <2>3 DEF ListColumns, Shapes, NotDescribing, o
    <3>2. ASSUME NEW n \in DOMAIN found
          PROVE  DOMAIN entry(n) = {"at", "view", "columns", "table"} /\ entry(n).at = <<u, n>> /\ WasTrue(entry(n))
      <4>1. PICK e : e = found[n]
        OBVIOUS
      <4>2. PICK f : f = entry(n)
        OBVIOUS
      <4>3. n \in Names /\ DOMAIN e = {"at", "view", "columns", "table"} /\ e.at = <<u, n>> /\ WasTrue(e)
        BY <2>2, <2>3, <4>1
      <4>4. /\ DOMAIN f = {"at", "view", "columns", "table"} /\ f.at = e.at /\ f.view = e.view
            /\ f.table = e.table /\ f.columns = IF IsSource(o(n)) THEN o(n).version ELSE Absent
        BY <4>1, <4>2, <4>3
      <4>5. WasTrue(f)
        BY <1>0, <1>2, <4>3, <4>4, DescriptionGrows
      <4> QED BY <4>2, <4>3, <4>4, <4>5
    <3> HIDE DEF entry
    <3> QED BY <2>2, <2>3, <3>1, <3>2
  <2>4. CASE ListTables(t)
    <3> DEFINE found == d.listing
               kept == {m \in DOMAIN found : ~InRecycleBin(t, m, found[m])}
               entry(n) == [found[n] EXCEPT !.table = IF ~found[n].view /\ IsTable(o(n)) THEN o(n).version ELSE Absent]
    <3>1. describing'[t].listing = [n \in kept |-> entry(n)]
      BY <1>0, <2>4 DEF ListTables, Shapes, NotDescribing, o
    <3>2. ASSUME NEW n \in kept
          PROVE  DOMAIN entry(n) = {"at", "view", "columns", "table"} /\ entry(n).at = <<u, n>> /\ WasTrue(entry(n))
      <4>1. PICK e : e = found[n]
        OBVIOUS
      <4>2. PICK f : f = entry(n)
        OBVIOUS
      <4>3. n \in Names /\ DOMAIN e = {"at", "view", "columns", "table"} /\ e.at = <<u, n>> /\ WasTrue(e)
        BY <2>2, <2>4, <4>1
      <4>4. /\ DOMAIN f = {"at", "view", "columns", "table"} /\ f.at = e.at /\ f.view = e.view
            /\ f.columns = e.columns
            /\ f.table = Absent \/ (IsTable(o(n)) /\ f.table = o(n).version)
        BY <4>1, <4>2, <4>3
      <4>5. WasTrue(f)
        BY <1>0, <1>2, <4>3, <4>4, DescriptionGrows
      <4> QED BY <4>2, <4>3, <4>4, <4>5
    <3>3. kept \subseteq DOMAIN found
      OBVIOUS
    <3> HIDE DEF entry, kept
    <3> QED BY <2>2, <2>4, <3>1, <3>2, <3>3
  <2> QED BY <2>1, <2>3, <2>4
<1>5. \A e : WasTrue(e) => WasTrue(e)'
  BY DEF WasTrue, SeenAs
<1>6. ListInv(t)'
  BY <1>1, <1>3, <1>4, <1>5 DEF ListInv
<1> QED BY <1>3, <1>6, NotFinding DEF Finding

(* A step of the connection itself. *)
LEMMA MoverStays ==
  ASSUME IInv, NEW t \in Threads, Moves(t)
  PROVE  FindInv(t)' /\ ListInv(t)'
<1>0. /\ CallInv(t) /\ FindInv(t) /\ ListInv(t) /\ Shapes
      /\ UNCHANGED <<dictionary, past>>
  BY TypesAreShapes, MovesKeepOracle DEF IInv
<1>1. ASSUME describing'[t].pc \notin Finding \cup Listing PROVE FindInv(t)' /\ ListInv(t)'
  BY <1>1, NotFinding, NotListing
<1>2. ASSUME UNCHANGED <<describing, local>> PROVE FindInv(t)' /\ ListInv(t)'
  <2>1. FindInv(t)'
    BY <1>0, <1>2 DEF FindInv, OnTheWay, WasMissing, WasSynonym, WasTrue, SeenAs, LedNowhere, LeadsTo, Closed, Description
  <2>2. ListInv(t)'
    BY <1>0, <1>2 DEF ListInv, WasTrue, SeenAs
  <2> QED BY <2>1, <2>2
<1>3. ASSUME local[t].pc \notin {"describe", "load"}, UNCHANGED describing PROVE FindInv(t)' /\ ListInv(t)'
  BY <1>0, <1>1, <1>3 DEF CallInv, Calling
<1>4. ASSUME NotDescribingAnyMore(t) PROVE FindInv(t)' /\ ListInv(t)'
  BY <1>0, <1>1, <1>4 DEF NotDescribingAnyMore, Shapes, NotDescribing, Finding, Listing
<1>5. CASE C!Step(t) /\ UNCHANGED <<dictionary, past, attach, asked, calls>>
  BY <1>2, <1>5 DEF attach
<1>6. CASE InSchema(t)
  BY <1>0, <1>3, <1>6 DEF InSchema, C!Answered, CallInv, C!At, Calling, LookupEntry
<1>7. CASE QueryFails(t)
  BY <1>0, <1>1, <1>7 DEF QueryFails, Goes, Shapes, NotDescribing, Finding, Listing
<1>8. CASE DescribeStep(t) /\ UNCHANGED <<catalog, entries, local, asked, calls>>
  BY <1>0, <1>8, FindStep, DetailStep, ListStep DEF DescribeStep
<1>9. CASE CheckCache(t)
  <2> DEFINE s == local[t].schema
             n == Head(local[t].todo)
  <2>1. /\ Calling(t, "check") /\ s \in Owners /\ n \in Names
    BY <1>0, <1>9 DEF CheckCache, CallInv, Calling
  <2>2. CASE UNCHANGED describing
    BY <1>3, <2>1, <2>2 DEF Calling
  <2>3. CASE local' = [local EXCEPT ![t].pc = "describe"] /\ DescribeSource(t, s, n)
    <3>1. /\ local'[t].schema = s /\ Head(local'[t].todo) = n
          /\ describing'[t].pc = "find" /\ describing'[t].at = <<s, n>>
          /\ describing'[t].public_allowed = (s = CurrentSchema)
          /\ describing'[t].columns = Absent /\ describing'[t].table = Absent
      BY <1>0, <2>3 DEF DescribeSource, Shapes, NotDescribing, NoCall
    <3>2. <<s, n>> \in Cells
      BY <2>1, NamesArePlaces
    <3>3. FindInv(t)'
      BY <3>1, <3>2 DEF FindInv, OnTheWay
    <3> QED BY <3>1, <3>3, NotListing DEF Listing
  <2> QED BY <1>9, <2>2, <2>3 DEF CheckCache
<1>10. CASE EntryStep(t) /\ ~CheckCache(t)
  BY <1>3, <1>4, <1>10 DEF EntryStep, NotFound, AddMissing, AddFound, LookupThrows, ScanWarns, LoadTables, Calling
<1>11. CASE Return(t)
  BY <1>3, <1>11 DEF Return, Calling
<1>12. ASSUME NEW request \in Requests, Lookup(t, request) PROVE FindInv(t)' /\ ListInv(t)'
  BY <1>2, <1>12 DEF Lookup, attach
<1>13. CASE List(t)
  <2>1. CASE C!ScanSchemas(t) /\ UNCHANGED <<dictionary, past, attach, asked, calls>>
    BY <1>2, <2>1 DEF attach
  <2>2. ASSUME NEW s \in schemas, Scan(t, s) PROVE FindInv(t)' /\ ListInv(t)'
    <3>1. s \in Owners
      BY <2>2 DEF IInv, TypeOK, C!TypeOK
    <3>2. describing'[t].pc = "list" /\ describing'[t].at = <<s, Absent>>
      BY <1>0, <2>2 DEF Scan, DescribeSchema, Shapes, NotDescribing
    <3>3. ListInv(t)'
      BY <3>1, <3>2 DEF ListInv
    <3> QED BY <3>2, <3>3, NotFinding DEF Finding
  <2> QED BY <1>13, <2>1, <2>2 DEF List
<1> QED BY <1>5, <1>6, <1>7, <1>8, <1>9, <1>10, <1>11, <1>12, <1>13 DEF Moves, Step

-----------------------------------------------------------------------------
(* What a step puts into the caches of a schema. *)
LEMMA EntriesStep ==
  ASSUME IInv, [Next]_vars, NEW s \in Owners, NEW n \in Names, tables'[s][n] # Absent
  PROVE  WasTrue(tables[s][n])'
<1>0. \A e : WasTrue(e) => WasTrue(e)'
  BY PastStep, WhatWasStays DEF IInv
<1>1. TablesInv /\ (tables[s][n] # Absent => WasTrue(tables[s][n]))
  BY DEF IInv, CacheWasTrue
<1>2. CASE tables'[s][n] = tables[s][n]
  <2>1. PICK e : e = tables[s][n]
    OBVIOUS
  <2> QED BY <1>0, <1>1, <1>2, <2>1
<1>3. CASE tables'[s][n] # tables[s][n]
  <2>1. PICK f : f = tables'[s][n]
    OBVIOUS
  <2>2. PICK t \in Threads : AddFound(t) \/ LoadTables(t)
    BY <1>3, OtherStepsKeep
  <2>3. CallInv(t) /\ FindInv(t) /\ ListInv(t)
    BY DEF IInv
  <2>4. CASE AddFound(t)
    <3> DEFINE x == local[t].schema
               m == Head(local[t].todo)
    <3>1. tables' = [tables EXCEPT ![x][m] = AddTable(x, m, Description(t))]
      BY <2>4 DEF AddFound
    <3>2. s = x /\ n = m /\ tables'[s][n] = AddTable(x, m, Description(t))
      BY <1>1, <1>3, <3>1 DEF TablesInv
    <3>3. f = Description(t)
      BY <1>3, <2>1, <3>2 DEF AddTable
    <3>4. WasTrue(Description(t))
      BY <2>3, <2>4 DEF AddFound, Describing, FindInv
    <3> QED BY <1>0, <2>1, <3>3, <3>4
  <2>5. CASE LoadTables(t)
    <3> DEFINE x == local[t].schema
               d == describing[t].listing
               loaded == [m \in Names |-> IF m \in DOMAIN d THEN AddTable(x, m, d[m]) ELSE tables[x][m]]
    <3>1. tables' = [tables EXCEPT ![x] = loaded]
      BY <1>3, <2>5 DEF LoadTables
    <3>2. s = x /\ tables'[s][n] = loaded[n]
      BY <1>1, <1>3, <3>1 DEF TablesInv
    <3>3. n \in DOMAIN d /\ f = d[n]
      BY <1>3, <2>1, <3>2 DEF AddTable
    <3>4. WasTrue(d[n])
      BY <2>3, <2>5, <3>3 DEF LoadTables, Describing, ListInv, Listing
    <3> QED BY <1>0, <2>1, <3>3, <3>4
  <2> QED BY <2>2, <2>4, <2>5
<1> QED BY <1>2, <1>3

(* AddMissing alone adds a missing name, and its description led nowhere.     *)
LEMMA MissingStep ==
  ASSUME IInv, [Next]_vars, NEW s \in Owners, NEW n \in missing'[s]
  PROVE  WasMissing(s, n)'
<1>1. missing \in [Owners -> SUBSET Names] /\ missing' \in [Owners -> SUBSET Names]
  BY TypeStep DEF IInv, TypeOK
<1>2. WasMissing(s, n) => WasMissing(s, n)'
  BY <1>1, PastStep, TheWayStays DEF IInv
<1>3. CASE n \in missing[s]
  BY <1>2, <1>3 DEF IInv, CacheWasTrue
<1>4. ASSUME NEW t \in Threads, AddMissing(t), n \notin missing[s] PROVE WasMissing(s, n)
  <2>1. s = local[t].schema /\ n = Head(local[t].todo)
    BY <1>1, <1>4 DEF AddMissing
  <2>2. describing[t].pc = "not_found" /\ FindInv(t)
    BY <1>4 DEF AddMissing, Describing, IInv
  <2> QED BY <2>1, <2>2 DEF FindInv
<1>5. (\E t \in Threads : AddMissing(t)) \/ UNCHANGED missing
  BY DEF Next, Ddl, Step, InSchema, LookupEntry, EntryStep, CheckCache, NotFound, AddFound, LookupThrows, ScanWarns,
         LoadTables, Return, Lookup, List, Scan, vars, attach, entries
<1> QED BY <1>2, <1>3, <1>4, <1>5

-----------------------------------------------------------------------------
(* What ATTACH starts from. *)
LEMMA AttachedInit == Init => IInv
<1> SUFFICES ASSUME Init PROVE IInv
  OBVIOUS
<1> USE AttachedAssumption DEF Init
<1>1. C!TypeOK /\ C!ResolveInv /\ C!AnswersAreOracles
  <2>1. /\ all_users \subseteq Owners /\ CurrentSchema \in all_users /\ ever = all_users /\ ddl = 0
        /\ users_loaded = FALSE /\ users = {} /\ schemas = {}
        /\ resolving = [t \in Threads |-> C!Idle]
    BY DEF C!Init
  <2>2. \A t \in Threads : resolving[t] = C!Idle
    BY <2>1
  <2>3. C!ResolveInv /\ C!AnswersAreOracles
    BY <2>1, <2>2 DEF C!ResolveInv, C!AnswersAreOracles, C!At, C!Idle
  <2>4. users_loaded \in BOOLEAN /\ DOMAIN resolving = Threads
    BY <2>1, Zenon
  <2>5. \A t \in Threads : LET r == resolving[t] IN
          /\ DOMAIN r = DOMAIN C!Idle
          /\ r.pc = "idle" /\ r.name = Absent /\ r.loaded = {} /\ r.answer = Absent
    BY <2>2 DEF C!Idle
  <2>6. C!TypeOK
    BY <2>1, <2>4, <2>5 DEF C!TypeOK
  <2> QED BY <2>3, <2>6
<1>2. TypeOK
  BY <1>1 DEF TypeOK, EntriesInit
<1>3. TablesInv /\ PastInv
  BY DEF TablesInv, PastInv, EntriesInit
<1>4. ASSUME NEW t \in Threads PROVE CallInv(t) /\ FindInv(t) /\ ListInv(t)
  <2>1. describing[t].pc = "none" /\ local[t].pc = "idle" /\ resolving[t].pc = "idle"
    BY DEF EntriesInit, NotDescribing, NoCall, C!Init, C!Idle
  <2> QED BY <2>1 DEF CallInv, FindInv, ListInv, Finding, Listing, Calling, C!At
<1>5. CacheWasTrue
  BY <1>1 DEF CacheWasTrue, EntriesInit
<1> QED BY <1>2, <1>3, <1>4, <1>5, <1>1 DEF IInv

(* Every step keeps the invariant. *)
LEMMA AttachedStep == IInv /\ [Next]_vars => IInv'
<1> SUFFICES ASSUME IInv, [Next]_vars PROVE IInv'
  OBVIOUS
<1>1. TypeOK' /\ TablesInv' /\ PastInv' /\ C!ResolveInv' /\ C!AnswersAreOracles'
  BY TypeStep, ResolveStep
<1>2. ASSUME NEW w \in Threads PROVE CallInv(w)' /\ FindInv(w)' /\ ListInv(w)'
  BY OneMoves, OthersStay, CallStep, MoverStays
<1>3. CacheWasTrue'
  BY <1>1, EntriesStep, MissingStep DEF CacheWasTrue
<1> QED BY <1>1, <1>2, <1>3 DEF IInv

(* The invariant of an attached database: what the dictionary had, where each *)
(* connection is, what a description has found and how it got there.          *)
THEOREM AttachedInvariant == Spec => []IInv
<1> QED BY AttachedInit, AttachedStep, PTL DEF Spec

(* Every variable keeps its type.                                             *)
THEOREM AttachedTypeCorrect == Spec => []TypeOK
<1>1. IInv => TypeOK
  BY DEF IInv
<1> QED BY <1>1, AttachedInvariant, PTL

(* The caches hold nothing that was not so in Oracle, at any number of        *)
(* connections, names and changes of the dictionary, whatever the depth of    *)
(* the synonyms: each part of a description is of one moment, and a name is   *)
(* missing only if its way led nowhere.                                       *)
THEOREM CachesAreTrue == Spec => []CacheWasTrue
<1>1. IInv => CacheWasTrue
  BY DEF IInv
<1> QED BY <1>1, AttachedInvariant, PTL

(* Until DETACH no entry of a table or a schema is dropped or replaced, and   *)
(* the list of users, once read, stays, whichever lookups and listings race   *)
(* (LookupEntry, LoadTables, LoadUsers, GetSchemaEntry).                      *)
THEOREM EntriesStay == Spec => EntriesAreStable
<1>1. Init => TablesInv
  BY DEF Init, EntriesInit, TablesInv
<1>2. TablesInv /\ [Next]_vars =>
        [EntriesKept /\ C!SchemasStay]_<<entries, catalog>>
  BY TablesStep, SchemasAreKept
<1>3. TablesInv /\ [Next]_vars => TablesInv'
  BY TablesStep
<1> QED BY <1>1, <1>2, <1>3, PTL DEF Spec, EntriesAreStable, EntriesKept

-----------------------------------------------------------------------------
(* Where synonyms lead: Follow, written with the dictionary as a parameter.   *)
(* A set of numbers has a least one: what stands for induction below, on
   the least counterexample. *)
LEMMA LeastOfNaturals ==
  ASSUME NEW S \in SUBSET Nat, S # {}
  PROVE  \E n \in S : \A x \in S : n <= x
<1> DEFINE R == OpToRel(<, Nat)
<1>0. IsWellFoundedOn(R, Nat)
  BY NatLessThanWellFounded
<1>1. \A x, y \in Nat : y < x => <<y, x>> \in R
  BY DEF OpToRel
<1> HIDE DEF R
<1>2. PICK n \in S : \A y \in S : ~(<<y, n>> \in R)
  BY <1>0, WFMin
<1>3. ASSUME NEW x \in S PROVE n <= x
  <2>1. x \in Nat /\ n \in Nat
    OBVIOUS
  <2>2. ~(x < n)
    BY <1>1, <1>2, <2>1, Zenon
  <2> QED BY <2>1, <2>2
<1> QED BY <1>3

(* Where a step of every place leads from, D being the dictionary. *)
Onward(D, g) == [o \in Cells |-> IF D[o] = Absent \/ D[o].kind # "synonym" THEN o ELSE g[D[o].to]]
IsWay(D, f, m) == f = [d \in 0 .. m |-> IF d = 0 THEN [o \in Cells |-> o] ELSE Onward(D, f[d - 1])]

(* There is such a function, whatever the dictionary and the depth. *)
LEMMA WayExists == ASSUME NEW D, NEW m \in Nat PROVE \E f : IsWay(D, f, m)
<1> DEFINE Bad == {n \in Nat : ~ \E f : IsWay(D, f, n)}
<1> SUFFICES ASSUME Bad # {} PROVE FALSE
  OBVIOUS
<1>1. PICK n \in Bad : \A x \in Bad : n <= x
  <2> HIDE DEF IsWay
  <2>1. Bad \in SUBSET Nat
    OBVIOUS
  <2> HIDE DEF Bad
  <2> QED BY <2>1, LeastOfNaturals
<1>2. CASE n = 0
  <2> DEFINE f == [d \in 0 .. 0 |-> [o \in Cells |-> o]]
  <2>1. IsWay(D, f, 0)
    BY DEF IsWay
  <2> QED BY <1>2, <2>1
<1>3. CASE n # 0
  <2>1. n \in Nat /\ n - 1 \in Nat /\ ~(n <= n - 1)
    BY <1>3
  <2>2. PICK g : IsWay(D, g, n - 1)
    BY <1>1, <2>1
  <2> DEFINE f == [d \in 0 .. n |-> IF d = n THEN Onward(D, g[n - 1]) ELSE g[d]]
  <2>3. \A d \in 0 .. n - 1 : g[d] = IF d = 0 THEN [o \in Cells |-> o] ELSE Onward(D, g[d - 1])
    BY <2>2 DEF IsWay
  <2>4. \A d \in 0 .. n : f[d] = IF d = 0 THEN [o \in Cells |-> o] ELSE Onward(D, f[d - 1])
    <3> HIDE DEF Bad
    <3> TAKE d \in 0 .. n
    <3>1. CASE d = n
      <4>1. n - 1 \in 0 .. n /\ n - 1 # n
        BY <2>1
      <4>2. f[n - 1] = g[n - 1]
        BY <4>1
      <4> QED BY <1>3, <3>1, <4>2
    <3>2. CASE d # n
      <4>1. d \in 0 .. n - 1 /\ (d # 0 => d - 1 \in 0 .. n /\ d - 1 # n)
        BY <2>1, <3>2
      <4> QED BY <2>3, <3>2, <4>1
    <3> QED BY <3>1, <3>2
  <2>5. IsWay(D, f, n)
    <3>1. DOMAIN f = 0 .. n /\ f = [d \in 0 .. n |-> f[d]]
      OBVIOUS
    <3> HIDE DEF f
    <3> QED BY <2>4, <3>1 DEF IsWay
  <2> HIDE DEF IsWay, f
  <2> QED BY <2>5
<1> QED BY <1>2, <1>3

(* Follow, which is defined by recursion, is it. *)
LEMMA FollowIsWay == IsWay(dictionary, Follow, MaxSynonymDepth + 1)
<1> DEFINE N == MaxSynonymDepth + 1
           Way(f) == [d \in 0 .. N |-> [o \in Cells |->
                       IF d = 0 \/ dictionary[o] = Absent \/ dictionary[o].kind # "synonym" THEN o
                       ELSE f[d - 1][dictionary[o].to]]]
<1>1. \A f : IsWay(dictionary, f, N) <=> f = Way(f)
  BY DEF IsWay, Onward
<1>2. \E f : f = Way(f)
  <2>1. N \in Nat
    BY AttachedAssumption
  <2> HIDE DEF N, Way
  <2> QED BY <1>1, <2>1, WayExists
<1>3. Follow = CHOOSE f : f = Way(f)
  BY DEF Follow
<1>4. Follow = Way(Follow)
  <2> HIDE DEF Way
  <2> QED BY <1>2, <1>3
<1> HIDE DEF Way
<1> QED BY <1>1, <1>4

(* Its value, one synonym at a time. *)
LEMMA WayEquations ==
  ASSUME NEW D, NEW m \in Nat, NEW f, IsWay(D, f, m)
  PROVE  /\ \A o \in Cells : f[0][o] = o
         /\ \A d \in 1 .. m, o \in Cells : f[d][o] = IF D[o] = Absent \/ D[o].kind # "synonym" THEN o ELSE f[d - 1][D[o].to]
<1>1. \A d \in 0 .. m : f[d] = IF d = 0 THEN [o \in Cells |-> o] ELSE Onward(D, f[d - 1])
  BY DEF IsWay
<1>2. f[0] = [o \in Cells |-> o]
  BY <1>1
<1>3. ASSUME NEW d \in 1 .. m, NEW o \in Cells
      PROVE  f[d][o] = IF D[o] = Absent \/ D[o].kind # "synonym" THEN o ELSE f[d - 1][D[o].to]
  <2>1. d \in 0 .. m /\ d # 0
    OBVIOUS
  <2>2. f[d] = Onward(D, f[d - 1])
    BY <1>1, <2>1, Zenon
  <2> QED BY <2>2 DEF Onward
<1>4. \A o \in Cells : f[0][o] = o
  BY <1>2
<1> QED BY <1>3, <1>4

(* What synonyms lead to is a place. *)
LEMMA WayIsPlaces ==
  ASSUME NEW D \in [Cells -> Object \cup {Absent}], NEW m \in Nat, NEW f, IsWay(D, f, m)
  PROVE  \A d \in 0 .. m, o \in Cells : f[d][o] \in Cells
<1> DEFINE Bad == {d \in 0 .. m : \E o \in Cells : f[d][o] \notin Cells}
<1> SUFFICES ASSUME Bad # {} PROVE FALSE
  OBVIOUS
<1>1. PICK n \in Bad : \A x \in Bad : n <= x
  <2>1. Bad \in SUBSET Nat
    OBVIOUS
  <2> HIDE DEF Bad
  <2> QED BY <2>1, LeastOfNaturals
<1>2. PICK o \in Cells : f[n][o] \notin Cells
  OBVIOUS
<1>3. n \in 1 .. m
  BY <1>2, WayEquations
<1>4. n - 1 \in 0 .. m /\ n - 1 \notin Bad
  BY <1>1, <1>3
<1>5. D[o] # Absent /\ D[o].kind = "synonym" /\ f[n][o] = f[n - 1][D[o].to]
  BY <1>2, <1>3, WayEquations
<1>6. D[o].to \in Cells
  BY <1>5 DEF Object, Tables
<1> QED BY <1>2, <1>4, <1>5, <1>6

(* Two dictionaries that agree along a way lead the same way. *)
LEMMA WaysAgree ==
  ASSUME NEW D \in [Cells -> Object \cup {Absent}], NEW E \in [Cells -> Object \cup {Absent}],
         NEW m \in Nat, NEW f, NEW g, IsWay(D, f, m), IsWay(E, g, m)
  PROVE  \A d \in 0 .. m, o \in Cells : (\A k \in 0 .. d : D[f[k][o]] = E[f[k][o]]) => g[d][o] = f[d][o]
<1> DEFINE Agree(d, o) == \A k \in 0 .. d : D[f[k][o]] = E[f[k][o]]
           Bad == {d \in 0 .. m : \E o \in Cells : Agree(d, o) /\ g[d][o] # f[d][o]}
<1> SUFFICES ASSUME Bad # {} PROVE FALSE
  OBVIOUS
<1>1. PICK n \in Bad : \A x \in Bad : n <= x
  <2>1. Bad \in SUBSET Nat
    OBVIOUS
  <2> HIDE DEF Bad
  <2> QED BY <2>1, LeastOfNaturals
<1>2. PICK o \in Cells : Agree(n, o) /\ g[n][o] # f[n][o]
  OBVIOUS
<1>3. n \in 1 .. m
  BY <1>2, WayEquations
<1>4. n - 1 \in 0 .. m /\ n - 1 \notin Bad
  BY <1>1, <1>3
<1>5. D[o] = E[o]
  <2>1. 0 \in 0 .. n
    BY <1>3
  <2> QED BY <1>2, <2>1, WayEquations
<1>6. D[o] # Absent /\ D[o].kind = "synonym"
  BY <1>2, <1>3, <1>5, WayEquations
<1>7. D[o].to \in Cells
  BY <1>6 DEF Object, Tables
<1>8. \A k \in 1 .. m : f[k][o] = f[k - 1][D[o].to]
  BY <1>6, WayEquations
<1>9. g[n][o] = g[n - 1][D[o].to]
  BY <1>3, <1>5, <1>6, WayEquations
<1>10. Agree(n - 1, D[o].to)
  <2> TAKE k \in 0 .. n - 1
  <2>1. k + 1 \in 1 .. m /\ k + 1 \in 0 .. n /\ k + 1 - 1 = k
    BY <1>3
  <2>2. f[k + 1][o] = f[k][D[o].to]
    BY <1>8, <2>1
  <2> QED BY <1>2, <2>1, <2>2
<1> QED BY <1>2, <1>3, <1>4, <1>7, <1>8, <1>9, <1>10

(* Follow after a step, of the dictionary after it. *)
LEMMA FollowIsWayNext == IsWay(dictionary', Follow', MaxSynonymDepth + 1)
<1>1. IsWay(dictionary, Follow, MaxSynonymDepth + 1)'
  BY FollowIsWay, PTL
<1> QED BY <1>1 DEF IsWay, Onward

(* Follow, one synonym at a time. *)
LEMMA FollowEquations ==
  ASSUME dictionary \in [Cells -> Object \cup {Absent}]
  PROVE  /\ MaxSynonymDepth + 1 \in Nat
         /\ \A o \in Cells : Follow[0][o] = o
         /\ \A d \in 1 .. MaxSynonymDepth + 1, o \in Cells : Follow[d][o] =
              IF dictionary[o] = Absent \/ dictionary[o].kind # "synonym" THEN o ELSE Follow[d - 1][dictionary[o].to]
         /\ \A d \in 0 .. MaxSynonymDepth + 1, o \in Cells : Follow[d][o] \in Cells
<1> DEFINE N == MaxSynonymDepth + 1
<1>1. N \in Nat
  BY AttachedAssumption
<1>2. IsWay(dictionary, Follow, N)
  BY FollowIsWay
<1> HIDE DEF N
<1>3. \A d \in 0 .. N, o \in Cells : Follow[d][o] \in Cells
  BY <1>1, <1>2, WayIsPlaces
<1>4. /\ \A o \in Cells : Follow[0][o] = o
      /\ \A d \in 1 .. N, o \in Cells : Follow[d][o] =
              IF dictionary[o] = Absent \/ dictionary[o].kind # "synonym" THEN o ELSE Follow[d - 1][dictionary[o].to]
  BY <1>1, <1>2, WayEquations
<1> QED BY <1>1, <1>3, <1>4 DEF N

(* An object that is as it was at ATTACH after a step was so before it. *)
LEMMA UnchangedBefore ==
  ASSUME IInv, [Next]_vars, NEW os \in SUBSET Cells, \A o \in os : past'[o] = {dictionary'[o]}
  PROVE  \A o \in os : past[o] = {dictionary[o]} /\ dictionary'[o] = dictionary[o]
<1>1. ASSUME NEW o \in os PROVE past[o] = {dictionary[o]} /\ dictionary'[o] = dictionary[o]
  <2>1. dictionary[o] \in past[o] /\ past[o] \subseteq past'[o] /\ past'[o] = {dictionary'[o]}
    BY PastStep DEF IInv, PastInv
  <2> QED BY <2>1
<1> QED BY <1>1

(* A name depends on places, where it is looked for among them. *)
LEMMA DependenciesArePlaces ==
  ASSUME dictionary \in [Cells -> Object \cup {Absent}], NEW s \in Owners, NEW n \in Names
  PROVE  /\ Place(s, n) \in Cells /\ Dependencies(s, n) \subseteq Cells
         /\ <<s, n>> \in Dependencies(s, n) /\ (s = CurrentSchema => <<Public, n>> \in Dependencies(s, n))
         /\ \A k \in 0 .. MaxSynonymDepth + 1 : Follow[k][Place(s, n)] \in Dependencies(s, n)
<1>1. Place(s, n) \in Cells
  BY NamesArePlaces DEF Place
<1>2. \A k \in 0 .. MaxSynonymDepth + 1 : Follow[k][Place(s, n)] \in Cells
  BY <1>1, FollowEquations
<1>3. <<s, n>> \in Cells /\ <<Public, n>> \in Cells
  BY NamesArePlaces
<1>4. Dependencies(s, n) \subseteq Cells
  BY <1>2, <1>3 DEF Dependencies
<1> QED BY <1>1, <1>4 DEF Dependencies

(* So a name that leads to objects as they were at ATTACH led to them before. *)
LEMMA LedSoBefore ==
  ASSUME IInv, [Next]_vars, NEW s \in Owners, NEW n \in Names, NeverChanged(Dependencies(s, n))'
  PROVE  /\ NeverChanged(Dependencies(s, n))
         /\ Dependencies(s, n)' = Dependencies(s, n)
         /\ Place(s, n)' = Place(s, n)
         /\ \A o \in Dependencies(s, n) : dictionary'[o] = dictionary[o]
         /\ \A d \in 0 .. MaxSynonymDepth + 1, o \in Cells :
              (\A k \in 0 .. d : Follow[k][o] \in Dependencies(s, n)) => Follow'[d][o] = Follow[d][o]
<1> DEFINE N == MaxSynonymDepth + 1
<1>0. N \in Nat
  BY AttachedAssumption
<1>1. /\ N \in Nat
      /\ dictionary \in [Cells -> Object \cup {Absent}] /\ dictionary' \in [Cells -> Object \cup {Absent}]
      /\ IsWay(dictionary, Follow, N) /\ IsWay(dictionary', Follow', N)
  BY FollowIsWay, FollowIsWayNext, PastStep, AttachedAssumption DEF IInv, TypeOK
<1>2. PICK os : os = Dependencies(s, n)'
  OBVIOUS
<1>3. PICK p : p = Place(s, n)'
  OBVIOUS
<1>4. /\ os = {<<s, n>>} \cup (IF s = CurrentSchema THEN {<<Public, n>>} ELSE {}) \cup {Follow'[d][p] : d \in 0 .. N}
      /\ p = IF s = CurrentSchema /\ dictionary'[<<s, n>>] = Absent /\ dictionary'[<<Public, n>>] # Absent
             THEN <<Public, n>> ELSE <<s, n>>
  BY <1>2, <1>3 DEF Dependencies, Place
<1> HIDE DEF N
<1>5. p \in Cells /\ \A d \in 0 .. N : Follow'[d][p] \in Cells
  <2>1. p \in Cells
    BY <1>4, NamesArePlaces
  <2> QED BY <1>1, <2>1, WayIsPlaces
<1>6. os \in SUBSET Cells
  BY <1>4, <1>5, NamesArePlaces
<1>7. \A o \in os : past'[o] = {dictionary'[o]}
  BY <1>2 DEF NeverChanged
<1>8. \A o \in os : past[o] = {dictionary[o]} /\ dictionary'[o] = dictionary[o]
  BY <1>6, <1>7, UnchangedBefore
<1>9. Place(s, n) = p
  BY <1>4, <1>8 DEF Place
<1>10. \A d \in 0 .. N, o \in Cells : (\A k \in 0 .. d : Follow'[k][o] \in os) => Follow[d][o] = Follow'[d][o]
  <2> TAKE d \in 0 .. N, o \in Cells
  <2>1. (\A k \in 0 .. d : dictionary'[Follow'[k][o]] = dictionary[Follow'[k][o]]) => Follow[d][o] = Follow'[d][o]
    BY <1>1, WaysAgree
  <2> QED BY <1>8, <2>1
<1>11. \A d \in 0 .. N, o \in Cells : (\A k \in 0 .. d : Follow[k][o] \in os) => Follow'[d][o] = Follow[d][o]
  <2>1. \A d \in 0 .. N, o \in Cells :
          (\A k \in 0 .. d : dictionary[Follow[k][o]] = dictionary'[Follow[k][o]]) => Follow'[d][o] = Follow[d][o]
    <3>1. PICK D, E, f, g, m : D = dictionary /\ E = dictionary' /\ f = Follow /\ g = Follow' /\ m = N
      OBVIOUS
    <3>2. /\ D \in [Cells -> Object \cup {Absent}] /\ E \in [Cells -> Object \cup {Absent}]
          /\ m \in Nat /\ IsWay(D, f, m) /\ IsWay(E, g, m)
      BY <1>1, <3>1
    <3>3. \A d \in 0 .. m, o \in Cells : (\A k \in 0 .. d : D[f[k][o]] = E[f[k][o]]) => g[d][o] = f[d][o]
      BY <3>2, WaysAgree
    <3> QED BY <3>1, <3>3
  <2> QED BY <1>8, <2>1
<1>12. \A d \in 0 .. N : Follow[d][p] = Follow'[d][p]
  <2> TAKE d \in 0 .. N
  <2>1. \A k \in 0 .. d : Follow'[k][p] \in os
    BY <1>1, <1>4
  <2> QED BY <1>5, <1>10, <2>1
<1>13. Dependencies(s, n) = os
  BY <1>4, <1>9, <1>12 DEF Dependencies, N
<1>14. NeverChanged(Dependencies(s, n))
  BY <1>8, <1>13 DEF NeverChanged
<1> QED BY <1>2, <1>3, <1>8, <1>9, <1>11, <1>13, <1>14 DEF N

(* What Oracle makes of such a name is what it made of it. *)
LEMMA ResolvedSoBefore ==
  ASSUME IInv, [Next]_vars, NEW s \in Owners, NEW n \in Names, NeverChanged(Dependencies(s, n))'
  PROVE  LET o == Follow[MaxSynonymDepth + 1][Place(s, n)]
         IN /\ o \in Cells /\ (Follow[MaxSynonymDepth + 1][Place(s, n)])' = o
            /\ dictionary'[o] = dictionary[o] /\ ObjectOf(s, n) = dictionary[o] /\ ObjectOf(s, n)' = dictionary[o]
<1> DEFINE N == MaxSynonymDepth + 1
<1>0. dictionary \in [Cells -> Object \cup {Absent}] /\ N \in 0 .. N
  BY AttachedAssumption DEF IInv, TypeOK
<1>1. /\ dictionary \in [Cells -> Object \cup {Absent}] /\ N \in Nat
      /\ Place(s, n) \in Cells /\ Follow[N][Place(s, n)] \in Cells
      /\ \A k \in 0 .. N : Follow[k][Place(s, n)] \in Dependencies(s, n)
  <2>1. Place(s, n) \in Cells /\ \A k \in 0 .. N : Follow[k][Place(s, n)] \in Dependencies(s, n)
    BY <1>0, DependenciesArePlaces
  <2> QED BY <1>0, <2>1, FollowEquations
<1>2. Place(s, n)' = Place(s, n) /\ Follow'[N][Place(s, n)] = Follow[N][Place(s, n)]
  <2>1. N \in 0 .. N
    BY <1>1
  <2> QED BY <1>1, <2>1, LedSoBefore
<1>3. dictionary'[Follow[N][Place(s, n)]] = dictionary[Follow[N][Place(s, n)]]
  <2>1. N \in 0 .. N
    BY <1>1
  <2> QED BY <1>1, <2>1, LedSoBefore
<1> QED BY <1>1, <1>2, <1>3 DEF ObjectOf

(* So what is known of a name stays known. *)
LEMMA RightStays ==
  ASSUME IInv, [Next]_vars, NEW s \in Owners, NEW n \in Names
  PROVE  /\ \A e : Right(s, n, e) => Right(s, n, e)'
         /\ Unresolved(s, n) => Unresolved(s, n)'
<1>1. ASSUME NEW e, Right(s, n, e), NeverChanged(Dependencies(s, n))'
      PROVE  (IsSource(ObjectOf(s, n)) /\ e = Exact(Follow[MaxSynonymDepth + 1][Place(s, n)]))'
  <2>1. PICK o : o = Follow[MaxSynonymDepth + 1][Place(s, n)]
    OBVIOUS
  <2>2. /\ (Follow[MaxSynonymDepth + 1][Place(s, n)])' = o /\ dictionary'[o] = dictionary[o]
        /\ ObjectOf(s, n) = dictionary[o] /\ ObjectOf(s, n)' = dictionary[o]
    BY <1>1, <2>1, ResolvedSoBefore
  <2>3. IsSource(ObjectOf(s, n)) /\ e = Exact(o)
    BY <1>1, <2>1, LedSoBefore DEF Right
  <2>4. Exact(o)' = Exact(o)
    BY <2>2 DEF Exact, IsTable
  <2>5. IsSource(ObjectOf(s, n))'
    BY <2>2, <2>3 DEF IsSource
  <2>6. (Exact(Follow[MaxSynonymDepth + 1][Place(s, n)]))' = Exact(o)'
    BY <2>2 DEF Exact, IsTable
  <2> QED BY <2>3, <2>4, <2>5, <2>6
<1>2. ASSUME Unresolved(s, n), NeverChanged(Dependencies(s, n))' PROVE ~IsSource(ObjectOf(s, n))'
  BY <1>2, ResolvedSoBefore, LedSoBefore DEF Unresolved, IsSource
<1>3. \A e : Right(s, n, e) => Right(s, n, e)'
  BY <1>1 DEF Right
<1>4. Unresolved(s, n) => Unresolved(s, n)'
  BY <1>2 DEF Unresolved
<1> QED BY <1>3, <1>4

(* Whose object an entry is of, and what a listing and a description have
   found, stays known too. *)
LEMMA OwnStays ==
  ASSUME IInv, [Next]_vars, NEW s \in Owners, NEW n \in Names
  PROVE  \A o : OwnOrOther(s, n, o) => OwnOrOther(s, n, o)'
<1>1. \A o \in Cells : past[o] \subseteq past'[o]
  BY PastStep DEF IInv
<1>2. WasSynonym(<<s, n>>) => WasSynonym(<<s, n>>)'
  BY <1>1, WhatWasStays, NamesArePlaces
<1>3. Absent \in past[<<s, n>>] => Absent \in past'[<<s, n>>]
  BY <1>1, NamesArePlaces
<1> QED BY <1>2, <1>3 DEF OwnOrOther

(* At a name of a listed schema. *)
LEMMA ListsStays ==
  ASSUME IInv, [Next]_vars, NEW s \in Owners, NEW n \in Names
  PROVE  \A d : Lists(s, n, d) => Lists(s, n, d)'
<1>1. ASSUME NeverChanged({<<s, n>>})'
      PROVE  NeverChanged({<<s, n>>}) /\ dictionary'[<<s, n>>] = dictionary[<<s, n>>]
  <2>1. {<<s, n>>} \in SUBSET Cells /\ \A o \in {<<s, n>>} : past'[o] = {dictionary'[o]}
    BY <1>1, NamesArePlaces DEF NeverChanged
  <2> QED BY <2>1, UnchangedBefore DEF NeverChanged
<1> QED BY <1>1 DEF Lists, IsSource, IsRecycled, IsTable

(* At the name of a description. *)
LEMMA FindsStays ==
  ASSUME IInv, [Next]_vars, NEW s \in Owners, NEW n \in Names,
         NEW d, d.at \in Cells, d.depth \in 0 .. MaxSynonymDepth, Finds(s, n, d)
  PROVE  Finds(s, n, d)'
<1> SUFFICES ASSUME NeverChanged(Dependencies(s, n))' PROVE Finds(s, n, d)'
  BY DEF Finds
<1>1. PICK o : o = Follow[MaxSynonymDepth + 1][Place(s, n)]
  OBVIOUS
<1>2. /\ (Follow[MaxSynonymDepth + 1][Place(s, n)])' = o /\ dictionary'[o] = dictionary[o]
      /\ ObjectOf(s, n) = dictionary[o] /\ ObjectOf(s, n)' = dictionary[o]
  BY <1>1, ResolvedSoBefore
<1>3. NeverChanged(Dependencies(s, n)) /\ Dependencies(s, n)' = Dependencies(s, n)
  BY LedSoBefore
<1>4. ASSUME d.pc \in {"find", "synonym"}, ~d.public_allowed
      PROVE  /\ Follow'[MaxSynonymDepth + 1 - d.depth][d.at] = o
             /\ \A k \in 0 .. MaxSynonymDepth + 1 - d.depth : Follow'[k][d.at] \in Dependencies(s, n)
  <2>1. /\ Follow[MaxSynonymDepth + 1 - d.depth][d.at] = o
        /\ \A k \in 0 .. MaxSynonymDepth + 1 - d.depth : Follow[k][d.at] \in Dependencies(s, n)
    <3>1. Follow[MaxSynonymDepth + 1 - d.depth][d.at] = Follow[MaxSynonymDepth + 1][Place(s, n)]
      BY <1>3, <1>4 DEF Finds
    <3>2. \A k \in 0 .. MaxSynonymDepth + 1 - d.depth : Follow[k][d.at] \in Dependencies(s, n)
      BY <1>3, <1>4 DEF Finds
    <3> QED BY <1>1, <3>1, <3>2
  <2>2. MaxSynonymDepth + 1 \in Nat /\ MaxSynonymDepth + 1 - d.depth \in 0 .. MaxSynonymDepth + 1
    BY AttachedAssumption
  <2>3. \A k \in 0 .. MaxSynonymDepth + 1 - d.depth : Follow'[k][d.at] = Follow[k][d.at]
    <3> TAKE k \in 0 .. MaxSynonymDepth + 1 - d.depth
    <3>1. k \in 0 .. MaxSynonymDepth + 1 /\ \A j \in 0 .. k : j \in 0 .. MaxSynonymDepth + 1 - d.depth
      BY <2>2
    <3>2. \A j \in 0 .. k : Follow[j][d.at] \in Dependencies(s, n)
      BY <2>1, <3>1
    <3> QED BY <3>1, <3>2, LedSoBefore
  <2>4. MaxSynonymDepth + 1 - d.depth \in 0 .. MaxSynonymDepth + 1 - d.depth
    BY <2>2
  <2> QED BY <2>1, <2>3, <2>4
<1>5. /\ d.pc \in {"columns", "table", "described"} => d.at = o /\ IsSource(dictionary[d.at]) /\ d.kind = dictionary[d.at].kind
      /\ d.pc \in {"table", "described"} => d.columns = dictionary[d.at].version
      /\ d.pc = "table" => d.kind # "view"
      /\ d.pc = "described" => d.table = IF IsTable(dictionary[d.at]) THEN dictionary[d.at].version ELSE Absent
      /\ d.pc = "not_found" => ~IsSource(ObjectOf(s, n))
  BY <1>1, <1>3 DEF Finds
<1>6. /\ d.pc \in {"columns", "table", "described"} => d.at = o /\ IsSource(dictionary'[d.at]) /\ d.kind = dictionary'[d.at].kind
      /\ d.pc \in {"table", "described"} => d.columns = dictionary'[d.at].version
      /\ d.pc = "described" => d.table = IF IsTable(dictionary'[d.at]) THEN dictionary'[d.at].version ELSE Absent
  BY <1>2, <1>5
<1>7. d.pc = "not_found" => ~IsSource(ObjectOf(s, n))'
  BY <1>2, <1>5 DEF IsSource
<1>8. /\ d.pc \in {"columns", "table", "described"} => d.at = o /\ IsSource(dictionary[d.at])' /\ d.kind = dictionary'[d.at].kind
      /\ d.pc = "described" => d.table = (IF IsTable(dictionary[d.at]) THEN dictionary[d.at].version ELSE Absent)'
  BY <1>6 DEF IsSource, IsTable
<1>9. (d.pc \in {"find", "synonym"} /\ ~d.public_allowed =>
         /\ Follow[MaxSynonymDepth + 1 - d.depth][d.at] = Follow[MaxSynonymDepth + 1][Place(s, n)]
         /\ \A k \in 0 .. MaxSynonymDepth + 1 - d.depth : Follow[k][d.at] \in Dependencies(s, n))'
  <2>1. d.pc \in {"find", "synonym"} /\ ~d.public_allowed =>
          (Follow[MaxSynonymDepth + 1 - d.depth][d.at] = Follow[MaxSynonymDepth + 1][Place(s, n)])'
    BY <1>2, <1>4
  <2>2. d.pc \in {"find", "synonym"} /\ ~d.public_allowed =>
          (\A k \in 0 .. MaxSynonymDepth + 1 - d.depth : Follow[k][d.at] \in Dependencies(s, n))'
    BY <1>3, <1>4
  <2> QED BY <2>1, <2>2
<1> QED BY <1>2, <1>5, <1>6, <1>7, <1>8, <1>9 DEF Finds

(* What is known of a lookup stays known. *)
LEMMA LooksStays ==
  ASSUME IInv, [Next]_vars, NEW l, NEW r, NEW a, l.pc \in {"check", "describe"} => l.schema # Absent, Looks(l, r, a)
  PROVE  Looks(l, r, a)'
<1> DEFINE s == l.schema
           n == a[2]
           u == UpperName(n)
<1>1. /\ r.pc # "idle" => r.name = a[1]
      /\ r.pc \in {"entry", "answered"} => r.answer \in {r.name, C!Upper(r.name), Absent}
      /\ l.pc = "idle" => s = Absent
      /\ l.pc \in {"check", "describe", "answered"} /\ s # Absent =>
           s \in Owners /\ a \in Requests /\ C!Upper(a[1]) = C!Upper(s)
      /\ l.pc \in {"check", "describe"} =>
           \/ l.todo = Candidates(n)
           \/ l.todo = <<u>> /\ Unresolved(s, n)
           \/ l.todo = <<>> /\ Unresolved(s, n) /\ Unresolved(s, u)
      /\ l.pc = "answered" /\ s # Absent =>
           \/ Right(s, n, l.answer)
           \/ Unresolved(s, n) /\ Right(s, u, l.answer)
           \/ Unresolved(s, n) /\ Unresolved(s, u) /\ l.answer = Absent
  BY DEF Looks
<1>2. l.pc \in {"check", "describe", "answered"} /\ s # Absent =>
        /\ \A e : /\ Right(s, n, e) => Right(s, n, e)'
                  /\ Right(s, u, e) => Right(s, u, e)'
        /\ Unresolved(s, n) => Unresolved(s, n)'
        /\ Unresolved(s, u) => Unresolved(s, u)'
  <2> SUFFICES ASSUME l.pc \in {"check", "describe", "answered"}, s # Absent
               PROVE  /\ \A e : /\ Right(s, n, e) => Right(s, n, e)'
                                /\ Right(s, u, e) => Right(s, u, e)'
                      /\ Unresolved(s, n) => Unresolved(s, n)'
                      /\ Unresolved(s, u) => Unresolved(s, u)'
    OBVIOUS
  <2>1. s \in Owners /\ n \in Names /\ u \in Names
    BY <1>1, AttachedAssumption
  <2> HIDE DEF s, n, u
  <2> QED BY <2>1, RightStays
<1>3. l.pc \in {"check", "describe"} => s # Absent
  OBVIOUS
<1> HIDE DEF s, u
<1>4. /\ l.pc \in {"check", "describe"} =>
           \/ l.todo = Candidates(n)
           \/ l.todo = <<u>> /\ Unresolved(s, n)'
           \/ l.todo = <<>> /\ Unresolved(s, n)' /\ Unresolved(s, u)'
      /\ l.pc = "answered" /\ s # Absent =>
           \/ Right(s, n, l.answer)'
           \/ Unresolved(s, n)' /\ Right(s, u, l.answer)'
           \/ Unresolved(s, n)' /\ Unresolved(s, u)' /\ l.answer = Absent
  BY <1>1, <1>2, <1>3
<1> QED BY <1>1, <1>4 DEF Looks, s, u

(* A lookup that goes on with the same candidates. *)
LEMMA LookupKept ==
  ASSUME RInv, [Next]_vars, NEW w \in Threads,
         local'[w] = local[w], resolving'[w] = resolving[w], asked'[w] = asked[w]
  PROVE  LookupInv(w)'
<1>0. IInv /\ CallInv(w) /\ LookupInv(w)
  BY DEF RInv, IInv
<1>1. PICK l, r, a : l = local[w] /\ r = resolving[w] /\ a = asked[w]
  OBVIOUS
<1>2. local'[w] = l /\ resolving'[w] = r /\ asked'[w] = a
  BY <1>1
<1>3. l.pc \in {"check", "describe"} => l.schema # Absent
  BY <1>0, <1>1, AttachedAssumption DEF CallInv
<1>4. Looks(l, r, a)'
  BY <1>0, <1>1, <1>3, LooksStays DEF LookupInv
<1> QED BY <1>2, <1>4 DEF LookupInv

(* A connection that does not move: its name is resolved as far as it was. *)
LEMMA OthersKeepTheirWay ==
  ASSUME RInv, [Next]_vars, NEW w \in Threads, Same(w)
  PROVE  WayInv(w)' /\ SchemaInv(w)' /\ LookupInv(w)'
<1>0. IInv /\ CallInv(w) /\ FindInv(w) /\ ListInv(w) /\ WayInv(w) /\ SchemaInv(w) /\ LookupInv(w) /\ Same(w)
  BY DEF RInv, IInv
<1>1. PICK d, l, r, a : d = describing[w] /\ l = local[w] /\ r = resolving[w] /\ a = asked[w]
  OBVIOUS
<1>2. describing'[w] = d /\ local'[w] = l /\ resolving'[w] = r /\ asked'[w] = a
  BY <1>0, <1>1 DEF Same
<1>3. WayInv(w)'
  <2> SUFFICES ASSUME d.pc \in Finding
               PROVE  /\ d.depth \in 0 .. MaxSynonymDepth /\ (d.pc = "synonym" => d.depth < MaxSynonymDepth)
                      /\ ((d.pc = "find" /\ d.public_allowed) \/ d.pc = "public") => d.depth = 0
                      /\ d.pc \in {"columns", "table"} => d.table = Absent
                      /\ d.pc \in {"columns", "table", "described"} => OwnOrOther(l.schema, Head(l.todo), d.at)'
                      /\ Finds(l.schema, Head(l.todo), d)'
    BY <1>2 DEF WayInv
  <2>1. l.schema \in Owners /\ Head(l.todo) \in Names /\ d.at \in Cells
    BY <1>0, <1>1 DEF CallInv, FindInv, Calling
  <2>2. /\ d.depth \in 0 .. MaxSynonymDepth /\ (d.pc = "synonym" => d.depth < MaxSynonymDepth)
        /\ ((d.pc = "find" /\ d.public_allowed) \/ d.pc = "public") => d.depth = 0
        /\ d.pc \in {"columns", "table"} => d.table = Absent
        /\ d.pc \in {"columns", "table", "described"} => OwnOrOther(l.schema, Head(l.todo), d.at)
        /\ Finds(l.schema, Head(l.todo), d)
    BY <1>0, <1>1 DEF WayInv
  <2> QED BY <1>0, <2>1, <2>2, OwnStays, FindsStays
<1>4. SchemaInv(w)'
  <2> SUFFICES ASSUME d.pc \in Listing
               PROVE  d.at = <<l.schema, Absent>> /\ (d.pc # "list" => \A n \in Names : Lists(l.schema, n, d)')
    BY <1>2 DEF SchemaInv
  <2>1. d.at = <<l.schema, Absent>> /\ (d.pc # "list" => \A n \in Names : Lists(l.schema, n, d))
    BY <1>0, <1>1 DEF SchemaInv
  <2>2. l.schema \in Owners
    BY <1>0, <1>1 DEF CallInv, Calling
  <2> QED BY <1>0, <2>1, <2>2, ListsStays
<1>5. LookupInv(w)'
  BY <1>0, LookupKept DEF Same
<1> QED BY <1>3, <1>4, <1>5

(* A place from which a name's way goes on, with depth synonyms behind it. *)
GoesOn(s, n, depth, o) ==
  NeverChanged(Dependencies(s, n)) =>
    /\ Follow[MaxSynonymDepth + 1 - depth][o] = Follow[MaxSynonymDepth + 1][Place(s, n)]
    /\ \A k \in 0 .. MaxSynonymDepth + 1 - depth : Follow[k][o] \in Dependencies(s, n)

(* The way of a name starts at its place. *)
LEMMA WayStarts ==
  ASSUME dictionary \in [Cells -> Object \cup {Absent}], NEW s \in Owners, NEW n \in Names
  PROVE  GoesOn(s, n, 0, Place(s, n))
<1>1. MaxSynonymDepth + 1 - 0 = MaxSynonymDepth + 1
  BY AttachedAssumption
<1> QED BY <1>1, DependenciesArePlaces DEF GoesOn

(* A way that goes on from no synonym ends there. *)
LEMMA WayEnds ==
  ASSUME dictionary \in [Cells -> Object \cup {Absent}], NEW s \in Owners, NEW n \in Names,
         NEW depth \in 0 .. MaxSynonymDepth, NEW o \in Cells, GoesOn(s, n, depth, o),
         dictionary[o] = Absent \/ dictionary[o].kind # "synonym", NeverChanged(Dependencies(s, n))
  PROVE  o = Follow[MaxSynonymDepth + 1][Place(s, n)] /\ ObjectOf(s, n) = dictionary[o]
<1>1. MaxSynonymDepth + 1 - depth \in 1 .. MaxSynonymDepth + 1
  BY AttachedAssumption
<1>2. Follow[MaxSynonymDepth + 1 - depth][o] = o
  BY <1>1, FollowEquations
<1> QED BY <1>2 DEF GoesOn, ObjectOf

(* The description of a name of which this is known is on the name's way.     *)
LEMMA OnItsWay ==
  ASSUME RInv, [Next]_vars, NEW t \in Threads, UNCHANGED local, NEW e, describing'[t] = e,
         local[t].schema \in Owners, Head(local[t].todo) \in Names,
         e.at \in Cells, e.depth \in 0 .. MaxSynonymDepth, e.pc = "synonym" => e.depth < MaxSynonymDepth,
         ((e.pc = "find" /\ e.public_allowed) \/ e.pc = "public") => e.depth = 0,
         e.pc \in {"columns", "table"} => e.table = Absent,
         e.pc \in {"columns", "table", "described"} => OwnOrOther(local[t].schema, Head(local[t].todo), e.at),
         Finds(local[t].schema, Head(local[t].todo), e)
  PROVE  WayInv(t)'
<1>1. IInv
  BY DEF RInv
<1>2. PICK s, n : s = local[t].schema /\ n = Head(local[t].todo)
  OBVIOUS
<1>3. Finds(s, n, e)' /\ (OwnOrOther(s, n, e.at) => OwnOrOther(s, n, e.at)')
  BY <1>1, <1>2, FindsStays, OwnStays
<1>4. local'[t].schema = s /\ Head(local'[t].todo) = n
  BY <1>2
<1> QED BY <1>2, <1>3, <1>4 DEF WayInv

(* An object found on the way is what the name leads to, or a synonym more.   *)
LEMMA FoundOnTheWay ==
  ASSUME RInv, [Next]_vars, NEW t \in Threads, UNCHANGED local, NEW o \in Cells, Found(t, o), dictionary[o] # Absent,
         local[t].schema \in Owners, Head(local[t].todo) \in Names,
         describing[t].depth \in 0 .. MaxSynonymDepth, describing[t].table = Absent,
         OwnOrOther(local[t].schema, Head(local[t].todo), o),
         GoesOn(local[t].schema, Head(local[t].todo), describing[t].depth, o)
  PROVE  WayInv(t)'
<1> DEFINE s == local[t].schema
           n == Head(local[t].todo)
           depth == describing[t].depth
<1>0. Shapes /\ dictionary \in [Cells -> Object \cup {Absent}]
  BY TypesAreShapes DEF RInv, IInv, TypeOK
<1>1. PICK e : e = describing'[t]
  OBVIOUS
<1>2. /\ e.at = o /\ e.kind = dictionary[o].kind /\ e.public_allowed = FALSE /\ e.depth = depth /\ e.table = Absent
      /\ e.pc = AfterFind(describing[t], dictionary[o].kind)
  BY <1>0, <1>1 DEF Found, Shapes, NotDescribing
<1>3. CASE IsSource(dictionary[o])
  <2>1. e.pc = "columns"
    BY <1>2, <1>3 DEF AfterFind, IsSource
  <2>2. Finds(s, n, e)
    <3> SUFFICES ASSUME NeverChanged(Dependencies(s, n))
                 PROVE  e.at = Follow[MaxSynonymDepth + 1][Place(s, n)] /\ IsSource(dictionary[e.at]) /\ e.kind = dictionary[e.at].kind
      BY <2>1 DEF Finds
    <3>1. dictionary[o].kind # "synonym"
      BY <1>3 DEF IsSource, Synonyms
    <3> QED BY <1>0, <1>2, <1>3, <3>1, WayEnds
  <2> QED BY <1>1, <1>2, <2>1, <2>2, OnItsWay
<1>4. CASE ~IsSource(dictionary[o])
  <2>1. e.pc \in {"error", "synonym"} /\ (e.pc = "synonym" => depth < MaxSynonymDepth)
    BY <1>2, <1>4, AttachedAssumption DEF AfterFind, IsSource
  <2>2. Finds(s, n, e)
    <3>1. NeverChanged(Dependencies(s, n)) =>
             /\ Follow[MaxSynonymDepth + 1 - e.depth][e.at] = Follow[MaxSynonymDepth + 1][Place(s, n)]
             /\ \A k \in 0 .. MaxSynonymDepth + 1 - e.depth : Follow[k][e.at] \in Dependencies(s, n)
      BY <1>2 DEF GoesOn
    <3> QED BY <2>1, <3>1 DEF Finds
  <2> QED BY <1>1, <1>2, <2>1, <2>2, OnItsWay
<1> QED BY <1>3, <1>4

(* What a description has at one of its queries for a name. *)
LEMMA AtAQuery ==
  ASSUME RInv, NEW t \in Threads, describing[t].pc \in Finding
  PROVE  /\ local[t].schema \in Owners /\ Head(local[t].todo) \in Names
         /\ <<local[t].schema, Head(local[t].todo)>> \in Cells /\ <<Public, Head(local[t].todo)>> \in Cells
         /\ describing[t].at \in Cells /\ describing[t].depth \in 0 .. MaxSynonymDepth
         /\ dictionary \in [Cells -> Object \cup {Absent}] /\ PastInv /\ Shapes
         /\ CallInv(t) /\ FindInv(t) /\ WayInv(t) /\ Finds(local[t].schema, Head(local[t].todo), describing[t])
<1>1. CallInv(t) /\ FindInv(t) /\ WayInv(t) /\ PastInv /\ Shapes /\ dictionary \in [Cells -> Object \cup {Absent}]
  BY TypesAreShapes DEF RInv, IInv, TypeOK
<1>2. local[t].schema \in Owners /\ local[t].todo \in Seq(Names) /\ local[t].todo # <<>>
  BY <1>1 DEF CallInv, Calling
<1>3. Head(local[t].todo) \in Names
  BY <1>2
<1> QED BY <1>1, <1>2, <1>3, NamesArePlaces DEF FindInv, WayInv

(* What is found is the name's own object, unless that is a synonym or absent. *)
LEMMA FoundIsOwnOrOther ==
  ASSUME NEW s, NEW n, NEW o, OnTheWay(s, n, o) PROVE OwnOrOther(s, n, o)
BY DEF OnTheWay, OwnOrOther

(* Nothing is asked of a description that is of no name. *)
LEMMA NoWay == ASSUME NEW t \in Threads, describing'[t].pc \notin Finding PROVE WayInv(t)'
BY DEF WayInv

(* A description that goes on with what it has. *)
LEMMA GoesWithAll ==
  ASSUME Shapes, NEW t \in Threads, NEW pc, Goes(t, pc)
  PROVE  LET d == describing[t]
             e == describing'[t]
         IN /\ e.pc = pc /\ e.at = d.at /\ e.depth = d.depth /\ e.public_allowed = d.public_allowed
            /\ e.kind = d.kind /\ e.columns = d.columns /\ e.table = d.table
BY DEF Goes, Shapes, NotDescribing

(* A description that finds nothing, where the name leads to nothing. *)
LEMMA ToNotFound ==
  ASSUME RInv, [Next]_vars, NEW t \in Threads, UNCHANGED local, describing[t].pc \in Finding, Goes(t, "not_found"),
         NeverChanged(Dependencies(local[t].schema, Head(local[t].todo))) =>
           ~IsSource(ObjectOf(local[t].schema, Head(local[t].todo)))
  PROVE  WayInv(t)'
<1>0. PICK s, n : s = local[t].schema /\ n = Head(local[t].todo)
  OBVIOUS
<1>1. PICK e : e = describing'[t]
  OBVIOUS
<1>2. e.pc = "not_found" /\ e.at = describing[t].at /\ e.depth = describing[t].depth
  BY <1>1, AtAQuery, GoesWithAll
<1>3. Finds(s, n, e)
  BY <1>0, <1>2 DEF Finds
<1> QED BY <1>0, <1>1, <1>2, <1>3, AtAQuery, OnItsWay

(* The first query of a place: an object, a synonym, nothing. *)
LEMMA FindObjectTypeOnTheWay ==
  ASSUME RInv, [Next]_vars, NEW t \in Threads, UNCHANGED local, FindObjectType(t)
  PROVE  WayInv(t)'
<1> DEFINE d == describing[t]
           s == local[t].schema
           n == Head(local[t].todo)
<1>0. d.pc = "find" /\ d.pc \in Finding
  BY DEF FindObjectType, Describing, Finding
<1>1. /\ s \in Owners /\ n \in Names /\ <<s, n>> \in Cells /\ <<Public, n>> \in Cells
      /\ d.at \in Cells /\ d.depth \in 0 .. MaxSynonymDepth
      /\ dictionary \in [Cells -> Object \cup {Absent}] /\ Shapes
      /\ FindInv(t) /\ WayInv(t) /\ Finds(s, n, d)
  BY <1>0, AtAQuery
<1>2. /\ d.table = Absent /\ d.columns = Absent
      /\ (d.public_allowed => d.at = <<s, n>> /\ s = CurrentSchema /\ d.depth = 0)
      /\ (~d.public_allowed => OnTheWay(s, n, d.at))
  BY <1>0, <1>1 DEF FindInv, WayInv
<1>3. ~d.public_allowed => GoesOn(s, n, d.depth, d.at)
  <2> SUFFICES ASSUME ~d.public_allowed, NeverChanged(Dependencies(s, n))
               PROVE  /\ Follow[MaxSynonymDepth + 1 - d.depth][d.at] = Follow[MaxSynonymDepth + 1][Place(s, n)]
                      /\ \A k \in 0 .. MaxSynonymDepth + 1 - d.depth : Follow[k][d.at] \in Dependencies(s, n)
    BY DEF GoesOn
  <2>1. PICK x : x = d
    OBVIOUS
  <2>2. Finds(s, n, x) /\ x.pc = "find" /\ ~x.public_allowed
    BY <1>0, <1>1, <2>1
  <2>3. Follow[MaxSynonymDepth + 1 - x.depth][x.at] = Follow[MaxSynonymDepth + 1][Place(s, n)]
    BY <2>2 DEF Finds
  <2>4. \A k \in 0 .. MaxSynonymDepth + 1 - x.depth : Follow[k][x.at] \in Dependencies(s, n)
    BY <2>2 DEF Finds
  <2> QED BY <2>1, <2>3, <2>4
<1> HIDE DEF s, n
<1>4. CASE dictionary[d.at] # Absent /\ Found(t, d.at)
  <2>1. GoesOn(s, n, d.depth, d.at) /\ OwnOrOther(s, n, d.at)
    <3>1. CASE d.public_allowed
      <4>1. d.at = Place(s, n) /\ d.depth = 0
        BY <1>2, <1>4, <3>1 DEF Place
      <4> QED BY <1>1, <1>2, <3>1, <4>1, WayStarts DEF OwnOrOther
    <3>2. CASE ~d.public_allowed
      BY <1>2, <1>3, <3>2, FoundIsOwnOrOther
    <3> QED BY <3>1, <3>2
  <2> QED BY <1>1, <1>2, <1>4, <2>1, FoundOnTheWay DEF s, n
<1>5. CASE dictionary[d.at] = Absent /\ d.public_allowed /\ Goes(t, "public")
  <2>1. PICK e : e = describing'[t]
    OBVIOUS
  <2>2. e.pc = "public" /\ e.at = d.at /\ e.depth = 0
    BY <1>1, <1>2, <1>5, <2>1, GoesWithAll
  <2>3. Finds(s, n, e)
    BY <2>2 DEF Finds
  <2> QED BY <1>1, <1>2, <1>5, <2>1, <2>2, <2>3, OnItsWay DEF s, n
<1>6. CASE dictionary[d.at] = Absent /\ ~d.public_allowed /\ Goes(t, "not_found")
  <2>1. NeverChanged(Dependencies(s, n)) => ~IsSource(ObjectOf(s, n))
    <3> SUFFICES ASSUME NeverChanged(Dependencies(s, n)) PROVE ~IsSource(ObjectOf(s, n))
      OBVIOUS
    <3>1. ObjectOf(s, n) = dictionary[d.at]
      BY <1>1, <1>3, <1>6, WayEnds
    <3> QED BY <1>6, <3>1 DEF IsSource
  <2> QED BY <1>0, <1>6, <2>1, ToNotFound DEF s, n
<1> QED BY <1>4, <1>5, <1>6 DEF FindObjectType

(* The query for a public synonym: the name's place was that. *)
LEMMA FindPublicSynonymOnTheWay ==
  ASSUME RInv, [Next]_vars, NEW t \in Threads, UNCHANGED local, FindPublicSynonym(t)
  PROVE  WayInv(t)'
<1> DEFINE d == describing[t]
           s == local[t].schema
           n == Head(local[t].todo)
           p == <<Public, n>>
<1>0. d.pc = "public" /\ d.pc \in Finding
  BY DEF FindPublicSynonym, Describing, Finding
<1>1. /\ s \in Owners /\ n \in Names /\ <<s, n>> \in Cells /\ <<Public, n>> \in Cells
      /\ d.at \in Cells /\ d.depth \in 0 .. MaxSynonymDepth
      /\ dictionary \in [Cells -> Object \cup {Absent}] /\ Shapes
      /\ FindInv(t) /\ WayInv(t) /\ Finds(s, n, d)
  BY <1>0, AtAQuery
<1>2. d.table = Absent /\ d.at = <<s, n>> /\ s = CurrentSchema /\ Absent \in past[<<s, n>>] /\ d.depth = 0
  BY <1>0, <1>1 DEF FindInv, WayInv
<1>3. NeverChanged(Dependencies(s, n)) => dictionary[<<s, n>>] = Absent
  BY <1>1, <1>2, DependenciesArePlaces DEF NeverChanged
<1> HIDE DEF s, n
<1>4. <<Public, d.at[2]>> = p
  BY <1>2
<1>5. CASE dictionary[p] # Absent /\ Found(t, p)
  <2>1. NeverChanged(Dependencies(s, n)) => Place(s, n) = p
    BY <1>2, <1>3, <1>5 DEF Place
  <2>2. GoesOn(s, n, d.depth, p)
    BY <1>1, <1>2, <2>1, WayStarts DEF GoesOn
  <2>3. OwnOrOther(s, n, p)
    BY <1>2 DEF OwnOrOther
  <2> QED BY <1>1, <1>2, <1>5, <2>2, <2>3, FoundOnTheWay DEF s, n
<1>6. CASE dictionary[p] = Absent /\ Goes(t, "not_found")
  <2>1. NeverChanged(Dependencies(s, n)) => ~IsSource(ObjectOf(s, n))
    <3> SUFFICES ASSUME NeverChanged(Dependencies(s, n)) PROVE ~IsSource(ObjectOf(s, n))
      OBVIOUS
    <3>1. Place(s, n) = <<s, n>>
      BY <1>6 DEF Place
    <3>2. GoesOn(s, n, 0, <<s, n>>)
      BY <1>1, <3>1, WayStarts
    <3>3. 0 \in 0 .. MaxSynonymDepth
      BY AttachedAssumption
    <3>4. ObjectOf(s, n) = dictionary[<<s, n>>]
      BY <1>1, <1>3, <3>2, <3>3, WayEnds
    <3> QED BY <1>3, <3>4 DEF IsSource
  <2> QED BY <1>0, <1>6, <2>1, ToNotFound DEF s, n
<1> QED BY <1>4, <1>5, <1>6 DEF FindPublicSynonym

(* The query of a synonym: one more of at most MaxSynonymDepth. *)
LEMMA ReadSynonymOnTheWay ==
  ASSUME RInv, [Next]_vars, NEW t \in Threads, UNCHANGED local, ReadSynonym(t)
  PROVE  WayInv(t)'
<1> DEFINE d == describing[t]
           s == local[t].schema
           n == Head(local[t].todo)
           o == dictionary[d.at]
<1>0. d.pc = "synonym" /\ d.pc \in Finding
  BY DEF ReadSynonym, Describing, Finding
<1>1. /\ s \in Owners /\ n \in Names /\ <<s, n>> \in Cells /\ <<Public, n>> \in Cells
      /\ d.at \in Cells /\ d.depth \in 0 .. MaxSynonymDepth
      /\ dictionary \in [Cells -> Object \cup {Absent}] /\ Shapes /\ PastInv
      /\ FindInv(t) /\ WayInv(t) /\ Finds(s, n, d)
  BY <1>0, AtAQuery
<1>2. d.depth < MaxSynonymDepth /\ WasSynonym(d.at) /\ ~d.public_allowed
  BY <1>0, <1>1 DEF FindInv, WayInv
<1>3. GoesOn(s, n, d.depth, d.at)
  <2> SUFFICES ASSUME NeverChanged(Dependencies(s, n))
               PROVE  /\ Follow[MaxSynonymDepth + 1 - d.depth][d.at] = Follow[MaxSynonymDepth + 1][Place(s, n)]
                      /\ \A k \in 0 .. MaxSynonymDepth + 1 - d.depth : Follow[k][d.at] \in Dependencies(s, n)
    BY DEF GoesOn
  <2>1. PICK x : x = d
    OBVIOUS
  <2>2. Finds(s, n, x) /\ x.pc = "synonym" /\ ~x.public_allowed
    BY <1>0, <1>1, <1>2, <2>1
  <2>3. Follow[MaxSynonymDepth + 1 - x.depth][x.at] = Follow[MaxSynonymDepth + 1][Place(s, n)]
    BY <2>2 DEF Finds
  <2>4. \A k \in 0 .. MaxSynonymDepth + 1 - x.depth : Follow[k][x.at] \in Dependencies(s, n)
    BY <2>2 DEF Finds
  <2> QED BY <2>1, <2>3, <2>4
<1> HIDE DEF s, n
<1>4. CASE (o = Absent \/ IsSource(o)) /\ Goes(t, "not_found")
  <2>1. ~NeverChanged(Dependencies(s, n))
    <3> SUFFICES ASSUME NeverChanged(Dependencies(s, n)) PROVE FALSE
      OBVIOUS
    <3>1. d.at \in Dependencies(s, n)
      <4>1. 0 \in 0 .. MaxSynonymDepth + 1 - d.depth
        BY <1>1, AttachedAssumption
      <4> QED BY <1>1, <1>3, <4>1, FollowEquations DEF GoesOn
    <3>2. past[d.at] = {o}
      BY <3>1 DEF NeverChanged
    <3>3. Absent \in past[d.at]
      BY <1>1, <1>2, <1>4, SynonymWasDropped
    <3> QED BY <1>2, <3>2, <3>3 DEF WasSynonym, SeenAs
  <2> QED BY <1>0, <1>4, <2>1, ToNotFound DEF s, n
<1>5. CASE o # Absent /\ o.kind = "link" /\ Goes(t, "error")
  <2>1. describing'[t].pc = "error"
    BY <1>1, <1>5, GoesWithAll
  <2> QED BY <2>1, NoWay DEF Finding
<1>6. CASE /\ o # Absent /\ o.kind = "synonym"
           /\ describing' = [describing EXCEPT ![t].at = o.to, ![t].depth = Deeper(d), ![t].pc = "find"]
  <2>1. PICK e : e = describing'[t]
    OBVIOUS
  <2>2. /\ e.pc = "find" /\ e.at = o.to /\ e.depth = d.depth + 1 /\ e.public_allowed = d.public_allowed
    BY <1>1, <1>6, <2>1 DEF Shapes, NotDescribing, Deeper
  <2>3. o.to \in Cells
    BY <1>1, <1>6 DEF Object, Tables
  <2>4. e.depth \in 0 .. MaxSynonymDepth /\ ~e.public_allowed
    BY <1>1, <1>2, <2>2, AttachedAssumption
  <2>5. GoesOn(s, n, e.depth, e.at)
    <3> SUFFICES ASSUME NeverChanged(Dependencies(s, n))
                 PROVE  /\ Follow[MaxSynonymDepth + 1 - e.depth][e.at] = Follow[MaxSynonymDepth + 1][Place(s, n)]
                        /\ \A k \in 0 .. MaxSynonymDepth + 1 - e.depth : Follow[k][e.at] \in Dependencies(s, n)
      BY DEF GoesOn
    <3>1. /\ Follow[MaxSynonymDepth + 1 - d.depth][d.at] = Follow[MaxSynonymDepth + 1][Place(s, n)]
          /\ \A k \in 0 .. MaxSynonymDepth + 1 - d.depth : Follow[k][d.at] \in Dependencies(s, n)
      BY <1>3 DEF GoesOn
    <3>2. \A k \in 1 .. MaxSynonymDepth + 1 : Follow[k][d.at] = Follow[k - 1][e.at]
      BY <1>1, <1>6, <2>2, FollowEquations
    <3>3. Follow[MaxSynonymDepth + 1 - e.depth][e.at] = Follow[MaxSynonymDepth + 1][Place(s, n)]
      <4>1. PICK i, j : i = MaxSynonymDepth + 1 - d.depth /\ j = MaxSynonymDepth + 1 - e.depth
        OBVIOUS
      <4>2. i \in 1 .. MaxSynonymDepth + 1 /\ i - 1 = j
        BY <1>1, <2>2, <4>1, AttachedAssumption
      <4>3. Follow[i][d.at] = Follow[i - 1][e.at]
        BY <3>2, <4>2
      <4>4. Follow[i][d.at] = Follow[MaxSynonymDepth + 1][Place(s, n)]
        BY <3>1, <4>1
      <4>5. Follow[j][e.at] = Follow[MaxSynonymDepth + 1][Place(s, n)]
        BY <4>2, <4>3, <4>4
      <4> QED BY <4>1, <4>5
    <3>4. ASSUME NEW k \in 0 .. MaxSynonymDepth + 1 - e.depth PROVE Follow[k][e.at] \in Dependencies(s, n)
      <4>1. k + 1 \in 1 .. MaxSynonymDepth + 1 /\ k + 1 \in 0 .. MaxSynonymDepth + 1 - d.depth /\ k + 1 - 1 = k
        BY <1>1, <2>2, AttachedAssumption
      <4> QED BY <3>1, <3>2, <4>1
    <3> QED BY <3>3, <3>4
  <2>6. Finds(s, n, e)
    BY <2>2, <2>5 DEF Finds, GoesOn
  <2> QED BY <1>1, <2>1, <2>2, <2>3, <2>4, <2>6, OnItsWay DEF s, n
<1> QED BY <1>4, <1>5, <1>6 DEF ReadSynonym

(* The queries of the columns and of the table that was found. *)
LEMMA DetailsOnTheWay ==
  ASSUME RInv, [Next]_vars, NEW t \in Threads, UNCHANGED local, ReadColumns(t) \/ ReadTable(t)
  PROVE  WayInv(t)'
<1> DEFINE d == describing[t]
           s == local[t].schema
           n == Head(local[t].todo)
           o == dictionary[d.at]
<1>0. d.pc \in {"columns", "table"} /\ d.pc \in Finding
  BY DEF ReadColumns, ReadTable, Describing, Finding
<1>1. /\ s \in Owners /\ n \in Names /\ d.at \in Cells /\ d.depth \in 0 .. MaxSynonymDepth
      /\ Shapes /\ WayInv(t) /\ Finds(s, n, d)
  BY <1>0, AtAQuery
<1>2. d.table = Absent /\ OwnOrOther(s, n, d.at)
  BY <1>0, <1>1 DEF WayInv
<1>3. NeverChanged(Dependencies(s, n)) =>
        /\ d.at = Follow[MaxSynonymDepth + 1][Place(s, n)] /\ IsSource(o) /\ d.kind = o.kind
        /\ d.pc = "table" => d.columns = o.version /\ d.kind # "view"
  BY <1>0, <1>1 DEF Finds
<1>4. PICK e : e = describing'[t]
  OBVIOUS
<1> HIDE DEF s, n
<1>5. CASE ReadColumns(t)
  <2>1. /\ e.at = d.at /\ e.kind = d.kind /\ e.depth = d.depth /\ e.table = d.table
        /\ e.pc = (IF d.kind = "view" THEN "described" ELSE "table")
        /\ e.columns = (IF IsSource(o) THEN o.version ELSE Absent)
    BY <1>1, <1>4, <1>5 DEF ReadColumns, Shapes, NotDescribing
  <2>2. NeverChanged(Dependencies(s, n)) =>
          /\ e.at = Follow[MaxSynonymDepth + 1][Place(s, n)] /\ IsSource(dictionary[e.at]) /\ e.kind = dictionary[e.at].kind
          /\ e.columns = dictionary[e.at].version /\ (e.pc = "table" => e.kind # "view")
          /\ e.pc = "described" => e.table = IF IsTable(dictionary[e.at]) THEN dictionary[e.at].version ELSE Absent
    BY <1>2, <1>3, <2>1 DEF IsTable, Tables
  <2>3. e.pc \in {"table", "described"}
    BY <2>1
  <2>4. Finds(s, n, e)
    BY <2>2, <2>3 DEF Finds
  <2> QED BY <1>1, <1>2, <1>4, <2>1, <2>3, <2>4, OnItsWay DEF s, n
<1>6. CASE ReadTable(t)
  <2>0. d.pc = "table"
    BY <1>6 DEF ReadTable, Describing
  <2>1. /\ e.at = d.at /\ e.kind = d.kind /\ e.depth = d.depth /\ e.columns = d.columns /\ e.pc = "described"
        /\ e.table = (IF IsTable(o) THEN o.version ELSE Absent)
    BY <1>1, <1>4, <1>6 DEF ReadTable, Shapes, NotDescribing
  <2>2. Finds(s, n, e)
    BY <1>3, <2>0, <2>1 DEF Finds
  <2> QED BY <1>1, <1>2, <1>4, <2>1, <2>2, OnItsWay DEF s, n
<1> QED BY <1>5, <1>6

(* DescribeSource starts at the name. *)
LEMMA DescribeSourceStarts ==
  ASSUME RInv, [Next]_vars, NEW t \in Threads, NEW s \in Owners, NEW n \in Names, DescribeSource(t, s, n),
         local'[t].schema = s, Head(local'[t].todo) = n
  PROVE  WayInv(t)'
<1>0. IInv /\ Shapes /\ dictionary \in [Cells -> Object \cup {Absent}]
  BY TypesAreShapes DEF RInv, IInv, TypeOK
<1>1. PICK e : e = describing'[t]
  OBVIOUS
<1>2. /\ e.pc = "find" /\ e.at = <<s, n>> /\ e.depth = 0 /\ e.public_allowed = (s = CurrentSchema)
  BY <1>0, <1>1 DEF DescribeSource, Shapes, NotDescribing
<1>3. Finds(s, n, e)
  <2>1. CASE s = CurrentSchema
    BY <1>2, <2>1 DEF Finds
  <2>2. CASE s # CurrentSchema
    <3>1. GoesOn(s, n, 0, <<s, n>>)
      <4>1. Place(s, n) = <<s, n>>
        BY <2>2 DEF Place
      <4> QED BY <1>0, <4>1, WayStarts
    <3> QED BY <1>2, <3>1 DEF Finds, GoesOn
  <2> QED BY <2>1, <2>2
<1>4. e.at \in Cells /\ e.depth \in 0 .. MaxSynonymDepth
  <2>1. <<s, n>> \in Cells
    BY NamesArePlaces
  <2>2. 0 \in 0 .. MaxSynonymDepth
    BY AttachedAssumption
  <2> QED BY <1>2, <2>1, <2>2
<1>5. Finds(s, n, e)'
  BY <1>0, <1>3, <1>4, FindsStays
<1>6. describing'[t] = e /\ local'[t].schema = s /\ Head(local'[t].todo) = n
  BY <1>1
<1> QED BY <1>2, <1>4, <1>5, <1>6 DEF WayInv

(* Nothing is listed by a description that is of no schema. *)
LEMMA NoSchema == ASSUME NEW t \in Threads, describing'[t].pc \notin Listing PROVE SchemaInv(t)'
BY DEF SchemaInv

(* One query of a listing, at the names that did not change. *)
LEMMA ListingIsRight ==
  ASSUME RInv, [Next]_vars, NEW t \in Threads, UNCHANGED local, ListObjects(t) \/ ListColumns(t) \/ ListTables(t)
  PROVE  SchemaInv(t)'
<1> DEFINE d == describing[t]
           o(n) == At(t, n)
<1>00. PICK s : s = local[t].schema
  OBVIOUS
<1>0. IInv /\ Shapes /\ CallInv(t) /\ ListInv(t) /\ SchemaInv(t)
  BY TypesAreShapes DEF RInv, IInv
<1>1. d.pc \in Listing /\ s \in Owners /\ d.at = <<s, Absent>>
  BY <1>00, <1>0 DEF ListObjects, ListColumns, ListTables, Describing, Listing, CallInv, Calling, SchemaInv
<1>2. \A n \in Names : o(n) = dictionary[<<s, n>>]
  BY <1>1 DEF At
<1>3. PICK e : e = describing'[t]
  OBVIOUS
<1>4. e.at = d.at /\ e.pc \in {"list_columns", "list_tables", "listed"}
  BY <1>0, <1>3 DEF ListObjects, ListColumns, ListTables, Shapes, NotDescribing
<1> HIDE DEF o
<1> SUFFICES ASSUME NEW n \in Names, NeverChanged({<<s, n>>})
             PROVE  /\ IsSource(o(n)) /\ ~IsRecycled(o(n)) => n \in DOMAIN e.listing
                    /\ n \in DOMAIN e.listing =>
                         /\ IsSource(o(n)) /\ (e.pc = "listed" => ~IsRecycled(o(n)))
                         /\ e.listing[n] =
                              [at |-> <<s, n>>, view |-> (o(n).kind = "view"),
                               columns |-> IF e.pc = "list_columns" THEN Absent ELSE o(n).version,
                               table |-> IF e.pc = "listed" /\ IsTable(o(n)) THEN o(n).version ELSE Absent]
  <2>1. \A n \in Names : Lists(s, n, e)
    BY <1>2 DEF Lists
  <2>2. \A n \in Names : Lists(s, n, e)'
    BY <1>0, <1>1, <2>1, ListsStays
  <2>3. describing'[t] = e /\ local'[t].schema = s
    BY <1>00, <1>3
  <2> QED BY <1>1, <1>4, <2>2, <2>3 DEF SchemaInv
<1>5. CASE ListObjects(t)
  <2> DEFINE found == {m \in Names : IsSource(o(m))}
  <2>1. /\ e.listing = [m \in found |-> [at |-> <<d.at[1], m>>, view |-> (o(m).kind = "view"), columns |-> Absent, table |-> Absent]]
        /\ e.pc = IF found = {} THEN "listed" ELSE "list_columns"
    BY <1>0, <1>3, <1>5 DEF ListObjects, Shapes, NotDescribing, o
  <2> QED BY <1>1, <2>1
<1>6. CASE ListColumns(t)
  <2>1. /\ e.listing = [m \in DOMAIN d.listing |-> [d.listing[m] EXCEPT !.columns = IF IsSource(o(m)) THEN o(m).version ELSE Absent]]
        /\ e.pc = "list_tables" /\ d.pc = "list_columns"
    BY <1>0, <1>3, <1>6 DEF ListColumns, Describing, Shapes, NotDescribing, o
  <2>2. /\ IsSource(o(n)) /\ ~IsRecycled(o(n)) => n \in DOMAIN d.listing
        /\ n \in DOMAIN d.listing =>
             /\ IsSource(o(n))
             /\ d.listing[n] = [at |-> <<s, n>>, view |-> (o(n).kind = "view"), columns |-> Absent, table |-> Absent]
    <3>1. Lists(s, n, d)
      BY <1>00, <1>0, <1>1, <2>1 DEF SchemaInv
    <3> QED BY <1>2, <2>1, <3>1 DEF Lists
  <2>3. n \in DOMAIN d.listing => e.listing[n] = [at |-> <<s, n>>, view |-> (o(n).kind = "view"), columns |-> o(n).version, table |-> Absent]
    BY <2>1, <2>2
  <2> QED BY <2>1, <2>2, <2>3
<1>7. CASE ListTables(t)
  <2> DEFINE kept == {m \in DOMAIN d.listing : ~InRecycleBin(t, m, d.listing[m])}
  <2>1. /\ e.listing = [m \in kept |-> [d.listing[m] EXCEPT !.table = IF ~d.listing[m].view /\ IsTable(o(m)) THEN o(m).version ELSE Absent]]
        /\ e.pc = "listed" /\ d.pc = "list_tables"
    BY <1>0, <1>3, <1>7 DEF ListTables, Describing, Shapes, NotDescribing, o
  <2>2. /\ IsSource(o(n)) /\ ~IsRecycled(o(n)) => n \in DOMAIN d.listing
        /\ n \in DOMAIN d.listing =>
             /\ IsSource(o(n))
             /\ d.listing[n] = [at |-> <<s, n>>, view |-> (o(n).kind = "view"), columns |-> o(n).version, table |-> Absent]
    <3>1. Lists(s, n, d)
      BY <1>00, <1>0, <1>1, <2>1 DEF SchemaInv
    <3> QED BY <1>2, <2>1, <3>1 DEF Lists
  <2>3. n \in DOMAIN d.listing => (InRecycleBin(t, n, d.listing[n]) <=> IsRecycled(o(n)))
    <3> SUFFICES ASSUME n \in DOMAIN d.listing PROVE InRecycleBin(t, n, d.listing[n]) <=> IsRecycled(o(n))
      OBVIOUS
    <3>1. IsSource(o(n)) /\ d.listing[n].view = (o(n).kind = "view")
      BY <2>2
    <3>2. d.listing[n].view <=> o(n).kind = "view"
      BY <3>1
    <3>3. InRecycleBin(t, n, d.listing[n]) <=> (~d.listing[n].view /\ IsTable(o(n)) /\ o(n).kind = "recycled")
      BY DEF InRecycleBin, o
    <3> QED BY <3>1, <3>2, <3>3 DEF IsRecycled, IsTable, IsSource, Tables
  <2>4. n \in kept => e.listing[n] = [at |-> <<s, n>>, view |-> (o(n).kind = "view"), columns |-> o(n).version,
                                      table |-> IF IsTable(o(n)) THEN o(n).version ELSE Absent]
    <3> SUFFICES ASSUME n \in kept
                 PROVE  e.listing[n] = [at |-> <<s, n>>, view |-> (o(n).kind = "view"), columns |-> o(n).version,
                                      table |-> IF IsTable(o(n)) THEN o(n).version ELSE Absent]
      OBVIOUS
    <3>1. e.listing[n] = [d.listing[n] EXCEPT !.table = IF ~d.listing[n].view /\ IsTable(o(n)) THEN o(n).version ELSE Absent]
      BY <2>1
    <3>2. d.listing[n] = [at |-> <<s, n>>, view |-> (o(n).kind = "view"), columns |-> o(n).version, table |-> Absent]
      BY <2>2
    <3>3. d.listing[n].view <=> o(n).kind = "view"
      <4>1. d.listing[n].view = (o(n).kind = "view")
        BY <3>2
      <4> QED BY <4>1
    <3>4. (~d.listing[n].view /\ IsTable(o(n))) <=> IsTable(o(n))
      BY <3>3 DEF IsTable, Tables
    <3>5. e.listing[n] = [d.listing[n] EXCEPT !.table = IF IsTable(o(n)) THEN o(n).version ELSE Absent]
      BY <3>1, <3>4
    <3> QED BY <3>2, <3>5
  <2>5. DOMAIN e.listing = kept
    BY <2>1
  <2> QED BY <2>1, <2>2, <2>3, <2>4, <2>5
<1> QED BY <1>5, <1>6, <1>7

(* The description of a name that was found is right for it. *)
LEMMA DescribedIsRight ==
  ASSUME RInv, NEW t \in Threads, describing[t].pc = "described"
  PROVE  Right(local[t].schema, Head(local[t].todo), Description(t))
<1> DEFINE d == describing[t]
           s == local[t].schema
           n == Head(local[t].todo)
<1>1. Finds(s, n, d)
  BY AtAQuery DEF Finding
<1>2. SUFFICES ASSUME NeverChanged(Dependencies(s, n))
               PROVE  IsSource(ObjectOf(s, n)) /\ Description(t) = Exact(Follow[MaxSynonymDepth + 1][Place(s, n)])
  BY DEF Right
<1>3. PICK o : o = Follow[MaxSynonymDepth + 1][Place(s, n)]
  OBVIOUS
<1>4. /\ d.at = o /\ IsSource(dictionary[o]) /\ d.kind = dictionary[o].kind /\ d.columns = dictionary[o].version
      /\ d.table = IF IsTable(dictionary[o]) THEN dictionary[o].version ELSE Absent
  BY <1>1, <1>2, <1>3 DEF Finds
<1>5. IsSource(ObjectOf(s, n))
  BY <1>3, <1>4 DEF ObjectOf
<1>6. Description(t) = Exact(o)
  BY <1>4 DEF Description, Exact
<1> QED BY <1>3, <1>5, <1>6

(* A candidate is the name or, once that is missing, the upper-cased one; if  *)
(* it is missing too, the lookup goes on with what is left.                   *)
LEMMA CandidateInHand ==
  ASSUME RInv, NEW t \in Threads, local[t].pc \in {"check", "describe"}, local[t].todo # <<>>
  PROVE  LET s == local[t].schema
             n == asked[t][2]
             u == UpperName(n)
             m == Head(local[t].todo)
         IN /\ s \in Owners /\ s # Absent /\ n \in Names /\ u \in Names /\ m \in Names
            /\ asked[t] \in Requests /\ C!Upper(asked[t][1]) = C!Upper(s) /\ resolving[t].pc = "idle"
            /\ m = n \/ (m = u /\ Unresolved(s, n))
            /\ Unresolved(s, m) =>
                 \/ Tail(local[t].todo) = <<u>> /\ Unresolved(s, n)
                 \/ Tail(local[t].todo) = <<>> /\ Unresolved(s, n) /\ Unresolved(s, u)
<1> DEFINE s == local[t].schema
           n == asked[t][2]
           u == UpperName(n)
           todo == local[t].todo
<1>1. CallInv(t) /\ LookupInv(t)
  BY DEF RInv, IInv
<1>2. s \in Owners /\ s # Absent
  BY <1>1, AttachedAssumption DEF CallInv
<1>3. /\ asked[t] \in Requests /\ C!Upper(asked[t][1]) = C!Upper(s)
      /\ \/ todo = Candidates(n)
         \/ todo = <<u>> /\ Unresolved(s, n)
  BY <1>1, <1>2 DEF LookupInv, Looks
<1>4. n \in Names /\ u \in Names
  BY <1>3, AttachedAssumption
<1>5. resolving[t].pc = "idle"
  BY <1>1 DEF CallInv, Calling, C!At
<1>6. CASE todo = Candidates(n) /\ u = n
  <2>1. Head(todo) = n /\ Tail(todo) = <<>>
    BY <1>6 DEF Candidates
  <2> QED BY <1>2, <1>3, <1>4, <1>5, <1>6, <2>1
<1>7. CASE todo = Candidates(n) /\ u # n
  <2>1. Head(todo) = n /\ Tail(todo) = <<u>>
    BY <1>7 DEF Candidates
  <2> QED BY <1>2, <1>3, <1>4, <1>5, <2>1
<1>8. CASE todo = <<u>> /\ Unresolved(s, n)
  <2>1. Head(todo) = u /\ Tail(todo) = <<>>
    BY <1>8
  <2> QED BY <1>2, <1>3, <1>4, <1>5, <1>8, <2>1
<1> QED BY <1>3, <1>6, <1>7, <1>8

(* A lookup that goes on with what it may is known as it should be.           *)
LEMMA LooksOn ==
  ASSUME RInv, [Next]_vars, NEW t \in Threads, NEW l, l = local'[t], UNCHANGED <<resolving, asked>>,
         l.pc \in {"check", "describe"} => l.schema # Absent, Looks(l, resolving[t], asked[t])
  PROVE  LookupInv(t)'
<1>1. PICK r, a : r = resolving[t] /\ a = asked[t]
  OBVIOUS
<1>2. r = resolving'[t] /\ a = asked'[t]
  BY <1>1
<1>3. Looks(l, r, a)'
  BY <1>1, LooksStays DEF RInv
<1> QED BY <1>2, <1>3 DEF LookupInv

(* NextCandidate, when the one in hand is missing. *)
LEMMA NextLooksOn ==
  ASSUME RInv, [Next]_vars, NEW t \in Threads, local[t].pc \in {"check", "describe"}, local[t].todo # <<>>,
         NextCandidate(t), Unresolved(local[t].schema, Head(local[t].todo)), UNCHANGED <<resolving, asked>>
  PROVE  LookupInv(t)'
<1>0. Shapes
  BY TypesAreShapes DEF RInv, IInv
<1>1. PICK l : l = local'[t]
  OBVIOUS
<1>2. l.pc = "check" /\ l.schema = local[t].schema /\ l.todo = Tail(local[t].todo)
  BY <1>0, <1>1 DEF NextCandidate, Shapes, NoCall
<1>3. Looks(l, resolving[t], asked[t])
  BY <1>2, CandidateInHand DEF Looks
<1>4. l.schema # Absent
  BY <1>2, CandidateInHand
<1> QED BY <1>1, <1>3, <1>4, LooksOn

(* Returns, with what is right for the candidate in hand. *)
LEMMA ReturnsRight ==
  ASSUME RInv, [Next]_vars, NEW t \in Threads, local[t].pc \in {"check", "describe"}, local[t].todo # <<>>,
         NEW e, Returns(t, e), Right(local[t].schema, Head(local[t].todo), e), UNCHANGED <<resolving, asked>>
  PROVE  LookupInv(t)'
<1>0. Shapes
  BY TypesAreShapes DEF RInv, IInv
<1>1. PICK l : l = local'[t]
  OBVIOUS
<1>2. l.pc = "answered" /\ l.schema = local[t].schema /\ l.answer = e
  BY <1>0, <1>1 DEF Returns, Shapes, NoCall
<1>3. Looks(l, resolving[t], asked[t])
  BY <1>2, CandidateInHand DEF Looks
<1> QED BY <1>1, <1>2, <1>3, LooksOn

(* A call that ends leaves nothing to know. *)
LEMMA NoLook ==
  ASSUME RInv, [Next]_vars, NEW t \in Threads, Throws(t), local[t].pc # "idle", UNCHANGED resolving
  PROVE  LookupInv(t)'
<1>0. Shapes /\ CallInv(t)
  BY TypesAreShapes DEF RInv, IInv
<1>1. local'[t].pc = "idle" /\ local'[t].schema = Absent
  BY <1>0 DEF Throws, Shapes, NoCall
<1>2. resolving'[t].pc = "idle"
  BY <1>0 DEF CallInv, C!At, Calling
<1> QED BY <1>1, <1>2 DEF LookupInv, Looks

(* A step of the connection itself: its lookup. *)
LEMMA EntryLooksOn ==
  ASSUME RInv, [Next]_vars, NEW t \in Threads, EntryStep(t), UNCHANGED <<resolving, asked>>
  PROVE  LookupInv(t)'
<1> DEFINE s == local[t].schema
           m == Head(local[t].todo)
<1>0. Shapes /\ CallInv(t) /\ LookupInv(t) /\ WayInv(t) /\ TablesInv /\ \A x \in Owners, y \in Names : EntryInv(x, y)
  BY TypesAreShapes DEF RInv, IInv
<1>1. ASSUME local[t].pc \in {"check", "describe"}, local[t].todo # <<>>
      PROVE  s \in Owners /\ m \in Names /\ EntryInv(s, m)
  BY <1>0, <1>1, CandidateInHand
<1>2. CASE CheckCache(t)
  <2>0. local[t].pc = "check" /\ local[t].todo # <<>>
    BY <1>2 DEF CheckCache, Calling
  <2>1. CASE tables[s][m] # Absent /\ Returns(t, tables[s][m])
    BY <1>1, <2>0, <2>1, ReturnsRight DEF EntryInv
  <2>2. CASE m \in missing[s] /\ NextCandidate(t)
    BY <1>1, <2>0, <2>2, NextLooksOn DEF EntryInv
  <2>3. CASE local' = [local EXCEPT ![t].pc = "describe"]
    <3>1. PICK l : l = local'[t]
      OBVIOUS
    <3>2. l.pc = "describe" /\ l.schema = s /\ l.todo = local[t].todo
      BY <1>0, <2>3, <3>1 DEF Shapes, NoCall
    <3>3. s \in Owners /\ s # Absent
      BY <2>0, CandidateInHand
    <3>4. Looks(l, resolving[t], asked[t])
      BY <1>0, <2>0, <3>2, <3>3 DEF LookupInv, Looks
    <3> QED BY <3>1, <3>2, <3>3, <3>4, LooksOn
  <2> QED BY <1>2, <2>1, <2>2, <2>3 DEF CheckCache
<1>3. CASE NotFound(t)
  <2>0. local[t].pc = "check" /\ local[t].todo = <<>> /\ Returns(t, Absent)
    BY <1>3 DEF NotFound, Calling
  <2>1. PICK l : l = local'[t]
    OBVIOUS
  <2>2. l.pc = "answered" /\ l.schema = s /\ l.answer = Absent
    BY <1>0, <2>0, <2>1 DEF Returns, Shapes, NoCall
  <2>3. Candidates(asked[t][2]) # <<>>
    BY DEF Candidates
  <2>4. s \in Owners /\ s # Absent
    BY <1>0, <2>0, AttachedAssumption DEF CallInv
  <2>5. Looks(l, resolving[t], asked[t])
    BY <1>0, <2>0, <2>2, <2>3, <2>4 DEF LookupInv, Looks
  <2> QED BY <2>1, <2>2, <2>5, LooksOn
<1>4. CASE AddMissing(t)
  <2>0. local[t].pc = "describe" /\ local[t].todo # <<>> /\ describing[t].pc = "not_found" /\ NextCandidate(t)
    BY <1>0, <1>4 DEF AddMissing, Calling, Describing, CallInv
  <2>1. Unresolved(s, m)
    BY <1>0, <2>0 DEF WayInv, Finding, Finds, Unresolved
  <2> QED BY <2>0, <2>1, NextLooksOn
<1>5. CASE AddFound(t)
  <2>0. local[t].pc = "describe" /\ local[t].todo # <<>> /\ describing[t].pc = "described"
    BY <1>0, <1>5 DEF AddFound, Calling, Describing, CallInv
  <2>1. PICK e : e = AddTable(s, m, Description(t))
    OBVIOUS
  <2>2. tables' = [tables EXCEPT ![s][m] = e] /\ Returns(t, tables'[s][m])
    BY <1>5, <2>1 DEF AddFound
  <2>3. tables'[s][m] = e
    BY <1>0, <1>1, <2>0, <2>2 DEF TablesInv
  <2>4. Right(s, m, e)
    <3>1. CASE tables[s][m] = Absent
      BY <2>0, <2>1, <3>1, DescribedIsRight DEF AddTable
    <3>2. CASE tables[s][m] # Absent
      BY <1>1, <2>0, <2>1, <3>2 DEF AddTable, EntryInv
    <3> QED BY <3>1, <3>2
  <2>5. Returns(t, e)
    BY <2>2, <2>3
  <2> QED BY <2>0, <2>4, <2>5, ReturnsRight
<1>6. CASE LookupThrows(t) \/ ScanWarns(t) \/ LoadTables(t)
  BY <1>6, NoLook DEF LookupThrows, ScanWarns, LoadTables, Calling
<1> QED BY <1>2, <1>3, <1>4, <1>5, <1>6 DEF EntryStep

(* A step of the connection itself, of any kind: its lookup. *)
LEMMA MoverLooks ==
  ASSUME RInv, [Next]_vars, NEW t \in Threads, Moves(t)
  PROVE  LookupInv(t)'
<1>0. IInv /\ Shapes /\ C!TypeOK /\ CallInv(t) /\ LookupInv(t)
  BY TypesAreShapes DEF RInv, IInv, TypeOK
<1>1. CASE C!Step(t) /\ UNCHANGED <<dictionary, past, attach, asked, calls>>
  <2>1. ~C!At(t, "idle") /\ UNCHANGED <<local, asked>>
    BY <1>1 DEF C!Step, C!QueryUsers, C!QueryUsersFails, C!StoreUsers, C!ResolveUser, C!GetSchemaEntry, C!At, attach
  <2>2. local'[t].pc = "idle" /\ local'[t].schema = Absent /\ resolving[t].name = asked[t][1]
    BY <1>0, <2>1 DEF CallInv, LookupInv, Looks, Calling, C!At
  <2>3. /\ resolving'[t].pc # "idle" => resolving'[t].name = resolving[t].name
        /\ resolving'[t].pc \in {"entry", "answered"} => resolving'[t].answer \in {resolving[t].name, C!Upper(resolving[t].name), Absent}
    <3> USE <1>0 DEF Shapes, C!Idle, C!At
    <3>1. CASE C!QueryUsers(t)
      BY <3>1 DEF C!QueryUsers
    <3>2. CASE C!QueryUsersFails(t)
      BY <3>2 DEF C!QueryUsersFails
    <3>3. CASE C!StoreUsers(t)
      BY <3>3 DEF C!StoreUsers
    <3>4. CASE C!ResolveUser(t)
      BY <3>4 DEF C!ResolveUser, C!Resolved
    <3>5. CASE C!GetSchemaEntry(t)
      BY <3>5 DEF C!GetSchemaEntry, LookupInv, Looks
    <3> QED BY <1>1, <3>1, <3>2, <3>3, <3>4, <3>5 DEF C!Step
  <2> QED BY <2>1, <2>2, <2>3 DEF LookupInv, Looks
<1>2. CASE InSchema(t)
  <2> DEFINE s == resolving[t].answer
  <2>0. /\ resolving[t].pc = "answered" /\ resolving'[t].pc = "idle" /\ UNCHANGED asked
        /\ local[t].pc = "idle" /\ local[t].schema = Absent
    BY <1>0, <1>2 DEF InSchema, C!Answered, C!At, C!Idle, Shapes, CallInv, Calling, LookupInv, Looks
  <2>1. CASE s = Absent
    <3>1. local'[t].pc = "answered" /\ local'[t].schema = Absent
      BY <1>0, <1>2, <2>0, <2>1 DEF InSchema, Shapes, NoCall
    <3> QED BY <2>0, <3>1 DEF LookupInv, Looks
  <2>2. CASE s # Absent
    <3>1. local' = [local EXCEPT ![t] = [NoCall EXCEPT !.pc = "check", !.schema = s, !.name = asked[t][2],
                      !.todo = Candidates(asked[t][2])]]
      BY <1>2, <2>2 DEF InSchema, LookupEntry
    <3>2. local'[t] = [NoCall EXCEPT !.pc = "check", !.schema = s, !.name = asked[t][2], !.todo = Candidates(asked[t][2])]
      BY <1>0, <3>1 DEF Shapes
    <3>3. local'[t].pc = "check" /\ local'[t].schema = s /\ local'[t].todo = Candidates(asked[t][2])
      BY <3>2 DEF NoCall
    <3>4. s \in Owners /\ asked[t] \in Requests /\ s \in {asked[t][1], C!Upper(asked[t][1])}
      BY <1>0, <2>0, <2>2 DEF C!TypeOK, CallInv, C!At, LookupInv, Looks
    <3>5. C!Upper(asked[t][1]) = C!Upper(s)
      <4>1. \A u : C!Upper(C!Upper(u)) = C!Upper(u)
        BY DEF C!Upper
      <4> QED BY <3>4, <4>1
    <3> QED BY <2>0, <3>3, <3>4, <3>5 DEF LookupInv, Looks
  <2> QED BY <2>1, <2>2
<1>3. CASE (DescribeStep(t) \/ QueryFails(t)) /\ UNCHANGED <<catalog, entries, local, asked, calls>>
  BY <1>3, LookupKept DEF catalog
<1>4. CASE EntryStep(t) /\ UNCHANGED <<catalog, asked, calls>>
  BY <1>4, EntryLooksOn DEF catalog
<1>5. CASE Return(t)
  BY <1>5, NoLook DEF Return, Calling, catalog
<1>6. ASSUME NEW request \in Requests, Lookup(t, request) PROVE LookupInv(t)'
  <2>1. /\ resolving'[t].name = request[1] /\ resolving'[t].pc \in {"resolve", "users"} /\ asked'[t] = request
        /\ UNCHANGED local /\ local[t].pc = "idle"
    BY <1>0, <1>6 DEF Lookup, Call, Free, Calling, C!LookupSchema, C!Idle, Shapes, attach
  <2>2. local[t].schema = Absent
    BY <1>0, <2>1 DEF LookupInv, Looks
  <2> QED BY <2>1, <2>2 DEF LookupInv, Looks
<1>7. CASE List(t)
  <2>1. CASE C!ScanSchemas(t) /\ UNCHANGED <<dictionary, past, attach, asked, calls>>
    BY <2>1, LookupKept DEF C!ScanSchemas, attach
  <2>2. ASSUME Call(t), NEW s \in schemas, Scan(t, s), UNCHANGED <<catalog, asked>> PROVE LookupInv(t)'
    <3>1. local'[t].pc = "load" /\ resolving'[t].pc = "idle"
      BY <1>0, <2>2 DEF Call, Free, C!At, Scan, Shapes, NoCall, catalog
    <3> QED BY <3>1 DEF LookupInv, Looks
  <2> QED BY <1>7, <2>1, <2>2 DEF List
<1> QED BY <1>1, <1>2, <1>3, <1>4, <1>5, <1>6, <1>7 DEF Moves, Step

(* A step of the connection itself: its description or its listing. *)
LEMMA MoverDescribes ==
  ASSUME RInv, [Next]_vars, NEW t \in Threads, Moves(t)
  PROVE  WayInv(t)' /\ SchemaInv(t)'
<1>0. IInv /\ Shapes /\ CallInv(t) /\ WayInv(t) /\ SchemaInv(t)
  BY TypesAreShapes DEF RInv, IInv
<1>1. ASSUME describing'[t].pc \notin Finding \cup Listing PROVE WayInv(t)' /\ SchemaInv(t)'
  BY <1>1, NoWay, NoSchema
<1>2. ASSUME local[t].pc \notin {"describe", "load"}, UNCHANGED describing PROVE WayInv(t)' /\ SchemaInv(t)'
  BY <1>0, <1>1, <1>2 DEF CallInv, Calling
<1>3. ASSUME NotDescribingAnyMore(t) PROVE WayInv(t)' /\ SchemaInv(t)'
  BY <1>0, <1>1, <1>3 DEF NotDescribingAnyMore, Shapes, NotDescribing, Finding, Listing
<1>4. CASE C!Step(t) /\ UNCHANGED <<dictionary, past, attach, asked, calls>>
  <2>1. ~C!At(t, "idle") /\ UNCHANGED describing
    BY <1>4 DEF C!Step, C!QueryUsers, C!QueryUsersFails, C!StoreUsers, C!ResolveUser, C!GetSchemaEntry, C!At, attach
  <2> QED BY <1>0, <1>2, <2>1 DEF CallInv, Calling
<1>5. CASE InSchema(t)
  <2>1. ~C!At(t, "idle") /\ UNCHANGED describing
    BY <1>5 DEF InSchema, C!Answered, C!At, LookupEntry
  <2> QED BY <1>0, <1>2, <2>1 DEF CallInv, Calling
<1>6. CASE QueryFails(t)
  BY <1>0, <1>1, <1>6 DEF QueryFails, Goes, Shapes, NotDescribing, Finding, Listing
<1>7. CASE DescribeStep(t) /\ UNCHANGED <<catalog, entries, local, asked, calls>>
  <2>1. CASE FindObjectType(t) \/ FindPublicSynonym(t) \/ ReadSynonym(t) \/ ReadColumns(t) \/ ReadTable(t)
    <3>1. WayInv(t)'
      BY <1>7, <2>1, FindObjectTypeOnTheWay, FindPublicSynonymOnTheWay, ReadSynonymOnTheWay, DetailsOnTheWay
    <3>2. describing'[t].pc \notin Listing
      <4>1. CASE FindObjectType(t) \/ FindPublicSynonym(t)
        BY <1>0, <4>1 DEF FindObjectType, FindPublicSynonym, Found, Goes, AfterFind, Shapes, NotDescribing, Listing
      <4>2. CASE ReadSynonym(t)
        BY <1>0, <4>2 DEF ReadSynonym, Goes, Shapes, NotDescribing, Listing
      <4>3. CASE ReadColumns(t) \/ ReadTable(t)
        BY <1>0, <4>3 DEF ReadColumns, ReadTable, Goes, Shapes, NotDescribing, Listing
      <4> QED BY <2>1, <4>1, <4>2, <4>3
    <3> QED BY <3>1, <3>2, NoSchema
  <2>2. CASE ListObjects(t) \/ ListColumns(t) \/ ListTables(t)
    <3>1. describing'[t].pc \notin Finding
      BY <1>0, <2>2 DEF ListObjects, ListColumns, ListTables, Shapes, NotDescribing, Finding
    <3> QED BY <1>7, <2>2, <3>1, NoWay, ListingIsRight
  <2> QED BY <1>7, <2>1, <2>2 DEF DescribeStep
<1>8. CASE CheckCache(t)
  <2> DEFINE s == local[t].schema
             n == Head(local[t].todo)
  <2>0. local[t].pc = "check" /\ local[t].todo # <<>>
    BY <1>8 DEF CheckCache, Calling
  <2>1. CASE UNCHANGED describing
    BY <1>2, <2>0, <2>1
  <2>2. CASE local' = [local EXCEPT ![t].pc = "describe"] /\ DescribeSource(t, s, n)
    <3>1. local'[t].schema = s /\ Head(local'[t].todo) = n /\ describing'[t].pc = "find"
      BY <1>0, <2>2 DEF DescribeSource, Shapes, NotDescribing, NoCall
    <3>2. s \in Owners /\ n \in Names
      BY <2>0, CandidateInHand
    <3>3. WayInv(t)'
      BY <2>2, <3>1, <3>2, DescribeSourceStarts
    <3> QED BY <3>1, <3>3, NoSchema DEF Listing
  <2> QED BY <1>8, <2>1, <2>2 DEF CheckCache
<1>9. CASE EntryStep(t) /\ ~CheckCache(t)
  BY <1>2, <1>3, <1>9 DEF EntryStep, NotFound, AddMissing, AddFound, LookupThrows, ScanWarns, LoadTables, Calling
<1>10. CASE Return(t)
  BY <1>2, <1>10 DEF Return, Calling
<1>11. ASSUME NEW request \in Requests, Lookup(t, request) PROVE WayInv(t)' /\ SchemaInv(t)'
  BY <1>2, <1>11 DEF Lookup, Call, Free, Calling, attach
<1>12. CASE List(t)
  <2>1. CASE C!ScanSchemas(t) /\ UNCHANGED <<dictionary, past, attach, asked, calls>>
    <3>1. UNCHANGED <<local, describing, resolving, asked>>
      BY <2>1 DEF C!ScanSchemas, attach
    <3> QED BY <3>1, OthersKeepTheirWay DEF Same
  <2>2. ASSUME NEW s \in schemas, Scan(t, s) PROVE WayInv(t)' /\ SchemaInv(t)'
    <3>1. describing'[t].pc = "list" /\ describing'[t].at = <<s, Absent>> /\ local'[t].schema = s
      BY <1>0, <2>2 DEF Scan, DescribeSchema, Shapes, NotDescribing, NoCall
    <3>2. SchemaInv(t)'
      BY <3>1 DEF SchemaInv
    <3> QED BY <3>1, <3>2, NoWay DEF Finding
  <2> QED BY <1>12, <2>1, <2>2 DEF List
<1> QED BY <1>4, <1>5, <1>6, <1>7, <1>8, <1>9, <1>10, <1>11, <1>12 DEF Moves, Step

(* Which step adds an entry, and for what. *)
LEMMA EntryAdded ==
  ASSUME RInv, [Next]_vars, NEW s \in Owners, NEW n \in Names, tables'[s][n] # tables[s][n]
  PROVE  /\ tables[s][n] = Absent
         /\ \/ \E t \in Threads : /\ AddFound(t) /\ s = local[t].schema /\ n = Head(local[t].todo)
                                  /\ tables'[s][n] = Description(t)
            \/ \E t \in Threads : /\ LoadTables(t) /\ s = local[t].schema /\ n \in DOMAIN describing[t].listing
                                  /\ tables'[s][n] = describing[t].listing[n]
<1>1. TablesInv
  BY DEF RInv, IInv
<1>2. tables[s][n] = Absent
  BY <1>1, TablesStep DEF EntriesKept
<1>3. ASSUME NEW t \in Threads, AddFound(t)
      PROVE  s = local[t].schema /\ n = Head(local[t].todo) /\ tables'[s][n] = Description(t)
  <2> DEFINE x == local[t].schema
             m == Head(local[t].todo)
  <2>1. tables' = [tables EXCEPT ![x][m] = AddTable(x, m, Description(t))]
    BY <1>3 DEF AddFound
  <2>2. s = x /\ n = m /\ tables'[s][n] = AddTable(x, m, Description(t))
    BY <1>1, <2>1 DEF TablesInv
  <2> QED BY <1>2, <2>2 DEF AddTable
<1>4. ASSUME NEW t \in Threads, LoadTables(t)
      PROVE  s = local[t].schema /\ n \in DOMAIN describing[t].listing /\ tables'[s][n] = describing[t].listing[n]
  <2> DEFINE x == local[t].schema
             d == describing[t].listing
             loaded == [m \in Names |-> IF m \in DOMAIN d THEN AddTable(x, m, d[m]) ELSE tables[x][m]]
  <2>1. tables' = [tables EXCEPT ![x] = loaded]
    BY <1>4 DEF LoadTables
  <2>2. s = x /\ tables'[s][n] = loaded[n]
    BY <1>1, <2>1 DEF TablesInv
  <2> QED BY <1>2, <2>2 DEF AddTable
<1> QED BY <1>2, <1>3, <1>4, OtherStepsKeep

(* A listed object that did not change is what the schema shows. *)
LEMMA ListedIsRight ==
  ASSUME RInv, NEW t \in Threads, describing[t].pc = "listed", NEW n \in DOMAIN describing[t].listing
  PROVE  /\ Right(local[t].schema, n, describing[t].listing[n])
         /\ OwnOrOther(local[t].schema, n, describing[t].listing[n].at)
<1> DEFINE d == describing[t]
           s == local[t].schema
           o == dictionary[<<s, n>>]
<1>0. /\ CallInv(t) /\ ListInv(t) /\ SchemaInv(t)
      /\ dictionary \in [Cells -> Object \cup {Absent}]
  BY DEF RInv, IInv, TypeOK
<1>1. /\ s \in Owners /\ n \in Names /\ Lists(s, n, d) /\ d.listing[n].at = <<s, n>>
  BY <1>0 DEF CallInv, Calling, ListInv, SchemaInv, Listing
<1>2. Right(s, n, d.listing[n])
  <2> SUFFICES ASSUME NeverChanged(Dependencies(s, n))
               PROVE  /\ IsSource(ObjectOf(s, n))
                      /\ d.listing[n] = Exact(Follow[MaxSynonymDepth + 1][Place(s, n)])
    BY DEF Right
  <2>1. NeverChanged({<<s, n>>})
    BY <1>0, <1>1, DependenciesArePlaces DEF NeverChanged
  <2>2. /\ IsSource(o)
        /\ d.listing[n] = [at |-> <<s, n>>, view |-> (o.kind = "view"), columns |-> o.version,
                           table |-> IF IsTable(o) THEN o.version ELSE Absent]
    BY <1>1, <2>1 DEF Lists
  <2>3. Place(s, n) = <<s, n>>
    BY <2>2 DEF Place, IsSource
  <2>4. GoesOn(s, n, 0, <<s, n>>)
    BY <1>0, <1>1, <2>3, WayStarts
  <2>5. 0 \in 0 .. MaxSynonymDepth
    BY AttachedAssumption
  <2>6. <<s, n>> \in Cells
    BY <1>1, NamesArePlaces
  <2>7. o.kind # "synonym"
    BY <2>2 DEF IsSource, Synonyms
  <2>8. Follow[MaxSynonymDepth + 1][Place(s, n)] = <<s, n>> /\ ObjectOf(s, n) = o
    BY <1>0, <1>1, <2>4, <2>5, <2>6, <2>7, WayEnds
  <2>9. d.listing[n] = Exact(<<s, n>>)
    BY <2>2 DEF Exact
  <2> QED BY <2>2, <2>8, <2>9
<1> QED BY <1>1, <1>2 DEF OwnOrOther

(* The entries of a schema stay right, and those of unchanged objects shown.  *)
LEMMA EntryStays ==
  ASSUME RInv, [Next]_vars, NEW s \in Owners, NEW n \in Names
  PROVE  EntryInv(s, n)'
<1>0. IInv /\ EntryInv(s, n) /\ TablesInv /\ EntriesKept
  BY TablesStep DEF RInv, IInv
<1>1. <<s, n>> \in Cells
  BY NamesArePlaces
<1>2. ASSUME tables'[s][n] # Absent PROVE Right(s, n, tables[s][n])' /\ OwnOrOther(s, n, tables[s][n].at)'
  <2>0. PICK e : e = tables'[s][n]
    OBVIOUS
  <2>1. Right(s, n, e) /\ OwnOrOther(s, n, e.at)
    <3>1. CASE tables'[s][n] = tables[s][n]
      BY <1>0, <1>2, <2>0, <3>1 DEF EntryInv
    <3>2. ASSUME NEW t \in Threads, AddFound(t), s = local[t].schema, n = Head(local[t].todo), e = Description(t)
          PROVE  Right(s, n, e) /\ OwnOrOther(s, n, e.at)
      <4>1. describing[t].pc = "described"
        BY <3>2 DEF AddFound, Describing
      <4>2. OwnOrOther(s, n, describing[t].at)
        BY <3>2, <4>1, AtAQuery DEF WayInv, Finding
      <4>3. e.at = describing[t].at
        BY <3>2 DEF Description
      <4> QED BY <3>2, <4>1, <4>2, <4>3, DescribedIsRight
    <3>3. ASSUME NEW t \in Threads, LoadTables(t), s = local[t].schema, n \in DOMAIN describing[t].listing,
                 e = describing[t].listing[n]
          PROVE  Right(s, n, e) /\ OwnOrOther(s, n, e.at)
      <4>1. describing[t].pc = "listed"
        BY <3>3 DEF LoadTables, Describing
      <4> QED BY <3>3, <4>1, ListedIsRight
    <3> QED BY <2>0, <3>1, <3>2, <3>3, EntryAdded
  <2>2. Right(s, n, e)' /\ OwnOrOther(s, n, e.at)'
    BY <1>0, <2>1, RightStays, OwnStays
  <2> QED BY <2>0, <2>2
<1>3. ASSUME n \in missing'[s] PROVE Unresolved(s, n)'
  <2>1. Unresolved(s, n)
    <3>1. CASE n \in missing[s]
      BY <1>0, <3>1 DEF EntryInv
    <3>2. ASSUME NEW t \in Threads, AddMissing(t), n \notin missing[s] PROVE Unresolved(s, n)
      <4>1. s = local[t].schema /\ n = Head(local[t].todo)
        BY <1>0, <1>3, <3>2 DEF AddMissing, IInv, TypeOK
      <4>2. describing[t].pc = "not_found" /\ describing[t].pc \in Finding
        BY <3>2 DEF AddMissing, Describing, Finding
      <4> QED BY <4>1, <4>2, AtAQuery DEF Finds, Unresolved
    <3>3. (\E t \in Threads : AddMissing(t)) \/ UNCHANGED missing
      BY DEF Next, Ddl, Step, InSchema, LookupEntry, EntryStep, CheckCache, NotFound, AddFound, LookupThrows, ScanWarns,
             LoadTables, Return, Lookup, List, Scan, vars, attach, entries
    <3> QED BY <1>3, <3>1, <3>2, <3>3
  <2> QED BY <1>0, <2>1, RightStays
<1>4. ASSUME NeverChanged({<<s, n>>})'
      PROVE  /\ tables_loaded'[s] /\ IsSource(dictionary[<<s, n>>])' /\ ~IsRecycled(dictionary[<<s, n>>])' => tables'[s][n] # Absent
             /\ tables'[s][n] # Absent /\ IsRecycled(dictionary[<<s, n>>])' => MayBeLookedUp(s, n)
  <2>0. PICK o : o = dictionary[<<s, n>>]
    OBVIOUS
  <2>1. NeverChanged({<<s, n>>}) /\ dictionary'[<<s, n>>] = o
    <3>1. {<<s, n>>} \in SUBSET Cells /\ \A x \in {<<s, n>>} : past'[x] = {dictionary'[x]}
      BY <1>1, <1>4 DEF NeverChanged
    <3> QED BY <1>0, <2>0, <3>1, UnchangedBefore DEF NeverChanged
  <2>2. /\ tables_loaded[s] /\ IsSource(o) /\ ~IsRecycled(o) => tables[s][n] # Absent
        /\ tables[s][n] # Absent /\ IsRecycled(o) => MayBeLookedUp(s, n)
    BY <1>0, <2>0, <2>1 DEF EntryInv
  <2>3. ASSUME NEW t \in Threads, LoadTables(t), s = local[t].schema
        PROVE  /\ describing[t].pc = "listed" /\ Lists(s, n, describing[t])
               /\ tables' = IF tables_loaded[s] THEN tables
                            ELSE [tables EXCEPT ![s] = [m \in Names |-> IF m \in DOMAIN describing[t].listing
                                                                    THEN AddTable(s, m, describing[t].listing[m]) ELSE @[m]]]
    <3>1. describing[t].pc = "listed" /\ SchemaInv(t)
      BY <2>3 DEF LoadTables, Describing, RInv
    <3>2. Lists(s, n, describing[t])
      BY <2>3, <3>1 DEF SchemaInv, Listing
    <3> QED BY <2>3, <3>1, <3>2 DEF LoadTables
  <2>4. ASSUME tables_loaded'[s], IsSource(o), ~IsRecycled(o) PROVE tables'[s][n] # Absent
    <3>1. CASE tables_loaded[s]
      BY <1>0, <2>2, <2>4, <3>1 DEF EntriesKept
    <3>2. CASE ~tables_loaded[s]
      <4>1. PICK t \in Threads : LoadTables(t) /\ s = local[t].schema
        <5>1. (\E t \in Threads : LoadTables(t)) \/ UNCHANGED tables_loaded
          BY DEF Next, Ddl, Step, InSchema, LookupEntry, EntryStep, CheckCache, NotFound, AddFound, LookupThrows, ScanWarns,
                 AddMissing, Return, Lookup, List, Scan, vars, attach, entries
        <5>2. tables_loaded \in [Owners -> BOOLEAN]
          BY <1>0 DEF IInv, TypeOK
        <5>3. \A t \in Threads : LoadTables(t) => tables_loaded' = [tables_loaded EXCEPT ![local[t].schema] = TRUE]
          BY DEF LoadTables
        <5> QED BY <2>4, <3>2, <5>1, <5>2, <5>3
      <4>2. PICK e : e = describing[t].listing[n]
        OBVIOUS
      <4>3. /\ n \in DOMAIN describing[t].listing
            /\ e = [at |-> <<s, n>>, view |-> (o.kind = "view"), columns |-> o.version,
                    table |-> IF IsTable(o) THEN o.version ELSE Absent]
        BY <2>0, <2>1, <2>3, <2>4, <4>1, <4>2 DEF Lists
      <4>4. e # Absent
        <5>1. o \in Object
          BY <1>0, <1>1, <2>0, <2>4 DEF IInv, TypeOK, IsSource
        <5>2. o.version \in Versions
          BY <5>1 DEF Object, Tables
        <5>3. e \in [at : Cells, view : BOOLEAN, columns : Versions \cup {Absent}, table : Versions \cup {Absent}]
          BY <1>1, <4>3, <5>2
        <5> QED BY <5>3, AttachedAssumption
      <4>5. tables'[s][n] = AddTable(s, n, e)
        <5> DEFINE loaded == [m \in Names |-> IF m \in DOMAIN describing[t].listing
                                            THEN AddTable(s, m, describing[t].listing[m]) ELSE tables[s][m]]
        <5>1. tables' = [tables EXCEPT ![s] = loaded]
          <6>1. tables' = [tables EXCEPT ![s] = [m \in Names |-> IF m \in DOMAIN describing[t].listing
                                                  THEN AddTable(s, m, describing[t].listing[m]) ELSE @[m]]]
            BY <2>3, <3>2, <4>1
          <6> QED BY <6>1
        <5>2. DOMAIN tables = Owners
          BY <1>0 DEF TablesInv
        <5>3. tables'[s] = loaded
          BY <5>1, <5>2
        <5> QED BY <4>2, <4>3, <5>3
      <4> QED BY <4>4, <4>5 DEF AddTable
    <3> QED BY <3>1, <3>2
  <2>5. ASSUME tables'[s][n] # Absent, IsRecycled(o) PROVE MayBeLookedUp(s, n)
    <3>1. CASE tables'[s][n] = tables[s][n]
      BY <2>2, <2>5, <3>1
    <3>2. ASSUME NEW t \in Threads, AddFound(t), s = local[t].schema, n = Head(local[t].todo) PROVE MayBeLookedUp(s, n)
      <4>1. local[t].pc = "describe" /\ local[t].todo # <<>>
        BY <1>0, <3>2 DEF AddFound, Calling, IInv, CallInv
      <4> QED BY <3>2, <4>1, CandidateInHand DEF MayBeLookedUp
    <3>3. ASSUME NEW t \in Threads, LoadTables(t), s = local[t].schema, n \in DOMAIN describing[t].listing PROVE FALSE
      BY <2>0, <2>1, <2>3, <2>5, <3>3 DEF Lists
    <3> QED BY <3>1, <3>2, <3>3, EntryAdded
  <2> QED BY <2>1, <2>4, <2>5 DEF IsSource, IsRecycled
<1> QED BY <1>2, <1>3, <1>4 DEF EntryInv

(* At ATTACH nothing is known of any name.                                    *)
LEMMA NamesInit == Init => RInv
<1> SUFFICES ASSUME Init PROVE RInv
  OBVIOUS
<1>1. IInv
  BY AttachedInit
<1>2. ASSUME NEW s \in Owners, NEW n \in Names PROVE EntryInv(s, n)
  <2>1. tables[s][n] = Absent /\ missing[s] = {} /\ ~tables_loaded[s]
    BY DEF Init, EntriesInit
  <2> QED BY <2>1 DEF EntryInv
<1>3. ASSUME NEW t \in Threads PROVE WayInv(t) /\ SchemaInv(t) /\ LookupInv(t)
  <2>1. /\ describing[t].pc = "none" /\ local[t].pc = "idle" /\ local[t].schema = Absent /\ resolving[t].pc = "idle"
    BY <1>1 DEF Init, EntriesInit, NotDescribing, NoCall, C!Init, C!Idle
  <2> QED BY <2>1 DEF WayInv, SchemaInv, LookupInv, Looks, Finding, Listing
<1> QED BY <1>1, <1>2, <1>3 DEF RInv

(* Every step keeps what is known.                                            *)
LEMMA NamesStep == RInv /\ [Next]_vars => RInv'
<1> SUFFICES ASSUME RInv, [Next]_vars PROVE RInv'
  OBVIOUS
<1>1. IInv /\ IInv'
  BY AttachedStep DEF RInv
<1>2. ASSUME NEW s \in Owners, NEW n \in Names PROVE EntryInv(s, n)'
  BY EntryStays
<1>3. ASSUME NEW w \in Threads PROVE WayInv(w)' /\ SchemaInv(w)' /\ LookupInv(w)'
  BY <1>1, OneMoves, OthersKeepTheirWay, MoverLooks, MoverDescribes
<1> QED BY <1>1, <1>2, <1>3 DEF RInv

(* What is known of names that lead to unchanged objects: entries and names   *)
(* found missing are right, and so are descriptions, listings and lookups on  *)
(* their way.                                                                 *)
THEOREM NamesInvariant == Spec => []RInv
<1> QED BY NamesInit, NamesStep, PTL DEF Spec

(* The invariant gives the answers of lookups, *)
LEMMA AnswersAreRight ==
  ASSUME RInv, NEW t \in Threads, Calling(t, "answered"), local[t].schema # Absent
  PROVE  LET s == local[t].schema
             n == asked[t][2]
             m == IF IsSource(ObjectOf(s, n)) THEN n ELSE UpperName(n)
             o == Follow[MaxSynonymDepth + 1][Place(s, m)]
         IN NeverChanged(Dependencies(s, n) \cup Dependencies(s, m)) =>
              IF IsSource(dictionary[o])
              THEN local[t].answer = [at |-> o, view |-> (dictionary[o].kind = "view"), columns |-> dictionary[o].version,
                                      table |-> IF IsTable(dictionary[o]) THEN dictionary[o].version ELSE Absent]
              ELSE local[t].answer = Absent
<1> DEFINE s == local[t].schema
           n == asked[t][2]
           u == UpperName(n)
           m == IF IsSource(ObjectOf(s, n)) THEN n ELSE u
           o == Follow[MaxSynonymDepth + 1][Place(s, m)]
<1> SUFFICES ASSUME NeverChanged(Dependencies(s, n)), NeverChanged(Dependencies(s, m))
             PROVE  IF IsSource(dictionary[o]) THEN local[t].answer = Exact(o) ELSE local[t].answer = Absent
  BY DEF NeverChanged, Exact
<1>1. \/ Right(s, n, local[t].answer)
      \/ Unresolved(s, n) /\ Right(s, u, local[t].answer)
      \/ Unresolved(s, n) /\ Unresolved(s, u) /\ local[t].answer = Absent
  BY DEF RInv, LookupInv, Looks, Calling
<1>2. dictionary[o] = ObjectOf(s, m)
  BY DEF ObjectOf
<1>3. CASE Right(s, n, local[t].answer)
  <2>1. IsSource(ObjectOf(s, n)) /\ local[t].answer = Exact(Follow[MaxSynonymDepth + 1][Place(s, n)])
    BY <1>3 DEF Right
  <2> QED BY <1>2, <2>1
<1>4. ASSUME Unresolved(s, n) PROVE m = u
  BY <1>4 DEF Unresolved
<1>5. CASE Unresolved(s, n) /\ Right(s, u, local[t].answer)
  <2>1. m = u
    BY <1>4, <1>5
  <2>2. IsSource(ObjectOf(s, u)) /\ local[t].answer = Exact(Follow[MaxSynonymDepth + 1][Place(s, u)])
    BY <1>5, <2>1 DEF Right
  <2> QED BY <1>2, <2>1, <2>2
<1>6. CASE Unresolved(s, n) /\ Unresolved(s, u) /\ local[t].answer = Absent
  <2>1. m = u
    BY <1>4, <1>6
  <2> QED BY <1>2, <1>6, <2>1 DEF Unresolved
<1> QED BY <1>1, <1>3, <1>5, <1>6

(* and what a listed schema shows.                                            *)
LEMMA ListedAreRight ==
  ASSUME RInv, NEW s \in Owners, tables_loaded[s], NEW n \in Names,
         NeverChanged({<<s, n>>}), ~(IsRecycled(dictionary[<<s, n>>]) /\ MayBeLookedUp(s, n))
  PROVE  (n \in ListedTables(s)) = (IsSource(dictionary[<<s, n>>]) /\ ~IsRecycled(dictionary[<<s, n>>]))
<1> DEFINE o == dictionary[<<s, n>>]
           e == tables[s][n]
<1>1. EntryInv(s, n) /\ (e # Absent => WasTrue(e))
  BY DEF RInv, IInv, CacheWasTrue
<1>2. past[<<s, n>>] = {o}
  BY DEF NeverChanged
<1>3. ASSUME n \in ListedTables(s) PROVE IsSource(o) /\ ~IsRecycled(o)
  <2>1. e # Absent /\ e.at = <<s, n>>
    BY <1>3 DEF ListedTables
  <2>2. SeenAs(<<s, n>>, LAMBDA d : IsSource(d) /\ e.view = (d.kind = "view"))
    BY <1>1, <2>1 DEF WasTrue, SeenAs
  <2>3. IsSource(o)
    BY <1>2, <2>2 DEF SeenAs
  <2> QED BY <1>1, <2>1, <2>3 DEF EntryInv
<1>4. ASSUME IsSource(o), ~IsRecycled(o) PROVE n \in ListedTables(s)
  <2>1. e # Absent /\ OwnOrOther(s, n, e.at)
    BY <1>1, <1>4 DEF EntryInv
  <2>2. ~WasSynonym(<<s, n>>) /\ Absent \notin past[<<s, n>>]
    BY <1>2, <1>4 DEF WasSynonym, SeenAs, IsSource
  <2> QED BY <2>1, <2>2 DEF OwnOrOther, ListedTables
<1>5. (n \in ListedTables(s)) <=> (IsSource(o) /\ ~IsRecycled(o))
  BY <1>3, <1>4
<1>6. CASE n \in ListedTables(s)
  <2>1. (n \in ListedTables(s)) = TRUE /\ (IsSource(o) /\ ~IsRecycled(o)) = TRUE
    BY <1>5, <1>6 DEF ListedTables, IsSource, IsRecycled
  <2> QED BY <2>1
<1>7. CASE n \notin ListedTables(s)
  <2>1. (n \in ListedTables(s)) = FALSE /\ (IsSource(o) /\ ~IsRecycled(o)) = FALSE
    BY <1>5, <1>7 DEF ListedTables, IsSource, IsRecycled
  <2> QED BY <2>1
<1> QED BY <1>6, <1>7

(* A qualified name that leads to objects that did not change since ATTACH is *)
(* answered as Oracle resolves it, by any number of connections that look up  *)
(* and list in any order, at every depth of the synonyms and every change of  *)
(* the dictionary elsewhere; and a listing shows exactly the unchanged tables *)
(* and views of its schema (LookupEntry, LoadTables, DescribeSource).         *)
THEOREM UnchangedNamesAreResolved == Spec => []UnchangedNamesResolve
<1>1. RInv => UnchangedNamesResolve
  <2> SUFFICES ASSUME RInv PROVE UnchangedNamesResolve
    OBVIOUS
  <2>1. ASSUME NEW t \in Threads, Calling(t, "answered"), local[t].schema # Absent
        PROVE  LET s == local[t].schema
                   n == asked[t][2]
                   m == IF IsSource(ObjectOf(s, n)) THEN n ELSE UpperName(n)
                   o == Follow[MaxSynonymDepth + 1][Place(s, m)]
               IN NeverChanged(Dependencies(s, n) \cup Dependencies(s, m)) =>
                    IF IsSource(dictionary[o])
                    THEN local[t].answer = [at |-> o, view |-> (dictionary[o].kind = "view"),
                                            columns |-> dictionary[o].version,
                                            table |-> IF IsTable(dictionary[o]) THEN dictionary[o].version ELSE Absent]
                    ELSE local[t].answer = Absent
    BY <2>1, AnswersAreRight
  <2>2. ASSUME NEW s \in Owners, tables_loaded[s], NEW n \in Names,
               NeverChanged({<<s, n>>}), ~(IsRecycled(dictionary[<<s, n>>]) /\ MayBeLookedUp(s, n))
        PROVE  (n \in ListedTables(s)) = (IsSource(dictionary[<<s, n>>]) /\ ~IsRecycled(dictionary[<<s, n>>]))
    BY <2>2, ListedAreRight
  <2> QED BY <2>1, <2>2, Zenon DEF UnchangedNamesResolve
<1> QED BY <1>1, NamesInvariant, PTL
=============================================================================
