-------------------------------- MODULE Catalog --------------------------------
(***************************************************************************)
(* The schemas of an attached Oracle database (OraduckCatalog): ALL_USERS   *)
(* is read once, by whichever connection first names a schema, and an entry *)
(* is made for each user named.  Each block under the lock is one step;     *)
(* Oracle is asked outside the lock while other sessions create and drop    *)
(* users.  A name is a word and whether it is written in upper case.        *)
(***************************************************************************)
EXTENDS Naturals

CONSTANTS
  Threads,        \* DuckDB connections
  Users,          \* names a user can have
  CurrentSchema,  \* of the session at ATTACH: the default schema
  Nobody,         \* no name
  MaxDdl          \* bound: changes of Oracle's dictionary

VARIABLES
  all_users, ever,  \* Oracle: its users, and all that were since ATTACH
  ddl,              \* changes so far
  users_loaded, users, schemas,
  resolving         \* per connection: the lookup it is in and what it read

cache == <<users_loaded, users, schemas>>
vars  == <<all_users, ever, ddl, cache, resolving>>

Upper(n) == <<n[1], TRUE>>

Idle == [pc |-> "idle", name |-> Nobody, loaded |-> {}, answer |-> Nobody]

Init ==
  /\ all_users \in SUBSET Users /\ CurrentSchema \in all_users
  /\ ever = all_users
  /\ ddl = 0
  /\ users_loaded = FALSE /\ users = {} /\ schemas = {}
  /\ resolving = [t \in Threads |-> Idle]

(* Another Oracle session creates or drops a user. *)
Ddl ==
  /\ ddl < MaxDdl
  /\ ddl' = ddl + 1
  /\ \E u \in Users \ {CurrentSchema} :
       all_users' = IF u \in all_users THEN all_users \ {u} ELSE all_users \cup {u}
  /\ ever' = ever \cup all_users'
  /\ UNCHANGED <<cache, resolving>>

-----------------------------------------------------------------------------
At(t, pc) == resolving[t].pc = pc

(* LookupSchema; the default schema needs no list of users. *)
LookupSchema(t, u) ==
  /\ At(t, "idle")
  /\ resolving' = [resolving EXCEPT ![t] = [Idle EXCEPT !.name = u,
       !.pc = IF users_loaded \/ u = CurrentSchema THEN "resolve" ELSE "users"]]
  /\ UNCHANGED <<all_users, ever, ddl, cache>>

(* LoadUsers: the query, on a session of its own. *)
QueryUsers(t) ==
  /\ At(t, "users")
  /\ resolving' = [resolving EXCEPT ![t].pc = "store", ![t].loaded = all_users]
  /\ UNCHANGED <<all_users, ever, ddl, cache>>

(* Logon or query fails: the error is thrown and nothing is cached. *)
QueryUsersFails(t) ==
  /\ At(t, "users")
  /\ resolving' = [resolving EXCEPT ![t] = Idle]
  /\ UNCHANGED <<all_users, ever, ddl, cache>>

(* Another connection may have loaded them meanwhile. *)
StoreUsers(t) ==
  /\ At(t, "store")
  /\ users' = IF users_loaded THEN users ELSE resolving[t].loaded
  /\ users_loaded' = TRUE
  /\ resolving' = [resolving EXCEPT ![t].pc = "resolve", ![t].loaded = {}]
  /\ UNCHANGED <<all_users, ever, ddl, schemas>>

(* ResolveUser: the exact name, else the upper-cased one, else Nobody. *)
Resolved(u, known) ==
  IF u = CurrentSchema \/ u \in known THEN u
  ELSE IF Upper(u) \in known THEN Upper(u) ELSE Nobody

ResolveUser(t) ==
  /\ At(t, "resolve")
  /\ resolving' = [resolving EXCEPT ![t].pc = "entry", ![t].answer = Resolved(resolving[t].name, users)]
  /\ UNCHANGED <<all_users, ever, ddl, cache>>

(* GetSchemaEntry, under the lock taken again. *)
GetSchemaEntry(t) ==
  /\ At(t, "entry")
  /\ schemas' = schemas \cup ({resolving[t].answer} \ {Nobody})
  /\ resolving' = [resolving EXCEPT ![t].pc = "answered"]
  /\ UNCHANGED <<all_users, ever, ddl, users_loaded, users>>

(* ScanSchemas lists the default schema and the schemas already named. *)
ScanSchemas(t) ==
  /\ At(t, "idle") /\ CurrentSchema \notin schemas
  /\ schemas' = schemas \cup {CurrentSchema}
  /\ UNCHANGED <<all_users, ever, ddl, users_loaded, users, resolving>>

(* The lookup is over; the binder goes on with its answer. *)
Answered(t) ==
  /\ At(t, "answered")
  /\ resolving' = [resolving EXCEPT ![t] = Idle]

Step(t) ==
  \/ QueryUsers(t) \/ QueryUsersFails(t) \/ StoreUsers(t)
  \/ ResolveUser(t) \/ GetSchemaEntry(t)

-----------------------------------------------------------------------------
TypeOK ==
  /\ all_users \subseteq Users /\ ever \subseteq Users
  /\ ddl \in 0 .. MaxDdl
  /\ users_loaded \in BOOLEAN /\ users \subseteq Users /\ schemas \subseteq Users
  /\ DOMAIN resolving = Threads
  /\ \A t \in Threads : LET r == resolving[t] IN
       /\ DOMAIN r = DOMAIN Idle
       /\ r.pc \in {"idle", "users", "store", "resolve", "entry", "answered"}
       /\ r.name \in Users \cup {Nobody} /\ r.loaded \subseteq Users /\ r.answer \in Users \cup {Nobody}

(* A step that keeps what was resolved: two connections that read ALL_USERS   *)
(* at two moments leave one list, which once loaded is never replaced, and    *)
(* the entry of a schema stays.                                               *)
SchemasStay ==
  /\ users_loaded => users_loaded' /\ users' = users
  /\ schemas \subseteq schemas'

(* A lookup that ended and found nobody had read the users: a failed or       *)
(* pending query is never taken for an empty list; and every schema entry is  *)
(* the default schema or a user Oracle had since ATTACH.                      *)
AnswersAreOracles ==
  /\ schemas \subseteq ever
  /\ \A t \in Threads :
       At(t, "entry") /\ resolving[t].answer = Nobody => users_loaded /\ resolving[t].name \notin users

(* The inductive invariant: what a lookup has read, and that one with no list *)
(* of users is of the default schema.                                         *)
ResolveInv ==
  /\ all_users \cup users \subseteq ever /\ CurrentSchema \in ever
  /\ \A t \in Threads :
       /\ At(t, "store") => resolving[t].loaded \subseteq ever
       /\ At(t, "resolve") => users_loaded \/ resolving[t].name = CurrentSchema
       /\ At(t, "entry") => resolving[t].answer \in ever \cup {Nobody}
=============================================================================
