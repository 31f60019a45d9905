------------------------------ MODULE OciSession ------------------------------
(***************************************************************************)
(* A thread's OciSession: the OCI handles it allocates when it logs on, the *)
(* statement it runs under a StmtGuard, and the order in which they are     *)
(* freed, whichever OCI call fails.                                         *)
(***************************************************************************)
EXTENDS Naturals

VARIABLES
  pc,             \* where the thread is
  \* what OCI has allocated for it
  env, err, svc,  \* the handles of the session
  guarded,        \* the statement of a StmtGuard
  stmt, locators  \* the statement of the cursor and its LOB locators

handles == <<env, err, svc, guarded, stmt, locators>>

NoHandles ==
  /\ env = FALSE /\ err = FALSE /\ svc = FALSE /\ guarded = FALSE
  /\ stmt = FALSE /\ locators = 0

(* An OCI call that fails allocates nothing and the program goes elsewhere. *)
Fails(then) == pc' = then /\ UNCHANGED handles

CreateOciEnv ==
  /\ pc = "off"
  /\ \/ env' = TRUE /\ pc' = "err" /\ UNCHANGED <<err, svc, guarded, stmt, locators>>
     \/ Fails("ended")

AllocError ==
  /\ pc = "err"
  /\ \/ err' = TRUE /\ pc' = "logon" /\ UNCHANGED env
     \/ env' = FALSE /\ pc' = "ended" /\ UNCHANGED err
  /\ UNCHANGED <<svc, guarded, stmt, locators>>

(* A constructor that throws runs no destructor: it frees what it has. *)
LogonFailed == err' = FALSE /\ env' = FALSE /\ pc' = "ended" /\ UNCHANGED svc

Logon ==
  /\ pc = "logon"
  /\ \/ svc' = TRUE /\ pc' = "alter" /\ UNCHANGED <<env, err>>
     \/ LogonFailed
  /\ UNCHANGED <<guarded, stmt, locators>>

(* PrepareReadSession, through Execute; the StmtGuard releases the statement  *)
(* when it ran and when it failed.                                            *)
PrepareAlter ==
  /\ pc = "alter"
  /\ \/ guarded' = TRUE /\ pc' = "altering" /\ UNCHANGED <<env, err, svc, stmt, locators>>
     \/ Fails("logoff")

AlterSession ==
  /\ pc = "altering"
  /\ guarded' = FALSE
  /\ pc' \in {"open", "logoff"}
  /\ UNCHANGED <<env, err, svc, stmt, locators>>

(* The destructor: logoff, the error handle, the environment. *)
Logoff ==
  /\ pc = "logoff"
  /\ \/ svc /\ svc' = FALSE /\ UNCHANGED <<pc, env, err>>
     \/ ~svc /\ err /\ err' = FALSE /\ UNCHANGED <<pc, env, svc>>
     \/ ~svc /\ ~err /\ env' = FALSE /\ pc' = "ended" /\ UNCHANGED <<err, svc>>
  /\ UNCHANGED <<guarded, stmt, locators>>

SessionStep == CreateOciEnv \/ AllocError \/ Logon \/ PrepareAlter \/ AlterSession \/ Logoff

-----------------------------------------------------------------------------
(* Whatever failed and whenever, a thread that is done has no OCI handle      *)
(* left: no session stays open in Oracle, no environment in the process.      *)
HandlesAreFreed == pc = "ended" => NoHandles

(* Handles die before what they were made from: the statement and its         *)
(* locators before the logoff, the service before the error handle, and the   *)
(* environment last, with nothing left in it.                                 *)
FreedInOrder ==
  [][/\ svc /\ ~svc' => ~stmt /\ ~guarded /\ locators = 0
     /\ err /\ ~err' => ~svc'
     /\ env /\ ~env' => ~svc /\ ~guarded /\ ~stmt /\ locators = 0
     /\ locators > 0 /\ locators' = 0 => env /\ ~stmt'
     /\ stmt /\ ~stmt' => svc /\ err]_handles

(* What a thread has at each point: the handles of the session from the       *)
(* outside in, and those of the cursor while there is one.                    *)
CursorStates == {"define", "first", "ready", "lobs", "read", "batch", "failed"}

HandlesInv ==
  /\ env <=> pc \notin {"off", "ended"}
  /\ pc \notin {"off", "err", "ended", "logoff"} => err
  /\ pc \notin {"off", "err", "logon", "ended", "logoff"} => svc
  /\ (svc => err) /\ (err => env) /\ (pc = "logon" => ~svc) /\ (pc = "err" => ~err)
  /\ guarded <=> pc = "altering"
  /\ stmt <=> pc \in CursorStates
  /\ locators # 0 => pc \in CursorStates
=============================================================================
