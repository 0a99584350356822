---------------------------- MODULE ExecutorGateway ---------------------------
(***************************************************************************)
(* The executor service: ExecutorGateway.handle and handle_rollback over    *)
(* the worker pool, the audit chain and the state store, with crashes and   *)
(* restarts of the process.                                                 *)
(*                                                                          *)
(* One handler runs per request, concurrently on one event loop.  An action *)
(* is what a handler does between two suspensions, or what the thread it    *)
(* waits for does (the INSERT of a row, the adapter's work).                *)
(***************************************************************************)
EXTENDS WorkerPool, AuditChain, StateStore

CONSTANTS
  NeedsCreds,    \* requests whose adapter has requires_credentials
  Reversible,    \* requests whose adapter may offer a rollback when it succeeds
  RbIdOf,        \* the rollback id it offers
  Undo,          \* calls of POST /rollback
  UndoId,        \* the rollback id each of them names
  Serial,        \* TRUE: the caller sends one request at a time
  AuditFaults,   \* bound on injected failures of the audit database
  VaultFaults,   \* bound on vault calls that raise something else than CredentialError
  MaxRestarts    \* bound on crashes of the process

ASSUME GatewayAssumption ==
  /\ NeedsCreds \subseteq Req /\ Reversible \subseteq Req
  /\ RbIdOf \in [Reversible -> RbId]
  /\ UndoId \in [Undo -> RbId]
  /\ Serial \in BOOLEAN
  /\ AuditFaults \in Nat /\ VaultFaults \in Nat /\ MaxRestarts \in Nat

VARIABLES
  pc,          \* where the handler of each request is
  reply,       \* what its caller got
  offered,     \* replies that carry rollback_available
  upc,         \* where each call of handle_rollback is
  undos,       \* how often each action was undone by its adapter
  auditFaults, vaultFaults, restarts    \* injected so far

gatewayVars == <<pc, reply, offered>>
undoVars == <<upc, undos>>
faultVars == <<auditFaults, vaultFaults, restarts>>
vars == <<poolVars, auditVars, storeVars, gatewayVars, undoVars, faultVars>>

Pc == {"idle", "secEvent", "logStart", "started", "creds", "pool",
       "saveRb", "rbSaved", "logEnd", "done"}
Reply == {"none", "ok", "failed", "denied", "blocked", "raised", "lost"}
UndoPc == {"idle", "found", "undone", "failed", "done"}

TypeOK ==
  /\ PoolTypeOK /\ AuditTypeOK /\ StoreTypeOK
  /\ pc \in [Req -> Pc]
  /\ reply \in [Req -> Reply]
  /\ offered \subseteq Req
  /\ upc \in [Undo -> UndoPc]
  /\ undos \in [RbId -> Nat]
  /\ auditFaults \in 0..AuditFaults
  /\ vaultFaults \in 0..VaultFaults
  /\ restarts \in 0..MaxRestarts

Init ==
  /\ PoolInit /\ AuditInit /\ StoreInit
  /\ pc = [r \in Req |-> "idle"]
  /\ reply = [r \in Req |-> "none"]
  /\ offered = {}
  /\ upc = [u \in Undo |-> "idle"]
  /\ undos = [id \in RbId |-> 0]
  /\ auditFaults = 0 /\ vaultFaults = 0 /\ restarts = 0

-------------------------------------------------------------------------------
InFlight(r) == pc[r] \notin {"idle", "done"}

Goto(r, from, to) ==
  /\ pc[r] = from
  /\ pc' = [pc EXCEPT ![r] = to]

Answer(r, from, answer) ==
  /\ Goto(r, from, "done")
  /\ reply' = [reply EXCEPT ![r] = answer]

\* An INSERT into the audit database: it needs the file's write lock, which an
\* open transaction of the state store's connection holds.
AuditWritable == ~txOpen

\* It fails when the lock is not released within busy_timeout, or for a reason
\* of the environment's (disk full, I/O error), of which there are AuditFaults.
AuditWriteFails ==
  \/ txOpen /\ UNCHANGED auditFaults
  \/ auditFaults < AuditFaults /\ auditFaults' = auditFaults + 1

-------------------------------------------------------------------------------
(* handle(), steps 1 to 4 *)

Arrives(r) == Serial => \A q \in Req : ~InFlight(q)

\* Steps 1 and 2 fail: invalid or crashing auth, or no adapter for the action.
Reject(r) ==
  /\ Arrives(r)
  /\ Goto(r, "idle", "secEvent")
  /\ UNCHANGED <<reply, offered, poolVars, auditVars, storeVars, undoVars, faultVars>>

\* _log_security_event is best-effort: the row is inserted or the error is logged.
Denied(r) ==
  /\ Answer(r, "secEvent", "denied")
  /\ \/ /\ AuditWritable
        /\ secEvents' = secEvents \cup {r}
        /\ UNCHANGED auditFaults
     \/ AuditWriteFails /\ UNCHANGED secEvents
  /\ UNCHANGED <<offered, head, entry, log, poolVars, storeVars, undoVars,
                 vaultFaults, restarts>>

\* Steps 1 to 3, one segment: authorised, routed, STARTED built and chained.
Accept(r) ==
  /\ Arrives(r)
  /\ Goto(r, "idle", "logStart")
  /\ ChainAppend(r, "STARTED")
  /\ UNCHANGED <<reply, offered, log, secEvents, poolVars, storeVars, undoVars, faultVars>>

InsertStarted(r) ==
  /\ AuditWritable
  /\ Goto(r, "logStart", "started")
  /\ InsertRow(r)
  /\ UNCHANGED <<reply, offered, head, entry, secEvents, poolVars, storeVars,
                 undoVars, faultVars>>

\* Mutant: a failed STARTED insert is logged and the execution goes on.
StartUnaudited(r) ==
  /\ AuditWriteFails
  /\ Goto(r, "logStart", "started")
  /\ UNCHANGED <<reply, offered, auditVars, poolVars, storeVars, undoVars, vaultFaults, restarts>>

\* Fail-closed: "Audit logging failed -- execution blocked".
StartBlocked(r) ==
  /\ AuditWriteFails
  /\ Answer(r, "logStart", "blocked")
  /\ UNCHANGED <<offered, auditVars, poolVars, storeVars, undoVars, vaultFaults, restarts>>

\* pool.submit up to its first suspension.
Submit(r) == SubmitNow(r) \/ SubmitQueued(r)

Execute(r) ==
  /\ r \notin NeedsCreds
  /\ Goto(r, "started", "pool")
  /\ Submit(r)
  /\ UNCHANGED <<reply, offered, auditVars, storeVars, undoVars, faultVars>>

FetchCredentials(r) ==
  /\ r \in NeedsCreds
  /\ Goto(r, "started", "creds")
  /\ UNCHANGED <<reply, offered, auditVars, poolVars, storeVars, undoVars, faultVars>>

\* The vault answered, or _fetch_credentials raised CredentialError and the
\* adapter runs without credentials.
ExecuteWithCredentials(r) ==
  /\ Goto(r, "creds", "pool")
  /\ Submit(r)
  /\ UNCHANGED <<reply, offered, auditVars, storeVars, undoVars, faultVars>>

\* Any other exception of the vault leaves handle().
VaultRaises(r) ==
  /\ vaultFaults < VaultFaults
  /\ vaultFaults' = vaultFaults + 1
  /\ Answer(r, "creds", "raised")
  /\ UNCHANGED <<offered, auditVars, poolVars, storeVars, undoVars, auditFaults, restarts>>

-------------------------------------------------------------------------------
(* handle(), steps 5 to 8 *)

\* The semaphore schedules the request.
Dequeue(r) ==
  /\ Resume(r)
  /\ UNCHANGED <<gatewayVars, auditVars, storeVars, undoVars, faultVars>>

AdapterWorks(r) ==
  /\ WorkEffects(r) \/ WorkFails(r)
  /\ UNCHANGED <<gatewayVars, auditVars, storeVars, undoVars, faultVars>>

\* submit() returns a failure: no rollback to store, the FAILED entry is chained.
Fails(r) ==
  /\ ReturnFailure(r) \/ Timeout(r)
  /\ Goto(r, "pool", "logEnd")
  /\ ChainAppend(r, "FAILED")
  /\ UNCHANGED <<reply, offered, log, secEvents, storeVars, undoVars, faultVars>>

\* submit() returns a success that offers no rollback, as any may.
Succeeds(r) ==
  /\ ReturnSuccess(r)
  /\ Goto(r, "pool", "logEnd")
  /\ ChainAppend(r, "COMPLETED")
  /\ UNCHANGED <<reply, offered, log, secEvents, storeVars, undoVars, faultVars>>

\* ... or one that does: save_rollback is awaited first.
SucceedsReversibly(r) ==
  /\ r \in Reversible
  /\ ReturnSuccess(r)
  /\ Goto(r, "pool", "saveRb")
  /\ UNCHANGED <<reply, offered, auditVars, storeVars, undoVars, faultVars>>

SaveRollback(r) ==
  /\ Goto(r, "saveRb", "rbSaved")
  /\ \/ SaveEntry(RbIdOf[r], r) /\ offered' = offered \cup {r}
     \/ SaveConflict(RbIdOf[r]) /\ UNCHANGED offered
  /\ UNCHANGED <<reply, auditVars, poolVars, undoVars, faultVars>>

Completes(r) ==
  /\ Goto(r, "rbSaved", "logEnd")
  /\ ChainAppend(r, "COMPLETED")
  /\ UNCHANGED <<reply, offered, log, secEvents, poolVars, storeVars, undoVars, faultVars>>

\* Mutant: the reply is a success whenever the handler got to its end.
RespondOptimistically(r) ==
  /\ Answer(r, "logEnd", "ok")
  /\ AuditWritable /\ InsertRow(r)
  /\ UNCHANGED <<offered, head, entry, secEvents, poolVars, storeVars, undoVars, faultVars>>

\* _log_completion is best-effort; the caller gets the adapter's result.
Respond(r) ==
  /\ Answer(r, "logEnd", IF phase[r] = "ok" THEN "ok" ELSE "failed")
  /\ \/ AuditWritable /\ InsertRow(r) /\ UNCHANGED auditFaults
     \/ AuditWriteFails /\ UNCHANGED log
  /\ UNCHANGED <<offered, head, entry, secEvents, poolVars, storeVars, undoVars,
                 vaultFaults, restarts>>

-------------------------------------------------------------------------------
(* handle_rollback() *)

UndoGoto(u, from, to) ==
  /\ upc[u] = from
  /\ upc' = [upc EXCEPT ![u] = to]

UndoLookup(u) ==
  /\ UndoGoto(u, "idle", IF Undoable(UndoId[u]) THEN "found" ELSE "done")
  /\ UNCHANGED <<undos, poolVars, auditVars, storeVars, gatewayVars, faultVars>>

\* adapter.safe_rollback: the adapter undoes the action, or fails to.
UndoRuns(u) ==
  /\ \/ /\ UndoGoto(u, "found", "undone")
        /\ undos' = [undos EXCEPT ![UndoId[u]] = @ + 1]
     \/ /\ UndoGoto(u, "found", "failed")
        /\ UNCHANGED undos
  /\ UNCHANGED <<poolVars, auditVars, storeVars, gatewayVars, faultVars>>

UndoRecorded(u) ==
  /\ \/ UndoGoto(u, "undone", "done") /\ SetStatus(UndoId[u], "EXECUTED")
     \/ UndoGoto(u, "failed", "done") /\ SetStatus(UndoId[u], "FAILED")
  /\ UNCHANGED <<undos, poolVars, auditVars, gatewayVars, faultVars>>

-------------------------------------------------------------------------------
\* The process dies and the supervisor starts another: the tables stay, the
\* head, the pool, the threads and every open connection and request go.
Restart ==
  /\ restarts < MaxRestarts
  /\ restarts' = restarts + 1
  /\ pc' = [r \in Req |-> IF InFlight(r) THEN "done" ELSE pc[r]]
  /\ reply' = [r \in Req |-> IF InFlight(r) THEN "lost" ELSE reply[r]]
  /\ NewChain
  /\ txOpen' = FALSE
  /\ phase' = [r \in Req |-> IF phase[r] \in {"queued", "running"} THEN "killed" ELSE phase[r]]
  /\ permits' = MaxWorkers /\ granted' = <<>> /\ waiting' = <<>> /\ active' = 0
  /\ work' = [r \in Req |-> IF work[r] = "busy" THEN "stopped" ELSE work[r]]
  /\ upc' = [u \in Undo |-> IF upc[u] = "idle" THEN "idle" ELSE "done"]
  /\ UNCHANGED <<log, secEvents, registry, offered, undos, closeVars,
                 auditFaults, vaultFaults>>

Handle(r) ==
  \/ Reject(r) \/ Denied(r) \/ Accept(r) \/ InsertStarted(r) \/ StartBlocked(r)
  \/ Execute(r) \/ FetchCredentials(r) \/ ExecuteWithCredentials(r) \/ VaultRaises(r)
  \/ Dequeue(r) \/ AdapterWorks(r)
  \/ Fails(r) \/ Succeeds(r) \/ SucceedsReversibly(r) \/ SaveRollback(r)
  \/ Completes(r) \/ Respond(r)

HandleRollback(u) == UndoLookup(u) \/ UndoRuns(u) \/ UndoRecorded(u)

Next ==
  \/ \E r \in Req : Handle(r)
  \/ \E u \in Undo : HandleRollback(u)
  \/ Restart

Spec == Init /\ [][Next]_vars

\* A handler that can take its next step does: the event loop runs what is
\* ready, an INSERT ends within busy_timeout, the vault's client and
\* safe_execute have timers.  Callers need not send anything, and neither
\* adapters nor faults are owed a step of their own.
Fairness ==
  \A r \in Req :
    /\ WF_vars(Denied(r))
    /\ WF_vars(InsertStarted(r) \/ StartBlocked(r))
    /\ WF_vars(Execute(r) \/ FetchCredentials(r))
    /\ WF_vars(ExecuteWithCredentials(r) \/ VaultRaises(r))
    /\ WF_vars(Dequeue(r))
    /\ WF_vars(Fails(r) \/ Succeeds(r) \/ SucceedsReversibly(r))
    /\ WF_vars(SaveRollback(r)) /\ WF_vars(Completes(r)) /\ WF_vars(Respond(r))

FairSpec == Spec /\ Fairness
===============================================================================
