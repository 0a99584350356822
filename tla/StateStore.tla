------------------------------ MODULE StateStore ------------------------------
(***************************************************************************)
(* SQLiteStateStore: the rollback registry and the connection it is written *)
(* through.  The registry lives in the same database file as the audit log. *)
(*                                                                          *)
(* sqlite3 opens a transaction implicitly before an INSERT.  When the       *)
(* INSERT violates UNIQUE(rollback_id) the store neither commits nor rolls  *)
(* back, so the connection keeps the file's write lock until it next        *)
(* commits.                                                                 *)
(***************************************************************************)
EXTENDS Requests

CONSTANT RbId   \* rollback ids, such as "file_write:<path>"

VARIABLES
  registry,   \* table rollback_registry
  txOpen      \* the store's connection has an open write transaction

storeVars == <<registry, txOpen>>

NoOwner == "nobody"
Absent == [status |-> "absent", owner |-> NoOwner]
RbStatus == {"absent", "AVAILABLE", "EXECUTED", "FAILED"}

StoreTypeOK ==
  /\ registry \in [RbId -> [status : RbStatus, owner : Req \cup {NoOwner}]]
  /\ txOpen \in BOOLEAN

StoreInit ==
  /\ registry = [id \in RbId |-> Absent]
  /\ txOpen = FALSE

\* save_rollback on a new id: INSERT and COMMIT, which also ends a transaction
\* an earlier failure left open.
SaveEntry(id, r) ==
  /\ registry[id] = Absent
  /\ registry' = [registry EXCEPT ![id] = [status |-> "AVAILABLE", owner |-> r]]
  /\ txOpen' = FALSE

\* save_rollback on an id that has a row: IntegrityError between INSERT and COMMIT.
SaveConflict(id) ==
  /\ registry[id] # Absent
  /\ txOpen' = TRUE
  /\ UNCHANGED registry

\* get_rollback finds only entries still AVAILABLE.
Undoable(id) == registry[id].status = "AVAILABLE"

\* update_rollback_status: UPDATE ... WHERE rollback_id, whatever the status is.
SetStatus(id, s) ==
  /\ registry' = [registry EXCEPT ![id].status = s]
  /\ txOpen' = FALSE
===============================================================================
