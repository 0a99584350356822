------------------------------ MODULE AuditChain ------------------------------
(***************************************************************************)
(* The executor's audit trail: the in-memory head of the SHA-256 hash chain *)
(* (HashChain) and the append-only table audit_log (SQLiteAuditLogger).     *)
(* The head moves when an entry is built, on the event loop; the row lands  *)
(* later, from a worker thread, or not at all.                              *)
(*                                                                          *)
(* A hash covers every field of its entry, and two entries never agree on   *)
(* both execution_id and status, so that pair stands for the entry's hash.  *)
(***************************************************************************)
EXTENDS Naturals, Sequences, Requests

VARIABLES
  head,       \* HashChain._prev_hash
  entry,      \* the AuditEntry a handler has built and not yet seen inserted
  log,        \* table audit_log in id order
  secEvents   \* executions with a row in table security_events

auditVars == <<head, entry, log, secEvents>>

Outcome == {"COMPLETED", "FAILED"}
Status == {"STARTED"} \cup Outcome

Genesis == <<>>
Hash == {Genesis} \cup (Req \X Status)
Row == [id : Req, status : Status, prev : Hash]
NoEntry == [id |-> "none"]

HashOf(row) == <<row.id, row.status>>

AuditTypeOK ==
  /\ head \in Hash
  /\ entry \in [Req -> Row \cup {NoEntry}]
  /\ log \in Seq(Row)
  /\ secEvents \subseteq Req

AuditInit ==
  /\ head = Genesis
  /\ entry = [r \in Req |-> NoEntry]
  /\ log = <<>>
  /\ secEvents = {}

\* Mutant: the head moves for outcomes only.
ChainAppendLate(r, status) ==
  /\ entry' = [entry EXCEPT ![r] = [id |-> r, status |-> status, prev |-> head]]
  /\ head' = IF status = "STARTED" THEN head ELSE <<r, status>>

\* _hash_and_chain: build the entry on top of the head and advance the head.
ChainAppend(r, status) ==
  /\ entry' = [entry EXCEPT ![r] = [id |-> r, status |-> status, prev |-> head]]
  /\ head' = <<r, status>>

\* _sync_log_event: INSERT and COMMIT under the logger's lock.
InsertRow(r) == log' = Append(log, entry[r])

\* build_gateway: a new process builds HashChain() on the genesis hash, over
\* the table the last process left.
NewChain ==
  /\ head' = Genesis
  /\ entry' = [r \in Req |-> NoEntry]

\* _sync_verify_chain: each row's prev_hash is the entry_hash of the row before.
\* (The recomputation of every entry_hash succeeds: no row is ever changed.)
VerifyChain == \A i \in 2..Len(log) : log[i].prev = HashOf(log[i - 1])

HasRow(r, statuses) == \E i \in DOMAIN log : log[i].id = r /\ log[i].status \in statuses
Recorded(r) == HasRow(r, {"STARTED"})
===============================================================================
