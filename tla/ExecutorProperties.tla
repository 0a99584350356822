-------------------------- MODULE ExecutorProperties --------------------------
(***************************************************************************)
(* What the executor service should satisfy, over ExecutorGateway.          *)
(***************************************************************************)
EXTENDS ExecutorGateway

Effected(r) == work[r] = "effected"
Answered(r) == pc[r] = "done"

\* "Fail-closed: if we can't audit, we can't execute" (gateway.py): no adapter
\* is started for an execution whose STARTED row is not already committed,
\* whatever INSERTs fail, overtake each other or are lost in a crash.
FailClosed == \A r \in Req : work[r] # "none" => Recorded(r)

\* The two rows of an execution appear once each and in order: no outcome
\* without its STARTED row before it, and no event logged twice.
RowsInOrder ==
  \A i \in DOMAIN log :
    /\ log[i].status \in Outcome =>
         \E j \in 1..(i - 1) : log[j].id = log[i].id /\ log[j].status = "STARTED"
    /\ \A j \in 1..(i - 1) :
         log[j].id = log[i].id => log[j].status = "STARTED" /\ log[i].status \in Outcome

\* Good news is true: a COMPLETED row and a success reply are only for actions
\* that were performed and whose start is on record, and a request refused
\* before execution ("denied", "blocked") was not performed and never will be.
GoodNewsIsTrue ==
  \A r \in Req :
    /\ HasRow(r, {"COMPLETED"}) => Effected(r)
    /\ reply[r] = "ok" => Effected(r) /\ Recorded(r)
    /\ reply[r] \in {"denied", "blocked"} => work[r] = "none" /\ ~HasRow(r, Outcome)

\* Together: the audit trail holds nothing that is not so, whatever is lost.
TrailIsTrue == TypeOK /\ FailClosed /\ RowsInOrder /\ GoodNewsIsTrue

\* Two rows never claim the same predecessor, except that each process begins
\* its chain at genesis: concurrent handlers cannot fork the chain, because
\* reading and advancing the head is one step of the event loop.
NoFork ==
  /\ \A i, j \in DOMAIN log :
       i # j /\ log[i].prev = log[j].prev => log[i].prev = Genesis
  /\ Cardinality({i \in DOMAIN log : log[i].prev = Genesis}) <= restarts + 1

\* A reply that offers a rollback names an entry stored for that very
\* execution, never one an earlier execution left under the same rollback id.
OfferedRollbackIsStored ==
  \A r \in offered : registry[RbIdOf[r]].owner = r /\ Effected(r)

\* An entry marked EXECUTED was undone, and only an action that was performed
\* is ever undone.
UndoneWasDone ==
  \A id \in RbId :
    /\ registry[id].status = "EXECUTED" => undos[id] > 0
    /\ undos[id] > 0 => registry[id].owner \in Req /\ Effected(registry[id].owner)

\* Together: what outlives an execution, its place in the chain and the entry that
\* can undo it, is its own.
HistoryIsSound == NoFork /\ OfferedRollbackIsStored /\ UndoneWasDone

\* Every request that reaches the gateway is answered, even if adapters hang,
\* workers are all busy, INSERTs fail or wait for a lock, or the vault raises.
EveryRequestAnswered == \A r \in Req : InFlight(r) ~> Answered(r)

\* The gateway implements the execution contract.
Contract == INSTANCE ExecutionContract WITH
  recorded <- {r \in Req : Recorded(r)},
  performed <- {r \in Req : Effected(r)},
  answered <- [r \in Req |-> IF reply[r] \in {"none", "ok"} THEN reply[r] ELSE "no"]

ImplementsContract == Contract!Spec
===============================================================================
