--------------------------- MODULE ExecutionContract ---------------------------
(***************************************************************************)
(* What the executor promises its caller and its auditor, without handlers, *)
(* pool, database connections or processes: an action is recorded before it *)
(* is performed, it is performed at most once, and a caller who is told it  *)
(* succeeded can rely on it having been performed.  A caller who is told    *)
(* anything else learns nothing: the action may have been, or may yet be,   *)
(* performed.                                                               *)
(***************************************************************************)
CONSTANT Req

VARIABLES
  recorded,    \* executions with a durable STARTED record
  performed,   \* executions whose adapter acted on the outside world
  answered     \* what each caller was told

vars == <<recorded, performed, answered>>

Init ==
  /\ recorded = {}
  /\ performed = {}
  /\ answered = [r \in Req |-> "none"]

Record(r) ==
  /\ r \notin recorded
  /\ answered[r] = "none"
  /\ recorded' = recorded \cup {r}
  /\ UNCHANGED <<performed, answered>>

Perform(r) ==
  /\ r \in recorded \ performed
  /\ performed' = performed \cup {r}
  /\ UNCHANGED <<recorded, answered>>

Confirm(r) ==
  /\ answered[r] = "none"
  /\ r \in performed
  /\ answered' = [answered EXCEPT ![r] = "ok"]
  /\ UNCHANGED <<recorded, performed>>

\* One caller is refused or told of a failure, or all of them lose the
\* connection at once.
Disappoint(S) ==
  /\ \A r \in S : answered[r] = "none"
  /\ answered' = [r \in Req |-> IF r \in S THEN "no" ELSE answered[r]]
  /\ UNCHANGED <<recorded, performed>>

Next ==
  \/ \E r \in Req : Record(r) \/ Perform(r) \/ Confirm(r)
  \/ \E S \in SUBSET Req : Disappoint(S)

Spec == Init /\ [][Next]_vars
===============================================================================
