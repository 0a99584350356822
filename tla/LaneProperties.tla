---------------------------- MODULE LaneProperties ----------------------------
(***************************************************************************)
(* What a security lane should satisfy, over SecurityLane.                  *)
(***************************************************************************)
EXTENDS SecurityLane

\* Mutual exclusion in order of arrival: the lane is the queue of the intents in
\* flight, each once, and only its head is being judged or executed, also while
\* callers give up, calls fail and the runtime restarts.
LaneOrder ==
  /\ \A r \in Req : InFlight(r) <=> \E i \in DOMAIN lane : lane[i] = r
  /\ \A i, j \in DOMAIN lane : lane[i] = lane[j] => i = j
  /\ \A r \in Req : pc[r] \in Inside => lane # <<>> /\ Head(lane) = r

\* Deny by default, end to end: whatever happens to locks, callers and
\* processes, the executor works only for intents that a policy permitted and
\* the pipeline approved, and a caller who was told BLOCK has the truth.
NothingUnapproved ==
  /\ \A r \in recorded \cup Acted : r \in approved
  /\ \A r \in approved : context[r]
  /\ \A r \in Req : answer[r] = "blocked" => r \notin approved

\* The audit log and the answers tell what happened: "executed" and "ok" are
\* for actions that took effect, BLOCK entries for intents never approved, and
\* no intent has two entries.
ReportsAreTrue ==
  /\ \A i \in DOMAIN auditLog :
       /\ auditLog[i].executed => auditLog[i].id \in Acted
       /\ auditLog[i].decision = "BLOCK" => auditLog[i].id \notin approved
       /\ \A j \in DOMAIN auditLog : auditLog[i].id = auditLog[j].id => i = j
  /\ \A r \in Req : answer[r] = "ok" => r \in Acted

\* Together, with every fault at once.
LaneSafe == TypeOK /\ LaneOrder /\ NothingUnapproved /\ ReportsAreTrue

\* No call of the executor raised, no runtime died, no adapter outlived an answer
\* that its action failed.
Undisturbed ==
  /\ callFaults = 0 /\ restarts = 0
  /\ \A r \in Acted \cap Late : outcome[r] # "no"

\* "each action is judged against a stable environment and recorded in causal
\* order" (docs/single-runtime.md), while the lane is undisturbed: every action
\* that took effect since the audit log was cleared has an ALLOW entry, except for
\* the one whose call has not returned; every entry of an action that took effect
\* is of one since then; and the entries are in the order of the actions.
AuditIsTimeline ==
  Undisturbed =>
    /\ \A i \in logStart + 1 .. Len(timeline) : pc[timeline[i]] # "executing" =>
         \E k \in DOMAIN auditLog : auditLog[k].id = timeline[i] /\ auditLog[k].decision = "ALLOW"
    /\ \A k \in DOMAIN auditLog, i \in DOMAIN timeline : auditLog[k].id = timeline[i] =>
         /\ i > logStart
         /\ \A l \in DOMAIN auditLog, j \in DOMAIN timeline :
              auditLog[l].id = timeline[j] /\ k < l => i < j

\* Every intent that reaches the runtime is answered, or its caller gave up: no
\* exit of the pipeline keeps the lock, and the queue behind it moves.
EveryIntentAnswered == \A r \in Req : InFlight(r) ~> answer[r] # "none" /\ ~InFlight(r)

\* The lane implements the air-lock under every fault.  An intent that left may
\* still act if its call was not answered, or if its adapter outlives the answer.
Stragglers ==
  {r \in approved : pc[r] = "done" /\ r \notin Acted /\ (outcome[r] = "none" \/ r \in Late)}

Lock == INSTANCE AirLock WITH inside <- {r \in Req : pc[r] \in Inside}, stragglers <- Stragglers

ImplementsAirLock == Lock!Spec
===============================================================================
