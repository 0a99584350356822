------------------------------ MODULE SecurityLane -----------------------------
(***************************************************************************)
(* One security lane: IntentFrameRuntime.process_intent over its asyncio    *)
(* lock, the policy registry it asks, and the executor service it calls.    *)
(*                                                                          *)
(* The runtime is one event loop.  An action is what a handler does between *)
(* two awaits.  The call of the executor is not awaited: while it lasts the *)
(* whole loop stands still.  The registry and the executor are processes of *)
(* their own; the executor does whatever ExecutionContract allows, which    *)
(* ExecutorProofs shows to include all that ExecutorGateway can do.         *)
(***************************************************************************)
EXTENDS Requests, Naturals, Sequences

CONSTANTS
  Late,          \* actions that may take effect after the executor reported a failure
  PolicyEdits,   \* bound on changes of the policy
  Clears,        \* bound on POST /audit/clear
  Outages,       \* bound on failed calls of the registry or of the model
  CallFaults,    \* bound on failed calls of the executor
  MaxRestarts    \* bound on crashes of the runtime's process

ASSUME LaneAssumption ==
  /\ Late \subseteq Req
  /\ PolicyEdits \in Nat /\ Clears \in Nat /\ Outages \in Nat
  /\ CallFaults \in Nat /\ MaxRestarts \in Nat

VARIABLES
  policy,      \* intents whose action the stored policy permits
  pc,          \* where the handler of each intent is
  context,     \* does the policy it resolved permit its action?
  lane,        \* callers of _lock.acquire() in order: the holder is the first
  approved,    \* intents the pipeline decided to ALLOW
  auditLog,    \* the runtime's audit_log
  answer,      \* what the caller of POST /process got
  recorded,    \* the executor: intents with a STARTED record
  outcome,     \* the executor: its answer to each call
  timeline,    \* the world: actions in the order they took effect
  logStart,    \* how much of the timeline precedes this audit_log
  edits, clears, outages, callFaults, restarts    \* injected so far

execVars == <<recorded, outcome, timeline>>
boundVars == <<edits, clears, outages, callFaults, restarts>>
vars == <<policy, pc, context, lane, approved, auditLog, answer, logStart, execVars, boundVars>>

Inside == {"deciding", "analyzing", "validating", "executing"}
Pc == {"idle", "waiting", "done"} \cup Inside
Answer == {"none", "ok", "failed", "blocked", "error", "gaveUp"}
Entry == [id : Req, decision : {"ALLOW", "BLOCK"}, executed : BOOLEAN]

Acted == {timeline[i] : i \in DOMAIN timeline}

Executor == INSTANCE ExecutionContract WITH performed <- Acted, answered <- outcome

TypeOK ==
  /\ policy \subseteq Req
  /\ pc \in [Req -> Pc]
  /\ context \in [Req -> BOOLEAN]
  /\ lane \in Seq(Req)
  /\ approved \subseteq Req
  /\ auditLog \in Seq(Entry)
  /\ answer \in [Req -> Answer]
  /\ recorded \subseteq Req
  /\ outcome \in [Req -> {"none", "ok", "no"}]
  /\ timeline \in Seq(Req)
  /\ logStart \in Nat
  /\ edits \in 0..PolicyEdits /\ clears \in 0..Clears /\ outages \in 0..Outages
  /\ callFaults \in 0..CallFaults /\ restarts \in 0..MaxRestarts

Init ==
  /\ policy \in SUBSET Req
  /\ pc = [r \in Req |-> "idle"]
  /\ context = [r \in Req |-> FALSE]
  /\ lane = <<>>
  /\ approved = {}
  /\ auditLog = <<>>
  /\ answer = [r \in Req |-> "none"]
  /\ timeline = <<>>
  /\ Executor!Init
  /\ logStart = 0
  /\ edits = 0 /\ clears = 0 /\ outages = 0 /\ callFaults = 0 /\ restarts = 0

-------------------------------------------------------------------------------
InFlight(r) == pc[r] \notin {"idle", "done"}

\* The loop runs handlers unless one of them is in executor.execute().
LoopFree == \A r \in Req : pc[r] # "executing"

Goto(r, from, to) ==
  /\ pc[r] = from
  /\ pc' = [pc EXCEPT ![r] = to]

\* The handler ends: "async with" releases the lock, which wakes the next in
\* the queue, and the caller gets the answer unless it has given up.
Leave(r, from, a) ==
  /\ Goto(r, from, "done")
  /\ lane' = Tail(lane)
  /\ answer' = [answer EXCEPT ![r] = IF @ = "none" THEN a ELSE @]

Log(r, decision, executed) ==
  auditLog' = Append(auditLog, [id |-> r, decision |-> decision, executed |-> executed])

Outage == outages < Outages /\ outages' = outages + 1

-------------------------------------------------------------------------------
(* process_intent *)

Arrives(r) ==
  /\ LoopFree
  /\ pc[r] = "idle"

\* Mutant: the pipeline runs without the lock.
ResolveUnlocked(r) ==
  /\ Arrives(r)
  /\ context' = [context EXCEPT ![r] = r \in policy]
  /\ lane' = Append(lane, r)
  /\ pc' = [pc EXCEPT ![r] = "deciding"]
  /\ UNCHANGED <<policy, approved, auditLog, answer, logStart, execVars, boundVars>>

\* The policy is looked up, then the lock is asked for: a free one is taken at
\* once.  Without a stored policy the caller's own context is used, and the
\* Actor's permits nothing; that is a policy that permits nothing.
Resolve(r) ==
  /\ Arrives(r)
  /\ context' = [context EXCEPT ![r] = r \in policy]
  /\ lane' = Append(lane, r)
  /\ pc' = [pc EXCEPT ![r] = IF lane = <<>> THEN "deciding" ELSE "waiting"]
  /\ UNCHANGED <<policy, approved, auditLog, answer, logStart, execVars, boundVars>>

\* The registry cannot be reached: 500 before the lock.
ResolveFails(r) ==
  /\ Arrives(r)
  /\ Outage
  /\ pc' = [pc EXCEPT ![r] = "done"]
  /\ answer' = [answer EXCEPT ![r] = "error"]
  /\ UNCHANGED <<policy, context, lane, approved, auditLog, logStart, execVars,
                 edits, clears, callFaults, restarts>>

Acquire(r) ==
  /\ LoopFree
  /\ Goto(r, "waiting", "deciding")
  /\ Head(lane) = r
  /\ UNCHANGED <<policy, context, lane, approved, auditLog, answer, logStart, execVars, boundVars>>

\* decide_async ends: BLOCK for a missing permission, or from a bundle.
DecideBlock(r) ==
  /\ LoopFree
  /\ Leave(r, "deciding", "blocked")
  /\ Log(r, "BLOCK", FALSE)
  /\ UNCHANGED <<policy, context, approved, logStart, execVars, boundVars>>

\* The call of the executor follows an ALLOW without an await between.
Approve(r, from) ==
  /\ LoopFree
  /\ Goto(r, from, "executing")
  /\ approved' = approved \cup {r}
  /\ UNCHANGED <<policy, context, lane, auditLog, answer, logStart, execVars, boundVars>>

\* Mutant: a bundle may allow what the policy does not.
DecideAllowUnchecked(r) == Approve(r, "deciding")

DecideAllow(r) == context[r] /\ Approve(r, "deciding")

DecideUndecided(r) ==
  /\ LoopFree
  /\ context[r]
  /\ Goto(r, "deciding", "analyzing")
  /\ UNCHANGED <<policy, context, lane, approved, auditLog, answer, logStart, execVars, boundVars>>

Analyze(r) ==
  /\ LoopFree
  /\ Goto(r, "analyzing", "validating")
  /\ UNCHANGED <<policy, context, lane, approved, auditLog, answer, logStart, execVars, boundVars>>

ValidateAllow(r) == Approve(r, "validating")

ValidateBlock(r) ==
  /\ LoopFree
  /\ Leave(r, "validating", "blocked")
  /\ Log(r, "BLOCK", FALSE)
  /\ UNCHANGED <<policy, context, approved, logStart, execVars, boundVars>>

\* Mutant: acquire() and release() without "async with".
ModelFailsLocked(r) ==
  /\ LoopFree
  /\ Outage
  /\ Goto(r, "analyzing", "done") \/ Goto(r, "validating", "done")
  /\ answer' = [answer EXCEPT ![r] = IF @ = "none" THEN "error" ELSE @]
  /\ UNCHANGED <<policy, context, lane, approved, auditLog, logStart, execVars,
                 edits, clears, callFaults, restarts>>

\* The model's API raises in analyze() or validate(): 500, and no audit entry.
ModelFails(r) ==
  /\ LoopFree
  /\ Outage
  /\ Leave(r, "analyzing", "error") \/ Leave(r, "validating", "error")
  /\ UNCHANGED <<policy, context, approved, auditLog, logStart, execVars,
                 edits, clears, callFaults, restarts>>

ExecuteReturns(r) ==
  /\ outcome[r] # "none"
  /\ Leave(r, "executing", IF outcome[r] = "ok" THEN "ok" ELSE "failed")
  /\ Log(r, "ALLOW", outcome[r] = "ok")
  /\ UNCHANGED <<policy, context, approved, logStart, execVars, boundVars>>

\* The client's timeout, a lost connection or an error status: execute() raises
\* past the audit entry, whatever the executor has done or still does.
ExecuteRaises(r) ==
  /\ callFaults < CallFaults
  /\ callFaults' = callFaults + 1
  /\ Leave(r, "executing", "error")
  /\ UNCHANGED <<policy, context, approved, auditLog, logStart, execVars,
                 edits, clears, outages, restarts>>

-------------------------------------------------------------------------------
(* The world around process_intent *)

\* The caller's client times out and the handler is not told.
GiveUp(r) ==
  /\ InFlight(r)
  /\ answer[r] = "none"
  /\ answer' = [answer EXCEPT ![r] = "gaveUp"]
  /\ UNCHANGED <<policy, pc, context, lane, approved, auditLog, logStart, execVars, boundVars>>

\* POST, PATCH or DELETE of a policy, or a restart of the registry's process,
\* whose store is in memory.
EditPolicy ==
  /\ edits < PolicyEdits
  /\ edits' = edits + 1
  /\ policy' \in SUBSET Req
  /\ UNCHANGED <<pc, context, lane, approved, auditLog, answer, logStart, execVars,
                 clears, outages, callFaults, restarts>>

\* Mutant: the executor is awaited, so the loop serves others meanwhile.
ClearAnyTime ==
  /\ clears < Clears
  /\ clears' = clears + 1
  /\ auditLog' = <<>>
  /\ logStart' = Len(timeline)
  /\ UNCHANGED <<policy, pc, context, lane, approved, answer, execVars,
                 edits, outages, callFaults, restarts>>

\* clear_audit_log takes no lock.
ClearAuditLog ==
  /\ LoopFree
  /\ clears < Clears
  /\ clears' = clears + 1
  /\ auditLog' = <<>>
  /\ logStart' = Len(timeline)
  /\ UNCHANGED <<policy, pc, context, lane, approved, answer, execVars,
                 edits, outages, callFaults, restarts>>

\* The runtime dies and is started again: all it knew was in memory.
Restart ==
  /\ restarts < MaxRestarts
  /\ restarts' = restarts + 1
  /\ pc' = [r \in Req |-> IF InFlight(r) THEN "done" ELSE pc[r]]
  /\ answer' = [r \in Req |-> IF InFlight(r) /\ answer[r] = "none" THEN "error" ELSE answer[r]]
  /\ lane' = <<>>
  /\ auditLog' = <<>>
  /\ logStart' = Len(timeline)
  /\ UNCHANGED <<policy, context, approved, execVars, edits, clears, outages, callFaults>>

execFrame == <<policy, pc, context, lane, approved, auditLog, answer, logStart, boundVars>>

\* The executor serves the calls it was sent, also when nobody waits any more.
ExecutorRecords(r) ==
  /\ r \in approved
  /\ UNCHANGED timeline
  /\ Executor!Record(r)
  /\ UNCHANGED execFrame

ExecutorPerforms(r) ==
  /\ r \in approved
  /\ outcome[r] = "none" \/ r \in Late
  /\ timeline' = Append(timeline, r)
  /\ Executor!Perform(r)
  /\ UNCHANGED execFrame

ExecutorAnswers(r) ==
  /\ r \in approved
  /\ UNCHANGED timeline
  /\ Executor!Confirm(r) \/ Executor!Disappoint({r})
  /\ UNCHANGED execFrame

-------------------------------------------------------------------------------
Decide(r) == DecideBlock(r) \/ DecideAllow(r) \/ DecideUndecided(r)
Validate(r) == ValidateAllow(r) \/ ValidateBlock(r)

Process(r) ==
  \/ Resolve(r) \/ ResolveFails(r) \/ Acquire(r)
  \/ Decide(r) \/ Analyze(r) \/ Validate(r) \/ ModelFails(r)
  \/ ExecuteReturns(r) \/ ExecuteRaises(r)

Execution(r) == ExecutorRecords(r) \/ ExecutorPerforms(r) \/ ExecutorAnswers(r)

Next ==
  \/ \E r \in Req : Process(r) \/ GiveUp(r) \/ Execution(r)
  \/ EditPolicy \/ ClearAuditLog \/ Restart

Spec == Init /\ [][Next]_vars

\* The loop runs what is ready; every hook has a deadline, the clients of the
\* model have timeouts, and the executor answers every call it was sent (the
\* property EveryRequestAnswered of ExecutorProperties).
Fairness ==
  \A r \in Req :
    /\ WF_vars(Acquire(r)) /\ WF_vars(Decide(r))
    /\ WF_vars(Analyze(r) \/ ModelFails(r)) /\ WF_vars(Validate(r) \/ ModelFails(r))
    /\ WF_vars(ExecuteReturns(r) \/ ExecuteRaises(r))
    /\ WF_vars(ExecutorAnswers(r))

FairSpec == Spec /\ Fairness
===============================================================================
