--------------------------- MODULE DecisionProperties --------------------------
(***************************************************************************)
(* What the decision path should satisfy, over DecisionPath.                *)
(***************************************************************************)
EXTENDS DecisionPath

TypeOK ==
  /\ request \in Request
  /\ phase \in Phase
  /\ at \in 0..Len(Routed)
  /\ hook \in {"idle", "running", "overdue"}
  /\ trace \in Seq(Record)
  /\ flagged \in BOOLEAN
  /\ verdict \in {"none", "ALLOW", "BLOCK", "error"}
  /\ path \in {"none", "hooks", "fast_path", "ai_path"}

\* In the trace t, the hook h of the action or of a domain ended like this.
Ended(t, h, of, end) ==
  \E i \in DOMAIN t : t[i].hook = h /\ t[i].of = of /\ t[i].end = end

\* An ALLOW is earned, whichever layer gives it: the action is permitted, its
\* constraints were enforced if it has any, every routed domain and the
\* structural gates passed, and one of the four reasons to allow applies.
AllowIsEarned ==
  verdict = "ALLOW" =>
    /\ request.permitted /\ request.bundled
    /\ request.constrained => Ended(trace, "enforce_constraints", "action", "continue")
    /\ \A i \in DOMAIN Routed : \A h \in {"domain_schema", "domain_enforce"} :
         Ended(trace, h, Routed[i], "continue")
    /\ Ended(trace, "structural_gates", "action", "continue")
    /\ \/ path = "hooks" /\ request.passive /\ request.safe
       \/ path = "hooks" /\ Ended(trace, "allow_gates", "action", "ALLOW")
       \/ path = "fast_path" /\ request.safe /\ ~flagged
       \/ path = "ai_path"

\* Fail closed: a hook that enforces and times out, crashes or is missing means
\* BLOCK, and nothing runs after it.
FailClosed ==
  \A i \in DOMAIN trace :
    trace[i].end \in Failure /\ trace[i].hook \notin Advisory =>
      verdict = "BLOCK" /\ i = Len(trace)

\* The trace explains the decision: a terminal record is the last one, the hooks
\* decided, and they decided what it says, except that enrich cannot allow.
TraceExplains ==
  \A i \in DOMAIN trace :
    trace[i].end \in Terminal =>
      /\ i = Len(trace)
      /\ path = "hooks"
      /\ verdict = IF trace[i].hook = "enrich" THEN "BLOCK" ELSE trace[i].end

\* Together, whatever hooks return.
DecisionSafe == TypeOK /\ FailClosed /\ TraceExplains

\* Every intent is decided, whatever a hook that awaits is waiting for.
Decided == <>(phase = "done")

-------------------------------------------------------------------------------
(* The decision as the lane sees it: one intent, whose handler has the lock. *)

Place ==
  CASE phase = "analysis" -> "analyzing"
    [] phase = "guardian" -> "validating"
    [] phase = "done" -> IF verdict = "ALLOW" THEN "executing" ELSE "done"
    [] OTHER -> "deciding"

Lane == INSTANCE SecurityLane WITH
  Req <- {"i"}, Late <- {}, PolicyEdits <- 0, Clears <- 0, Outages <- 1, CallFaults <- 0, MaxRestarts <- 0,
  policy <- IF request.permitted THEN {"i"} ELSE {},
  pc <- [r \in {"i"} |-> Place],
  context <- [r \in {"i"} |-> request.permitted],
  lane <- IF Place = "done" THEN <<>> ELSE <<"i">>,
  approved <- IF verdict = "ALLOW" THEN {"i"} ELSE {},
  auditLog <- IF verdict = "BLOCK" THEN <<[id |-> "i", decision |-> "BLOCK", executed |-> FALSE]>> ELSE <<>>,
  answer <- [r \in {"i"} |-> CASE verdict = "BLOCK" -> "blocked" [] verdict = "error" -> "error" [] OTHER -> "none"],
  recorded <- {}, outcome <- [r \in {"i"} |-> "none"], timeline <- <<>>, logStart <- 0,
  edits <- 0, clears <- 0, outages <- IF verdict = "error" THEN 1 ELSE 0, callFaults <- 0, restarts <- 0

\* Between the lock and the executor the decision path does what SecurityLane says
\* of a handler and nothing else (pipeline.py, from decide_async to validate): what
\* is proved of the lane holds with hooks, trace, analysis and guardian in it.
ImplementsLane ==
  /\ Place = "deciding" /\ verdict = "none"
  /\ [][Lane!Decide("i") \/ Lane!Analyze("i") \/ Lane!Validate("i") \/ Lane!ModelFails("i")]_(Lane!vars)
===============================================================================
