------------------------------ MODULE DecisionPath -----------------------------
(***************************************************************************)
(* How one intent is decided: DeterministicGuardian and the fixed order of   *)
(* bundle hooks that DeterministicRunner calls, then, for what they leave    *)
(* undecided, the analysis engine and the AI guardian.                       *)
(*                                                                          *)
(* A hook is called in one step and ends in another, so that it can be       *)
(* overdue.  Its deadline is wait_for's: it needs a hook that awaits.  What  *)
(* a hook may return or raise is the constant Returns.                       *)
(***************************************************************************)
EXTENDS Naturals, Sequences

CONSTANTS
  Routed,      \* the domains routed to the action, in the order of their names
  Returns,     \* what each hook may return or raise
  Blocking     \* hooks whose body never awaits

Hook == {"prepare_evidence", "enrich", "enforce_constraints", "domain_schema", "domain_enforce",
         "structural_gates", "passive_read", "allow_gates",
         "describe_constraints", "domain_describe", "build_ai_context"}
Sync == {"domain_schema", "domain_enforce", "passive_read", "domain_describe"}
OfDomain == {"domain_schema", "domain_enforce", "domain_describe"}
Advisory == {"describe_constraints", "build_ai_context"}

Terminal == {"BLOCK", "ALLOW"}
Failure == {"timeout", "crash", "unimplemented"}
End == {"continue", "skipped"} \cup Terminal \cup Failure

ASSUME DecisionAssumption ==
  /\ Routed \in Seq(STRING)
  /\ Returns \in [Hook \ {"passive_read"} -> SUBSET (End \ {"skipped", "timeout"})]
  /\ Blocking \subseteq Hook \ Sync

VARIABLES
  request,     \* what the policy and the bundle say of the action
  phase,       \* the hook or layer whose turn it is
  at,          \* the routed domain the loop has come to
  hook,        \* the hook that phase names: idle, running or overdue
  trace,       \* bundle-sdk.log: how each hook ended
  flagged,     \* did the analysis raise a risk flag?
  verdict,     \* the decision, or "error" when a model call raised
  path         \* the layer that decided

vars == <<request, phase, at, hook, trace, flagged, verdict, path>>

Request == [permitted : BOOLEAN, bundled : BOOLEAN, constrained : BOOLEAN,
            safe : BOOLEAN, passive : BOOLEAN]
Phase == {"permission", "analysis", "guardian", "done"} \cup Hook
Record == [hook : Hook, of : {"action"} \cup {Routed[i] : i \in DOMAIN Routed}, end : End, late : BOOLEAN]

Init ==
  /\ request \in Request
  /\ phase = "permission"
  /\ at = 0
  /\ hook = "idle"
  /\ trace = <<>>
  /\ flagged = FALSE
  /\ verdict = "none"
  /\ path = "none"

-------------------------------------------------------------------------------
Decide(v, p) ==
  /\ verdict' = v
  /\ path' = p
  /\ phase' = "done"
  /\ UNCHANGED at

GoTo(p, i) ==
  /\ phase' = p
  /\ at' = i
  /\ UNCHANGED <<verdict, path>>

\* Mutant: the loop over the domains ends one too early.
RoundShort(first, i, after) == IF i >= Len(Routed) THEN GoTo(after, 0) ELSE GoTo(first, i)

\* The loop over the routed domains, and what follows it.
Round(first, i, after) == IF i > Len(Routed) THEN GoTo(after, 0) ELSE GoTo(first, i)

\* The order of the lifecycle.
Proceed ==
  \/ phase = "prepare_evidence" /\ GoTo("enrich", 0)
  \/ phase = "enrich" /\ GoTo("enforce_constraints", 0)
  \/ phase = "enforce_constraints" /\ Round("domain_schema", 1, "structural_gates")
  \/ phase = "domain_schema" /\ GoTo("domain_enforce", at)
  \/ phase = "domain_enforce" /\ Round("domain_schema", at + 1, "structural_gates")
  \/ phase = "structural_gates" /\ GoTo("passive_read", 0)
  \/ phase = "passive_read" /\ GoTo("allow_gates", 0)
  \/ phase = "allow_gates" /\ GoTo("describe_constraints", 0)
  \/ phase = "describe_constraints" /\ Round("domain_describe", 1, "build_ai_context")
  \/ phase = "domain_describe" /\ Round("domain_describe", at + 1, "build_ai_context")
  \/ phase = "build_ai_context" /\ GoTo("analysis", 0)

-------------------------------------------------------------------------------
(* decide_async *)

\* Mutant: an action that some bundle serves needs no permission.
CheckBundle ==
  /\ phase = "permission"
  /\ IF request.bundled
     THEN GoTo("prepare_evidence", 0)
     ELSE Decide("BLOCK", "hooks")
  /\ UNCHANGED <<request, hook, trace, flagged>>

CheckPermission ==
  /\ phase = "permission"
  /\ IF request.permitted /\ request.bundled
     THEN GoTo("prepare_evidence", 0)
     ELSE Decide("BLOCK", "hooks")
  /\ UNCHANGED <<request, hook, trace, flagged>>

Traced(end) ==
  trace' = Append(trace, [hook |-> phase, of |-> IF phase \in OfDomain THEN Routed[at] ELSE "action",
                          end |-> end, late |-> hook = "overdue"])

Skipped == phase = "enforce_constraints" /\ ~request.constrained

SkipHook ==
  /\ Skipped
  /\ Traced("skipped")
  /\ Proceed
  /\ UNCHANGED <<request, hook, flagged>>

CallHook ==
  /\ phase \in Hook
  /\ hook = "idle"
  /\ ~Skipped
  /\ hook' = "running"
  /\ UNCHANGED <<request, phase, at, trace, flagged, verdict, path>>

\* Without constraints the SDK answers for the bundle's describe_constraints.
Undescribed == phase = "describe_constraints" /\ ~request.constrained

\* Nothing interrupts these.
Unbounded == phase \in Sync \cup Blocking \/ Undescribed

HookOverdue ==
  /\ hook = "running"
  /\ phase \notin Sync
  /\ ~Undescribed
  /\ hook' = "overdue"
  /\ UNCHANGED <<request, phase, at, trace, flagged, verdict, path>>

\* Mutant: failures of the structural gates are tolerated like those of the
\* context hooks.
GoesOnRegardless(end) ==
  end = "continue" \/ (phase \in Advisory \cup {"structural_gates"} /\ end \in {"timeout", "crash"})

\* A context hook that fails costs the prompt its material and no more.
GoesOn(end) == end = "continue" \/ (phase \in Advisory /\ end \in {"timeout", "crash"})

\* A decision of enrich is an exception, and every exception is a BLOCK.
HookEnds(end) ==
  /\ hook' = "idle"
  /\ Traced(end)
  /\ \/ GoesOn(end) /\ Proceed
     \/ ~GoesOn(end) /\ Decide(IF end = "ALLOW" /\ phase # "enrich" THEN "ALLOW" ELSE "BLOCK", "hooks")
  /\ UNCHANGED <<request, flagged>>

\* The shortcut for reading is the runner's own.
MayEnd ==
  IF phase = "passive_read" THEN {IF request.passive /\ request.safe THEN "ALLOW" ELSE "continue"}
  ELSE IF Undescribed THEN {"continue"}
  ELSE Returns[phase]

HookReturns ==
  /\ hook = "running" \/ (hook = "overdue" /\ Unbounded)
  /\ \E end \in MayEnd : HookEnds(end)

\* Mutant: the hooks that may call out are left without a deadline.
HookTimesOutSometimes ==
  /\ hook = "overdue"
  /\ ~Unbounded /\ phase # "enforce_constraints"
  /\ HookEnds("timeout")

HookTimesOut ==
  /\ hook = "overdue"
  /\ ~Unbounded
  /\ HookEnds("timeout")

-------------------------------------------------------------------------------
(* analyze, validate *)

\* What the analysis model answers, as far as somebody reads it: a level, which
\* is any text, and whether the scope does not match, behaviour is hidden or a
\* field is longer than its bound.
Output == [risk : {"LOW", "HIGH", "else"}, mismatch : BOOLEAN, hidden : BOOLEAN, overlong : BOOLEAN]

\* The report: a level that is none of the four counts as MEDIUM.
Report(output) ==
  [risk |-> IF output.risk = "else" THEN "MEDIUM" ELSE output.risk,
   mismatch |-> output.mismatch, hidden |-> output.hidden, anomaly |-> output.overlong]

HasRiskFlags(report) ==
  report.anomaly \/ report.mismatch \/ report.hidden \/ report.risk = "HIGH"

Analyze ==
  /\ phase = "analysis"
  /\ \E output \in Output : flagged' = HasRiskFlags(Report(output))
  /\ GoTo("guardian", 0)
  /\ UNCHANGED <<request, hook, trace>>

FastPath == request.safe /\ ~flagged

\* The guardian's word is any text.
Word == {"ALLOW", "BLOCK", "unclear"}

\* A model that says neither ALLOW nor BLOCK blocks.
Ruling(said) == IF said = "ALLOW" THEN "ALLOW" ELSE "BLOCK"

Validate ==
  /\ phase = "guardian"
  /\ IF FastPath THEN Decide("ALLOW", "fast_path")
     ELSE \E said \in Word : Decide(Ruling(said), "ai_path")
  /\ UNCHANGED <<request, hook, trace, flagged>>

\* The model's client raises; the fast path makes no call.
ModelFails ==
  /\ phase = "analysis" \/ (phase = "guardian" /\ ~FastPath)
  /\ Decide("error", "none")
  /\ UNCHANGED <<request, hook, trace, flagged>>

-------------------------------------------------------------------------------
Next ==
  \/ CheckPermission \/ SkipHook \/ CallHook \/ HookOverdue \/ HookReturns \/ HookTimesOut
  \/ Analyze \/ Validate \/ ModelFails

Spec == Init /\ [][Next]_vars

\* A hook that awaits need not return by itself; one that does not is taken to
\* return, and so are the calls of the model, whose client has a timeout.
Fairness ==
  /\ WF_vars(CheckPermission) /\ WF_vars(SkipHook) /\ WF_vars(CallHook)
  /\ WF_vars(HookOverdue) /\ WF_vars(HookTimesOut)
  /\ WF_vars(Unbounded /\ HookReturns)
  /\ WF_vars(Analyze \/ ModelFails) /\ WF_vars(Validate \/ ModelFails)

FairSpec == Spec /\ Fairness
===============================================================================
