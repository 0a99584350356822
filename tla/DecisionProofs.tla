----------------------------- MODULE DecisionProofs ----------------------------
(***************************************************************************)
(* The decision path for every list of routed domains, whatever the hooks   *)
(* return, raise or block on.                                               *)
(*                                                                          *)
(* Two invariants carry the proofs.  Quiet: as long as nothing is decided,  *)
(* no hook has ended in a way that decides.  Progress: a phase is reached   *)
(* only when every hook before it has let the intent pass.  With the first  *)
(* the path is shown to be the handler of SecurityLane.                     *)
(***************************************************************************)
EXTENDS DecisionProperties, TLAPS

Quiet ==
  /\ hook # "idle" => phase \in Hook
  /\ phase \in OfDomain => at \in DOMAIN Routed
  /\ phase # "done" =>
       /\ verdict = "none" /\ path = "none"
       /\ \A i \in DOMAIN trace :
            /\ trace[i].end \notin Terminal
            /\ trace[i].end \in Failure => trace[i].hook \in Advisory

QuietInd == TypeOK /\ Quiet /\ FailClosed /\ TraceExplains

-------------------------------------------------------------------------------
(* How the trace grows *)

LEMMA Appended ==
  ASSUME NEW S, NEW s \in Seq(S), NEW e \in S
  PROVE  /\ Append(s, e) \in Seq(S)
         /\ Len(Append(s, e)) = Len(s) + 1 /\ Len(s) \in Nat
         /\ DOMAIN s = 1..Len(s)
         /\ DOMAIN Append(s, e) = 1..(Len(s) + 1)
         /\ \A i \in 1..Len(s) : Append(s, e)[i] = s[i]
         /\ Append(s, e)[Len(s) + 1] = e
OBVIOUS

Grows(end) ==
  /\ trace' \in Seq(Record)
  /\ Len(trace') = Len(trace) + 1 /\ Len(trace) \in Nat
  /\ DOMAIN trace = 1..Len(trace) /\ DOMAIN trace' = 1..(Len(trace) + 1)
  /\ \A i \in 1..Len(trace) : trace'[i] = trace[i]
  /\ trace'[Len(trace) + 1].hook = phase
  /\ trace'[Len(trace) + 1].of = IF phase \in OfDomain THEN Routed[at] ELSE "action"
  /\ trace'[Len(trace) + 1].end = end

LEMMA TracedGrows ==
  ASSUME TypeOK, Quiet, phase \in Hook, NEW end \in End, Traced(end)
  PROVE  Grows(end)
<1>. DEFINE r == [hook |-> phase, of |-> IF phase \in OfDomain THEN Routed[at] ELSE "action",
                  end |-> end, late |-> hook = "overdue"]
<1>1. r \in Record
  BY DEF Quiet, Record
<1>2. trace \in Seq(Record) /\ trace' = Append(trace, r)
  BY DEF TypeOK, Traced
<1>3. r.hook = phase /\ r.of = (IF phase \in OfDomain THEN Routed[at] ELSE "action") /\ r.end = end
  OBVIOUS
<1>. HIDE DEF r
<1>. QED  BY <1>1, <1>2, <1>3, Appended DEF Grows

\* Both ways for a hook to end, and when the end can be an ALLOW.
LEMMA AHookEnds ==
  ASSUME TypeOK, Quiet, HookReturns \/ HookTimesOut
  PROVE  /\ phase \in Hook
         /\ \E end \in End \ {"skipped"} :
              /\ HookEnds(end)
              /\ end = "ALLOW" =>
                   \/ phase = "passive_read" /\ request.passive /\ request.safe
                   \/ phase # "passive_read" /\ "ALLOW" \in Returns[phase]
<1>1. phase \in Hook
  BY DEF Quiet, HookReturns, HookTimesOut
<1>2. CASE HookReturns
  <2>1. PICK end \in MayEnd : HookEnds(end)
    BY <1>2 DEF HookReturns
  <2>2. CASE phase = "passive_read"
    BY <2>1, <2>2, <1>1 DEF MayEnd, End, Terminal, Failure
  <2>3. CASE phase # "passive_read"
    <3>1. Returns[phase] \subseteq End \ {"skipped", "timeout"}
      BY <1>1, <2>3, DecisionAssumption
    <3>2. end \in Returns[phase] \cup {"continue"} /\ (end = "ALLOW" => end \in Returns[phase])
      BY <2>1, <2>3 DEF MayEnd
    <3>3. end \in End \ {"skipped"}
      BY <3>1, <3>2 DEF End, Terminal, Failure
    <3>. QED  BY <1>1, <2>1, <2>3, <3>2, <3>3
  <2>. QED  BY <2>2, <2>3
<1>3. CASE HookTimesOut
  <2>1. HookEnds("timeout") /\ "timeout" \in End \ {"skipped"}
    BY <1>3 DEF HookTimesOut, End, Terminal, Failure
  <2>. QED  BY <1>1, <2>1
<1>. QED  BY <1>2, <1>3

\* What Proceed leaves alone and where it may lead.
LEMMA ProceedMoves ==
  ASSUME TypeOK, Quiet, Proceed
  PROVE  /\ verdict' = verdict /\ path' = path
         /\ phase' \in Phase \ {"done", "permission"}
         /\ at' \in 0..Len(Routed)
         /\ phase' \in OfDomain => at' \in DOMAIN Routed
<1>. /\ Len(Routed) \in Nat /\ DOMAIN Routed = 1..Len(Routed)
     /\ at \in 0..Len(Routed)
     /\ phase \in OfDomain => at \in DOMAIN Routed
  BY DecisionAssumption DEF TypeOK, Quiet
<1>. QED  BY DEF Proceed, Round, GoTo, Phase, Hook, OfDomain

-------------------------------------------------------------------------------
(* Quiet is inductive *)

LEMMA QuietInit == Init => QuietInd
<1>. SUFFICES ASSUME Init PROVE QuietInd
  OBVIOUS
<1>1. Len(Routed) \in Nat /\ trace = <<>> /\ <<>> \in Seq(Record)
  BY DecisionAssumption DEF Init
<1>2. TypeOK
  <2>1. trace \in Seq(Record) /\ at \in 0..Len(Routed)
    BY <1>1 DEF Init
  <2>. QED  BY <2>1 DEF Init, TypeOK, Phase
<1>3. Quiet /\ FailClosed /\ TraceExplains
  BY <1>1 DEF Init, Quiet, FailClosed, TraceExplains, OfDomain
<1>. QED  BY <1>2, <1>3 DEF QuietInd

\* A step that lets the intent go on.
LEMMA GoingOn ==
  ASSUME QuietInd, phase \in Hook, Proceed, NEW end \in End, Traced(end),
         end \notin Terminal, end \in Failure => phase \in Advisory,
         hook' \in {"idle", hook}, hook' # "idle" => phase' \in Hook,
         UNCHANGED <<request, flagged>>
  PROVE  QuietInd'
<1>1. TypeOK /\ Quiet /\ phase # "done"
  BY DEF QuietInd, Hook
<1>2. Grows(end)
  BY <1>1, TracedGrows
<1>3. /\ verdict' = verdict /\ path' = path
      /\ phase' \in Phase \ {"done", "permission"}
      /\ at' \in 0..Len(Routed)
      /\ phase' \in OfDomain => at' \in DOMAIN Routed
  BY <1>1, ProceedMoves
<1>4. TypeOK'
  BY <1>1, <1>2, <1>3 DEF TypeOK, Grows
<1>5. \A i \in DOMAIN trace' :
        /\ trace'[i].end \notin Terminal
        /\ trace'[i].end \in Failure => trace'[i].hook \in Advisory
  <2>1. \A i \in DOMAIN trace :
          /\ trace[i].end \notin Terminal
          /\ trace[i].end \in Failure => trace[i].hook \in Advisory
    BY <1>1 DEF Quiet
  <2>. QED  BY <1>2, <2>1 DEF Grows
<1>6. Quiet'
  BY <1>1, <1>3, <1>5 DEF Quiet
<1>7. FailClosed' /\ TraceExplains'
  BY <1>5 DEF FailClosed, TraceExplains
<1>. QED  BY <1>4, <1>6, <1>7 DEF QuietInd

\* A step that decides.
LEMMA Deciding ==
  ASSUME QuietInd, phase \in Hook, NEW end \in End \ {"skipped", "continue"}, Traced(end),
         Decide(IF end = "ALLOW" /\ phase # "enrich" THEN "ALLOW" ELSE "BLOCK", "hooks"),
         hook' = "idle", UNCHANGED <<request, flagged>>
  PROVE  QuietInd'
<1>1. TypeOK /\ Quiet /\ phase # "done"
  BY DEF QuietInd, Hook
<1>2. Grows(end)
  BY <1>1, TracedGrows
<1>3. /\ phase' = "done" /\ at' = at /\ path' = "hooks"
      /\ verdict' = IF end = "ALLOW" /\ phase # "enrich" THEN "ALLOW" ELSE "BLOCK"
  BY DEF Decide
<1>4. TypeOK'
  BY <1>1, <1>2, <1>3 DEF TypeOK, Grows, Phase
<1>5. Quiet'
  BY <1>3 DEF Quiet, OfDomain
<1>6. \A i \in 1..Len(trace) : trace'[i] = trace[i] /\ i \in DOMAIN trace
  BY <1>2 DEF Grows
<1>7. FailClosed'
  <2>. SUFFICES ASSUME NEW i \in DOMAIN trace', trace'[i].end \in Failure, trace'[i].hook \notin Advisory
                PROVE  verdict' = "BLOCK" /\ i = Len(trace')
    BY DEF FailClosed
  <2>1. i \notin 1..Len(trace)
    BY <1>1, <1>6 DEF Quiet
  <2>2. i = Len(trace) + 1 /\ i = Len(trace')
    BY <1>2, <2>1 DEF Grows
  <2>. QED  BY <1>2, <1>3, <2>2 DEF Grows, Failure
<1>8. TraceExplains'
  <2>. SUFFICES ASSUME NEW i \in DOMAIN trace', trace'[i].end \in Terminal
                PROVE  /\ i = Len(trace') /\ path' = "hooks"
                       /\ verdict' = IF trace'[i].hook = "enrich" THEN "BLOCK" ELSE trace'[i].end
    BY DEF TraceExplains
  <2>1. i \notin 1..Len(trace)
    BY <1>1, <1>6 DEF Quiet
  <2>2. i = Len(trace) + 1 /\ i = Len(trace')
    BY <1>2, <2>1 DEF Grows
  <2>. QED  BY <1>2, <1>3, <2>2 DEF Grows, Terminal
<1>. QED  BY <1>4, <1>5, <1>7, <1>8 DEF QuietInd

LEMMA HookStep ==
  ASSUME QuietInd, HookReturns \/ HookTimesOut
  PROVE  QuietInd'
<1>1. PICK end \in End \ {"skipped"} : HookEnds(end) /\ phase \in Hook
  BY AHookEnds DEF QuietInd
<1>2. hook' = "idle" /\ Traced(end) /\ UNCHANGED <<request, flagged>>
  BY <1>1 DEF HookEnds
<1>3. CASE GoesOn(end) /\ Proceed
  BY <1>1, <1>2, <1>3, GoingOn DEF GoesOn, Terminal, Failure
<1>4. CASE ~GoesOn(end) /\ Decide(IF end = "ALLOW" /\ phase # "enrich" THEN "ALLOW" ELSE "BLOCK", "hooks")
  <2>1. end # "continue"
    BY <1>4 DEF GoesOn
  <2>. QED  BY <1>1, <1>2, <1>4, <2>1, Deciding
<1>. QED  BY <1>1, <1>3, <1>4 DEF HookEnds

LEMMA QuietStep == QuietInd /\ [Next]_vars => QuietInd'
<1>. SUFFICES ASSUME QuietInd, [Next]_vars PROVE QuietInd'
  OBVIOUS
<1>0. /\ TypeOK /\ Quiet /\ FailClosed /\ TraceExplains
      /\ Len(Routed) \in Nat /\ 0 \in 0..Len(Routed)
  BY DecisionAssumption DEF QuietInd
<1>1. CASE CheckPermission
  <2>1. phase = "permission" /\ UNCHANGED <<request, hook, trace, flagged>>
    BY <1>1 DEF CheckPermission
  <2>2. \/ phase' = "prepare_evidence" /\ at' = 0 /\ UNCHANGED <<verdict, path>>
        \/ phase' = "done" /\ at' = at /\ verdict' = "BLOCK" /\ path' = "hooks"
    BY <1>1 DEF CheckPermission, GoTo, Decide
  <2>3. TypeOK'
    BY <1>0, <2>1, <2>2 DEF TypeOK, Phase, Hook
  <2>4. Quiet'
    BY <1>0, <2>1, <2>2 DEF Quiet, Hook, OfDomain
  <2>5. FailClosed' /\ TraceExplains'
    BY <1>0, <2>1, <2>2 DEF Quiet, FailClosed, TraceExplains
  <2>. QED  BY <2>3, <2>4, <2>5 DEF QuietInd
<1>2. CASE SkipHook
  <2>1. /\ phase = "enforce_constraints" /\ Traced("skipped") /\ Proceed
        /\ UNCHANGED <<request, hook, flagged>>
    BY <1>2 DEF SkipHook, Skipped
  <2>2. phase' \in Hook
    BY <2>1 DEF Proceed, Round, GoTo, Hook
  <2>3. phase \in Hook /\ "skipped" \in End \ (Terminal \cup Failure)
    BY <2>1 DEF Hook, End, Terminal, Failure
  <2>. QED  BY <2>1, <2>2, <2>3, GoingOn
<1>3. CASE CallHook
  <2>1. phase \in Hook /\ hook' = "running" /\ UNCHANGED <<request, phase, at, trace, flagged, verdict, path>>
    BY <1>3 DEF CallHook
  <2>. QED  BY <1>0, <2>1 DEF QuietInd, TypeOK, Quiet, FailClosed, TraceExplains
<1>4. CASE HookOverdue
  <2>1. hook = "running" /\ hook' = "overdue" /\ UNCHANGED <<request, phase, at, trace, flagged, verdict, path>>
    BY <1>4 DEF HookOverdue
  <2>. QED  BY <1>0, <2>1 DEF QuietInd, TypeOK, Quiet, FailClosed, TraceExplains
<1>5. CASE HookReturns \/ HookTimesOut
  BY <1>5, HookStep
<1>6. CASE Analyze \/ Validate \/ ModelFails
  <2>1. /\ phase \in {"analysis", "guardian"} /\ UNCHANGED <<request, hook, trace>>
        /\ flagged' \in BOOLEAN
        /\ \/ phase' = "guardian" /\ at' = 0 /\ UNCHANGED <<verdict, path>>
           \/ /\ phase' = "done" /\ at' = at
              /\ verdict' \in {"ALLOW", "BLOCK", "error"}
              /\ path' \in {"fast_path", "ai_path", "none"}
    BY <1>0, <1>6 DEF TypeOK, Analyze, Validate, ModelFails, GoTo, Decide,
                       Output, Report, HasRiskFlags, Word, Ruling
  <2>2. TypeOK'
    BY <1>0, <2>1 DEF TypeOK, Phase
  <2>3. Quiet'
    BY <1>0, <2>1 DEF Quiet, Hook, OfDomain
  <2>4. \A i \in DOMAIN trace : trace[i].end \notin Terminal
                                /\ (trace[i].end \in Failure => trace[i].hook \in Advisory)
    BY <1>0, <2>1 DEF Quiet
  <2>5. FailClosed' /\ TraceExplains'
    BY <2>1, <2>4 DEF FailClosed, TraceExplains
  <2>. QED  BY <2>2, <2>3, <2>5 DEF QuietInd
<1>7. CASE UNCHANGED vars
  BY <1>0, <1>7 DEF QuietInd, vars, TypeOK, Quiet, FailClosed, TraceExplains
<1>. QED  BY <1>1, <1>2, <1>3, <1>4, <1>5, <1>6, <1>7 DEF Next

LEMMA QuietAlways == Spec => []QuietInd
<1>. QED  BY QuietInit, QuietStep, PTL DEF Spec

\* Every state of the decision path is of the type stated in TypeOK.
THEOREM DecisionTypeCorrect == Spec => []TypeOK
<1>1. QuietInd => TypeOK
  BY DEF QuietInd
<1>. QED  BY <1>1, QuietAlways, PTL

\* A hook that enforces and times out, crashes or is missing means BLOCK, and no
\* hook runs after it.
THEOREM DecisionFailsClosed == Spec => []FailClosed
<1>1. QuietInd => FailClosed
  BY DEF QuietInd
<1>. QED  BY <1>1, QuietAlways, PTL

\* A terminal record of the trace is the last one and is the decision.
THEOREM DecisionIsExplained == Spec => []TraceExplains
<1>1. QuietInd => TraceExplains
  BY DEF QuietInd
<1>. QED  BY <1>1, QuietAlways, PTL

\* Together: what the runner's trace and its failures say of the decision.
THEOREM DecisionIsSafe == Spec => []DecisionSafe
BY DecisionTypeCorrect, DecisionFailsClosed, DecisionIsExplained, PTL DEF DecisionSafe

-------------------------------------------------------------------------------
(* Who may allow *)

\* What the SDK asks of bundles: of the hooks only the allow gates allow.  The
\* runner makes a BLOCK of an ALLOW from enrich, so that one is not asked.
OnlyGatesAllow ==
  \A h \in Hook \ {"enrich", "passive_read", "allow_gates"} : "ALLOW" \notin Returns[h]

Past(t, k) ==
  \A i \in 1..k : \A h \in {"domain_schema", "domain_enforce"} : Ended(t, h, Routed[i], "continue")

AfterGates == {"passive_read", "allow_gates", "describe_constraints", "domain_describe",
               "build_ai_context", "analysis", "guardian"}
AfterDomains == {"structural_gates"} \cup AfterGates
AfterConstraints == {"domain_schema", "domain_enforce"} \cup AfterDomains

Progress ==
  /\ phase \notin {"permission", "done"} => request.permitted /\ request.bundled
  /\ phase \in AfterConstraints /\ request.constrained =>
       Ended(trace, "enforce_constraints", "action", "continue")
  /\ phase \in {"domain_schema", "domain_enforce"} => Past(trace, at - 1)
  /\ phase = "domain_enforce" => Ended(trace, "domain_schema", Routed[at], "continue")
  /\ phase \in AfterDomains => Past(trace, Len(Routed))
  /\ phase \in AfterGates => Ended(trace, "structural_gates", "action", "continue")

AllowInd == QuietInd /\ Progress /\ AllowIsEarned

\* What has ended stays ended, and the hook that ends is one of them.
LEMMA EndedStays ==
  ASSUME NEW end \in End, Grows(end)
  PROVE  /\ \A h, of, e : Ended(trace, h, of, e) => Ended(trace', h, of, e)
         /\ \A k \in Nat : Past(trace, k) => Past(trace', k)
         /\ Ended(trace', phase, IF phase \in OfDomain THEN Routed[at] ELSE "action", end)
<1>1. ASSUME NEW h, NEW of, NEW e, Ended(trace, h, of, e) PROVE Ended(trace', h, of, e)
  <2>1. PICK i \in 1..Len(trace) : trace[i].hook = h /\ trace[i].of = of /\ trace[i].end = e
    BY <1>1 DEF Ended, Grows
  <2>2. i \in DOMAIN trace' /\ trace'[i] = trace[i]
    BY <2>1 DEF Grows
  <2>. QED  BY <2>1, <2>2 DEF Ended
<1>2. ASSUME NEW k \in Nat, Past(trace, k) PROVE Past(trace', k)
  BY <1>1, <1>2 DEF Past
<1>3. Ended(trace', phase, IF phase \in OfDomain THEN Routed[at] ELSE "action", end)
  <2>1. Len(trace) + 1 \in DOMAIN trace'
    BY DEF Grows
  <2>. QED  BY <2>1 DEF Grows, Ended
<1>. QED  BY <1>1, <1>2, <1>3

LEMMA AllowInit == Init => AllowInd
<1>. SUFFICES ASSUME Init PROVE AllowInd
  OBVIOUS
<1>1. Progress /\ AllowIsEarned
  BY DEF Init, Progress, AllowIsEarned, AfterConstraints, AfterDomains, AfterGates
<1>. QED  BY <1>1, QuietInit DEF AllowInd

LEMMA ProgressGoesOn ==
  ASSUME QuietInd, Progress, phase \in Hook, Proceed, NEW end \in End, Traced(end), UNCHANGED request,
         end = "continue" \/ phase \in Advisory \/ Skipped
  PROVE  Progress'
<1>0. TypeOK /\ Quiet
  BY DEF QuietInd
<1>1. /\ Grows(end) /\ request' = request
      /\ Len(Routed) \in Nat /\ DOMAIN Routed = 1..Len(Routed)
      /\ phase \in OfDomain => at \in 1..Len(Routed)
  BY <1>0, TracedGrows, DecisionAssumption DEF Quiet
<1>2. /\ \A h, of, e : Ended(trace, h, of, e) => Ended(trace', h, of, e)
      /\ \A k \in Nat : Past(trace, k) => Past(trace', k)
      /\ Ended(trace', phase, IF phase \in OfDomain THEN Routed[at] ELSE "action", end)
  BY <1>1, EndedStays
<1>p. request.permitted /\ request.bundled
  BY DEF Progress, Hook
<1>3. CASE phase \in {"prepare_evidence", "enrich"}
  <2>1. phase' \in {"enrich", "enforce_constraints"}
    BY <1>3 DEF Proceed, Round, GoTo
  <2>. QED  BY <1>1, <1>p, <2>1 DEF Progress, AfterConstraints, AfterDomains, AfterGates
<1>4. CASE phase = "enforce_constraints"
  <2>1. \/ phase' = "structural_gates" /\ Len(Routed) = 0
        \/ phase' = "domain_schema" /\ at' = 1
    BY <1>1, <1>4 DEF Proceed, Round, GoTo
  <2>2. request.constrained => Ended(trace', "enforce_constraints", "action", "continue")
    BY <1>2, <1>4 DEF Skipped, Advisory, OfDomain
  <2>3. Past(trace', 0)
    BY DEF Past
  <2>. QED  BY <1>1, <1>p, <2>1, <2>2, <2>3 DEF Progress, AfterConstraints, AfterDomains, AfterGates
<1>5. CASE phase = "domain_schema"
  <2>1. phase' = "domain_enforce" /\ at' = at
    BY <1>5 DEF Proceed, GoTo
  <2>2. Ended(trace', "domain_schema", Routed[at], "continue")
    BY <1>2, <1>5 DEF Skipped, Advisory, OfDomain
  <2>3. Past(trace', at - 1)
    BY <1>1, <1>2, <1>5 DEF Progress, OfDomain
  <2>4. request.constrained => Ended(trace', "enforce_constraints", "action", "continue")
    BY <1>2, <1>5 DEF Progress, AfterConstraints
  <2>. QED  BY <1>1, <1>p, <2>1, <2>2, <2>3, <2>4 DEF Progress, AfterConstraints, AfterDomains, AfterGates
<1>6. CASE phase = "domain_enforce"
  <2>1. \/ phase' = "structural_gates" /\ at = Len(Routed)
        \/ phase' = "domain_schema" /\ at' = at + 1
    BY <1>1, <1>6 DEF Proceed, Round, GoTo, OfDomain
  <2>2. Ended(trace', "domain_enforce", Routed[at], "continue") /\ Ended(trace', "domain_schema", Routed[at], "continue")
    BY <1>2, <1>6 DEF Skipped, Advisory, OfDomain, Progress
  <2>3. Past(trace', at - 1) /\ at \in 1..Len(Routed)
    BY <1>1, <1>2, <1>6 DEF Progress, OfDomain
  <2>4. \A i \in 1..at : \A h \in {"domain_schema", "domain_enforce"} : Ended(trace', h, Routed[i], "continue")
    <3>1. \A i \in 1..(at - 1) : \A h \in {"domain_schema", "domain_enforce"} : Ended(trace', h, Routed[i], "continue")
      BY <2>3 DEF Past
    <3>2. \A i \in 1..at : i \in 1..(at - 1) \/ i = at
      BY <2>3
    <3>. QED  BY <2>2, <3>1, <3>2
  <2>5. request.constrained => Ended(trace', "enforce_constraints", "action", "continue")
    BY <1>2, <1>6 DEF Progress, AfterConstraints
  <2>6. CASE phase' = "structural_gates" /\ at = Len(Routed)
    <3>1. Past(trace', Len(Routed))
      BY <2>4, <2>6 DEF Past
    <3>. QED  BY <1>1, <1>p, <2>5, <2>6, <3>1 DEF Progress, AfterConstraints, AfterDomains, AfterGates
  <2>7. CASE phase' = "domain_schema" /\ at' = at + 1
    <3>1. at' - 1 = at
      BY <2>3, <2>7
    <3>2. Past(trace', at' - 1)
      BY <2>4, <3>1 DEF Past
    <3>. QED  BY <1>1, <1>p, <2>5, <2>7, <3>2 DEF Progress, AfterConstraints, AfterDomains, AfterGates
  <2>. QED  BY <2>1, <2>6, <2>7
<1>7. CASE phase \in AfterDomains
  <2>1. phase' \in AfterGates
    BY <1>7 DEF Proceed, Round, GoTo, AfterGates, AfterDomains
  <2>2. Past(trace', Len(Routed)) /\ (request.constrained => Ended(trace', "enforce_constraints", "action", "continue"))
    BY <1>1, <1>2, <1>7 DEF Progress, AfterConstraints
  <2>3. Ended(trace', "structural_gates", "action", "continue")
    <3>1. CASE phase = "structural_gates"
      BY <1>2, <3>1 DEF Skipped, Advisory, OfDomain
    <3>2. CASE phase \in AfterGates
      BY <1>2, <3>2 DEF Progress
    <3>. QED  BY <1>7, <3>1, <3>2 DEF AfterDomains
  <2>. QED  BY <1>1, <1>p, <2>1, <2>2, <2>3 DEF Progress, AfterConstraints, AfterDomains, AfterGates
<1>. QED  BY <1>3, <1>4, <1>5, <1>6, <1>7 DEF Hook, AfterDomains, AfterGates

\* The state before a hook or a layer allows, if those that do come after the gates.
LEMMA Earned ==
  ASSUME QuietInd, Progress, phase \in AfterGates
  PROVE  /\ request.permitted /\ request.bundled
         /\ request.constrained => Ended(trace, "enforce_constraints", "action", "continue")
         /\ \A i \in DOMAIN Routed : \A h \in {"domain_schema", "domain_enforce"} :
              Ended(trace, h, Routed[i], "continue")
         /\ Ended(trace, "structural_gates", "action", "continue")
<1>1. DOMAIN Routed = 1..Len(Routed)
  BY DecisionAssumption
<1>. QED  BY <1>1 DEF Progress, Past, AfterConstraints, AfterDomains, AfterGates

LEMMA AllowHookStep ==
  ASSUME OnlyGatesAllow, AllowInd, HookReturns \/ HookTimesOut
  PROVE  Progress' /\ AllowIsEarned'
<1>0. QuietInd /\ TypeOK /\ Quiet /\ Progress
  BY DEF AllowInd, QuietInd
<1>1. PICK end \in End \ {"skipped"} :
        /\ HookEnds(end) /\ phase \in Hook
        /\ end = "ALLOW" =>
             \/ phase = "passive_read" /\ request.passive /\ request.safe
             \/ phase # "passive_read" /\ "ALLOW" \in Returns[phase]
  BY <1>0, AHookEnds
<1>2. hook' = "idle" /\ Traced(end) /\ request' = request /\ flagged' = flagged
  BY <1>1 DEF HookEnds
<1>3. CASE GoesOn(end) /\ Proceed
  <2>1. Progress'
    BY <1>0, <1>1, <1>2, <1>3, ProgressGoesOn DEF GoesOn
  <2>2. verdict' = "none"
    BY <1>0, <1>1, <1>3, ProceedMoves DEF Quiet, Hook
  <2>. QED  BY <2>1, <2>2 DEF AllowIsEarned
<1>4. CASE Decide(IF end = "ALLOW" /\ phase # "enrich" THEN "ALLOW" ELSE "BLOCK", "hooks")
  <2>1. /\ phase' = "done" /\ path' = "hooks"
        /\ verdict' = IF end = "ALLOW" /\ phase # "enrich" THEN "ALLOW" ELSE "BLOCK"
    BY <1>4 DEF Decide
  <2>2. Progress'
    BY <2>1 DEF Progress, AfterConstraints, AfterDomains, AfterGates
  <2>3. ASSUME verdict' = "ALLOW" PROVE AllowIsEarned'
    <3>1. \/ phase = "passive_read" /\ request.passive /\ request.safe
          \/ phase = "allow_gates" /\ end = "ALLOW"
      BY <1>1, <2>1, <2>3 DEF OnlyGatesAllow
    <3>2. phase \in AfterGates /\ phase \notin OfDomain
      BY <3>1 DEF AfterGates, OfDomain
    <3>3. Grows(end)
      BY <1>0, <1>1, <1>2, TracedGrows
    <3>4. /\ \A h, of, e : Ended(trace, h, of, e) => Ended(trace', h, of, e)
          /\ Ended(trace', phase, "action", end)
      BY <3>2, <3>3, EndedStays
    <3>5. /\ request.permitted /\ request.bundled
          /\ request.constrained => Ended(trace', "enforce_constraints", "action", "continue")
          /\ \A i \in DOMAIN Routed : \A h \in {"domain_schema", "domain_enforce"} :
               Ended(trace', h, Routed[i], "continue")
          /\ Ended(trace', "structural_gates", "action", "continue")
      BY <1>0, <3>2, <3>4, Earned
    <3>6. \/ path' = "hooks" /\ request'.passive /\ request'.safe
          \/ path' = "hooks" /\ Ended(trace', "allow_gates", "action", "ALLOW")
      BY <1>2, <2>1, <3>1, <3>4
    <3>. QED  BY <1>2, <3>5, <3>6 DEF AllowIsEarned
  <2>. QED  BY <2>2, <2>3 DEF AllowIsEarned
<1>. QED  BY <1>1, <1>3, <1>4 DEF HookEnds

LEMMA AllowStep ==
  ASSUME OnlyGatesAllow
  PROVE  AllowInd /\ [Next]_vars => AllowInd'
<1>. SUFFICES ASSUME AllowInd, [Next]_vars PROVE Progress' /\ AllowIsEarned'
  BY QuietStep DEF AllowInd
<1>0. QuietInd /\ TypeOK /\ Quiet /\ Progress /\ AllowIsEarned
  BY DEF AllowInd, QuietInd
<1>1. CASE CheckPermission
  BY <1>0, <1>1 DEF CheckPermission, GoTo, Decide, Progress, AllowIsEarned, Quiet,
                    AfterConstraints, AfterDomains, AfterGates
<1>2. CASE SkipHook
  <2>1. Skipped /\ phase \in Hook /\ "skipped" \in End /\ Traced("skipped") /\ Proceed /\ UNCHANGED request
    BY <1>2 DEF SkipHook, Skipped, Hook, End
  <2>2. verdict' = "none"
    BY <1>0, <2>1, ProceedMoves DEF Quiet, Hook
  <2>. QED  BY <1>0, <2>1, <2>2, ProgressGoesOn DEF AllowIsEarned
<1>3. CASE CallHook \/ HookOverdue \/ UNCHANGED vars
  <2>1. UNCHANGED <<request, phase, at, trace, flagged, verdict, path>>
    BY <1>3 DEF CallHook, HookOverdue, vars
  <2>. QED  BY <1>0, <2>1 DEF Progress, AllowIsEarned
<1>4. CASE HookReturns \/ HookTimesOut
  BY <1>4, AllowHookStep
<1>5. CASE Analyze
  <2>1. phase = "analysis" /\ phase' = "guardian" /\ UNCHANGED <<request, trace, verdict>>
    BY <1>5 DEF Analyze, GoTo
  <2>2. verdict' = "none"
    BY <1>0, <2>1 DEF Quiet
  <2>3. AllowIsEarned'
    BY <2>2 DEF AllowIsEarned
  <2>. QED  BY <1>0, <2>1, <2>3 DEF Progress, AfterConstraints, AfterDomains, AfterGates
<1>6. CASE Validate \/ ModelFails
  <2>1. /\ phase \in AfterGates /\ phase' = "done" /\ UNCHANGED <<request, trace, flagged>>
        /\ verdict' = "ALLOW" => path' = "ai_path" \/ (path' = "fast_path" /\ request.safe /\ ~flagged)
    BY <1>6 DEF Validate, ModelFails, Decide, FastPath, AfterGates, Word, Ruling
  <2>2. Progress'
    BY <2>1 DEF Progress, AfterConstraints, AfterDomains, AfterGates
  <2>3. /\ request.permitted /\ request.bundled
        /\ request.constrained => Ended(trace', "enforce_constraints", "action", "continue")
        /\ \A i \in DOMAIN Routed : \A h \in {"domain_schema", "domain_enforce"} :
             Ended(trace', h, Routed[i], "continue")
        /\ Ended(trace', "structural_gates", "action", "continue")
    BY <1>0, <2>1, Earned DEF Ended
  <2>. QED  BY <2>1, <2>2, <2>3 DEF AllowIsEarned
<1>. QED  BY <1>1, <1>2, <1>3, <1>4, <1>5, <1>6 DEF Next

\* An ALLOW is earned, whichever layer gives it, if bundles keep the contract of
\* the SDK that only allow_gates allows.
THEOREM AllowsAreEarned ==
  ASSUME OnlyGatesAllow
  PROVE  Spec => []AllowIsEarned
<1>1. AllowInd => AllowIsEarned
  BY DEF AllowInd
<1>2. AllowInd /\ [Next]_vars => AllowInd'
  BY AllowStep
<1>. QED  BY <1>1, <1>2, AllowInit, PTL DEF Spec

-------------------------------------------------------------------------------
(* The decision path is the lane's handler: every step of it is a step of   *)
(* SecurityLane's handler that has the lock, or none.                        *)

\* Past the first check the policy permits the action.
Permitted == phase \notin {"permission", "done"} => request.permitted

\* What the lane sees when the handler's step ends like this.
Sees(v, p) == request' = request /\ verdict' = v /\ Place' = p

LaneStep == Lane!Decide("i") \/ Lane!Analyze("i") \/ Lane!Validate("i") \/ Lane!ModelFails("i")

LEMMA Places ==
  /\ phase \notin {"analysis", "guardian", "done"} => Place = "deciding"
  /\ phase = "analysis" => Place = "analyzing"
  /\ phase = "guardian" => Place = "validating"
  /\ phase = "done" => Place = IF verdict = "ALLOW" THEN "executing" ELSE "done"
BY DEF Place

LEMMA PlacesNext ==
  /\ phase' \notin {"analysis", "guardian", "done"} => Place' = "deciding"
  /\ phase' = "analysis" => Place' = "analyzing"
  /\ phase' = "guardian" => Place' = "validating"
  /\ phase' = "done" => Place' = IF verdict' = "ALLOW" THEN "executing" ELSE "done"
BY DEF Place

LEMMA LaneStutters ==
  ASSUME Sees(verdict, Place)
  PROVE  UNCHANGED Lane!vars
BY DEF Sees, Lane!vars, Lane!execVars, Lane!boundVars

LEMMA LaneLeaves ==
  ASSUME NEW from \in {"deciding", "analyzing", "validating"}, Place = from, verdict = "none",
         NEW v, NEW a, Sees(v, "done"),
         \/ v = "BLOCK" /\ a = "blocked"
         \/ v = "error" /\ a = "error"
  PROVE  /\ Lane!LoopFree /\ Lane!Leave("i", from, a)
         /\ v = "BLOCK" => Lane!Log("i", "BLOCK", FALSE)
<1>1. Tail(<<"i">>) = <<>>
  OBVIOUS
<1>2. Append(<<>>, [id |-> "i", decision |-> "BLOCK", executed |-> FALSE])
        = <<[id |-> "i", decision |-> "BLOCK", executed |-> FALSE]>>
  OBVIOUS
<1>3. Lane!LoopFree /\ Lane!Goto("i", from, "done")
  BY DEF Sees, Lane!LoopFree, Lane!Goto
<1>4. Place # "done" /\ Place' = "done" /\ verdict' = v
  BY DEF Sees
<1>5. Lane!Leave("i", from, a)
  BY <1>1, <1>3, <1>4 DEF Lane!Leave
<1>6. v = "BLOCK" => Lane!Log("i", "BLOCK", FALSE)
  BY <1>2, <1>4 DEF Lane!Log
<1>. QED  BY <1>3, <1>5, <1>6

LEMMA LaneBlocks ==
  ASSUME Place \in {"deciding", "validating"}, verdict = "none", Sees("BLOCK", "done")
  PROVE  LaneStep
<1>1. CASE Place = "deciding"
  <2>1. Lane!DecideBlock("i")
    BY <1>1, LaneLeaves DEF Sees, Lane!DecideBlock, Lane!execVars, Lane!boundVars
  <2>. QED  BY <2>1 DEF LaneStep, Lane!Decide
<1>2. CASE Place = "validating"
  <2>1. Lane!ValidateBlock("i")
    BY <1>2, LaneLeaves DEF Sees, Lane!ValidateBlock, Lane!execVars, Lane!boundVars
  <2>. QED  BY <2>1 DEF LaneStep, Lane!Validate
<1>. QED  BY <1>1, <1>2

LEMMA LaneAllows ==
  ASSUME Place \in {"deciding", "validating"}, verdict = "none", request.permitted, Sees("ALLOW", "executing")
  PROVE  LaneStep
<1>1. CASE Place = "deciding"
  <2>1. Lane!DecideAllow("i")
    BY <1>1 DEF Sees, Lane!DecideAllow, Lane!Approve, Lane!LoopFree, Lane!Goto, Lane!execVars, Lane!boundVars
  <2>. QED  BY <2>1 DEF LaneStep, Lane!Decide
<1>2. CASE Place = "validating"
  <2>1. Lane!ValidateAllow("i")
    BY <1>2 DEF Sees, Lane!ValidateAllow, Lane!Approve, Lane!LoopFree, Lane!Goto, Lane!execVars, Lane!boundVars
  <2>. QED  BY <2>1 DEF LaneStep, Lane!Validate
<1>. QED  BY <1>1, <1>2

LEMMA LaneGoesOn ==
  ASSUME verdict = "none",
         \/ Place = "deciding" /\ request.permitted /\ Sees("none", "analyzing")
         \/ Place = "analyzing" /\ Sees("none", "validating")
  PROVE  LaneStep
<1>1. CASE Place = "deciding" /\ request.permitted /\ Sees("none", "analyzing")
  <2>1. Lane!DecideUndecided("i")
    BY <1>1 DEF Sees, Lane!DecideUndecided, Lane!LoopFree, Lane!Goto, Lane!execVars, Lane!boundVars
  <2>. QED  BY <2>1 DEF LaneStep, Lane!Decide
<1>2. CASE Place = "analyzing" /\ Sees("none", "validating")
  <2>1. Lane!Analyze("i")
    BY <1>2 DEF Sees, Lane!Analyze, Lane!LoopFree, Lane!Goto, Lane!execVars, Lane!boundVars
  <2>. QED  BY <2>1 DEF LaneStep
<1>. QED  BY <1>1, <1>2

LEMMA LaneRaises ==
  ASSUME Place \in {"analyzing", "validating"}, verdict = "none", Sees("error", "done")
  PROVE  LaneStep
<1>1. \/ Lane!LoopFree /\ Lane!Leave("i", "analyzing", "error")
      \/ Lane!LoopFree /\ Lane!Leave("i", "validating", "error")
  BY LaneLeaves
<1>2. Lane!Outage
  BY DEF Sees, Lane!Outage
<1>3. Lane!ModelFails("i")
  BY <1>1, <1>2 DEF Sees, Lane!ModelFails, Lane!execVars, Lane!boundVars
<1>. QED  BY <1>3 DEF LaneStep

-------------------------------------------------------------------------------
LEMMA PermittedStep ==
  ASSUME QuietInd, Permitted, [Next]_vars
  PROVE  Permitted'
<1>0. TypeOK /\ Quiet
  BY DEF QuietInd
<1>1. CASE CheckPermission
  BY <1>1 DEF CheckPermission, GoTo, Decide, Permitted
<1>2. CASE SkipHook \/ CallHook \/ HookOverdue
  BY <1>2 DEF SkipHook, Skipped, CallHook, HookOverdue, Permitted, Hook
<1>3. CASE HookReturns \/ HookTimesOut
  <2>1. phase \in Hook /\ \E end \in End \ {"skipped"} : HookEnds(end)
    BY <1>0, <1>3, AHookEnds
  <2>. QED  BY <2>1 DEF HookEnds, Permitted, Hook
<1>4. CASE Analyze \/ Validate \/ ModelFails
  BY <1>4 DEF Analyze, Validate, ModelFails, Decide, Permitted
<1>5. CASE UNCHANGED vars
  BY <1>5 DEF vars, Permitted
<1>. QED  BY <1>1, <1>2, <1>3, <1>4, <1>5 DEF Next

\* A hook that ends, or is skipped, and lets the intent go on.
LEMMA ProceedInLane ==
  ASSUME QuietInd, Permitted, phase \in Hook, Proceed, request' = request
  PROVE  LaneStep \/ UNCHANGED Lane!vars
<1>1. TypeOK /\ Quiet /\ verdict = "none" /\ Place = "deciding" /\ request.permitted
  BY Places DEF QuietInd, Quiet, Permitted, Hook
<1>2. verdict' = "none"
  BY <1>1, ProceedMoves
<1>3. phase' = "analysis" \/ phase' \in Hook
  BY DEF Proceed, Round, GoTo, Hook
<1>4. CASE phase' = "analysis"
  <2>1. Sees("none", "analyzing")
    BY <1>2, <1>4, PlacesNext DEF Sees
  <2>. QED  BY <1>1, <2>1, LaneGoesOn
<1>5. CASE phase' \in Hook
  <2>1. Sees(verdict, Place)
    BY <1>1, <1>2, <1>5, PlacesNext DEF Sees, Hook
  <2>. QED  BY <2>1, LaneStutters
<1>. QED  BY <1>3, <1>4, <1>5

LEMMA HookInLane ==
  ASSUME QuietInd, Permitted, HookReturns \/ HookTimesOut
  PROVE  LaneStep \/ UNCHANGED Lane!vars
<1>1. PICK end \in End \ {"skipped"} : HookEnds(end) /\ phase \in Hook
  BY AHookEnds DEF QuietInd
<1>2. request' = request
  BY <1>1 DEF HookEnds
<1>3. CASE Proceed
  BY <1>1, <1>2, <1>3, ProceedInLane
<1>4. CASE Decide(IF end = "ALLOW" /\ phase # "enrich" THEN "ALLOW" ELSE "BLOCK", "hooks")
  <2>1. verdict = "none" /\ Place = "deciding" /\ request.permitted
    BY <1>1, Places DEF QuietInd, Quiet, Permitted, Hook
  <2>2. \/ Sees("ALLOW", "executing")
        \/ Sees("BLOCK", "done")
    BY <1>2, <1>4, PlacesNext DEF Decide, Sees
  <2>. QED  BY <2>1, <2>2, LaneAllows, LaneBlocks
<1>. QED  BY <1>1, <1>3, <1>4 DEF HookEnds

LEMMA ModelsInLane ==
  ASSUME QuietInd, Permitted, Analyze \/ Validate \/ ModelFails
  PROVE  LaneStep
<1>0. /\ verdict = "none" /\ request.permitted /\ request' = request
      /\ phase = "analysis" => Place = "analyzing"
      /\ phase = "guardian" => Place = "validating"
  BY Places DEF QuietInd, Quiet, Permitted, Analyze, Validate, ModelFails
<1>1. CASE Analyze
  <2>1. Place = "analyzing" /\ Sees("none", "validating")
    BY <1>0, <1>1, PlacesNext DEF Analyze, GoTo, Sees
  <2>. QED  BY <1>0, <2>1, LaneGoesOn
<1>2. CASE Validate
  <2>1. phase' = "done" /\ verdict' \in {"ALLOW", "BLOCK"} /\ Place = "validating"
    BY <1>0, <1>2 DEF Validate, Decide, Ruling
  <2>2. Sees("ALLOW", "executing") \/ Sees("BLOCK", "done")
    BY <1>0, <2>1, PlacesNext DEF Sees
  <2>. QED  BY <1>0, <2>1, <2>2, LaneAllows, LaneBlocks
<1>3. CASE ModelFails
  <2>1. Place \in {"analyzing", "validating"} /\ Sees("error", "done")
    BY <1>0, <1>3, PlacesNext DEF ModelFails, Decide, Sees
  <2>. QED  BY <1>0, <2>1, LaneRaises
<1>. QED  BY <1>1, <1>2, <1>3

LEMMA StepInLane ==
  ASSUME QuietInd, Permitted, [Next]_vars
  PROVE  LaneStep \/ UNCHANGED Lane!vars
<1>1. CASE CheckPermission
  <2>1. verdict = "none" /\ Place = "deciding" /\ request' = request
    BY <1>1, Places DEF QuietInd, Quiet, CheckPermission
  <2>2. Sees(verdict, Place) \/ Sees("BLOCK", "done")
    BY <1>1, <2>1, PlacesNext DEF CheckPermission, GoTo, Decide, Sees
  <2>. QED  BY <2>1, <2>2, LaneBlocks, LaneStutters
<1>2. CASE SkipHook
  <2>1. phase \in Hook /\ Proceed /\ request' = request
    BY <1>2 DEF SkipHook, Skipped, Hook
  <2>. QED  BY <2>1, ProceedInLane
<1>3. CASE CallHook \/ HookOverdue \/ UNCHANGED vars
  <2>1. UNCHANGED <<request, phase, verdict>>
    BY <1>3 DEF CallHook, HookOverdue, vars
  <2>2. Sees(verdict, Place)
    BY <2>1 DEF Sees, Place
  <2>. QED  BY <2>2, LaneStutters
<1>4. CASE HookReturns \/ HookTimesOut
  BY <1>4, HookInLane
<1>5. CASE Analyze \/ Validate \/ ModelFails
  BY <1>5, ModelsInLane
<1>. QED  BY <1>1, <1>2, <1>3, <1>4, <1>5 DEF Next

LEMMA PermittedAlways == Spec => [](QuietInd /\ Permitted)
<1>1. Init => Permitted
  BY DEF Init, Permitted
<1>2. QuietInd /\ Permitted /\ [Next]_vars => Permitted'
  BY PermittedStep
<1>. QED  BY <1>1, <1>2, QuietAlways, PTL DEF Spec

\* For every list of routed domains and whatever hooks do, the decision path
\* takes the steps of SecurityLane's handler and no others, one by one: a lane
\* whose handlers decide like this satisfies all that is proved of lanes.
THEOREM DecisionImplementsLane == Spec => ImplementsLane
<1>1. Init => Place = "deciding" /\ verdict = "none"
  BY Places DEF Init
<1>2. QuietInd /\ Permitted /\ [Next]_vars =>
        [Lane!Decide("i") \/ Lane!Analyze("i") \/ Lane!Validate("i") \/ Lane!ModelFails("i")]_(Lane!vars)
  BY StepInLane DEF LaneStep
<1>. QED  BY <1>1, <1>2, PermittedAlways, PTL DEF Spec, ImplementsLane
===============================================================================
