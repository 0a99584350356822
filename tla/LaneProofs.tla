------------------------------- MODULE LaneProofs ------------------------------
(***************************************************************************)
(* The security lane for every set of intents and any number of policy      *)
(* edits, faults and restarts.                                              *)
(*                                                                          *)
(* The inductive invariant has four parts, each inductive relative to those *)
(* before it: the types, the queue, who is approved, what is reported.      *)
(***************************************************************************)
EXTENDS LaneProperties, TLAPS

Members(s) == {s[i] : i \in DOMAIN s}
Once(s) == \A i, j \in DOMAIN s : s[i] = s[j] => i = j

Queue ==
  /\ Members(lane) = {r \in Req : InFlight(r)}
  /\ Once(lane)
  /\ \A r \in Req : pc[r] \in Inside => lane # <<>> /\ Head(lane) = r

Approvals ==
  /\ \A r \in Req : pc[r] \in {"idle", "waiting", "deciding", "analyzing", "validating"} => r \notin approved
  /\ \A r \in Req : pc[r] \in {"analyzing", "validating"} => context[r]
  /\ \A r \in Req : pc[r] = "executing" => r \in approved
  /\ \A r \in approved : context[r]
  /\ recorded \subseteq approved /\ Acted \subseteq recorded
  /\ \A r \in Req : answer[r] = "blocked" => pc[r] = "done" /\ r \notin approved

Reports ==
  /\ \A r \in Req : outcome[r] = "ok" => r \in Acted
  /\ \A r \in Req : answer[r] = "ok" => r \in Acted
  /\ \A i \in DOMAIN auditLog :
       /\ pc[auditLog[i].id] = "done"
       /\ auditLog[i].executed => auditLog[i].id \in Acted
       /\ auditLog[i].decision = "BLOCK" => auditLog[i].id \notin approved
       /\ \A j \in DOMAIN auditLog : auditLog[i].id = auditLog[j].id => i = j

LaneInd == TypeOK /\ Queue /\ Approvals /\ Reports

-------------------------------------------------------------------------------
(* Queues as sequences without repetition *)

LEMMA MembersOfAppend ==
  ASSUME NEW S, NEW s \in Seq(S), NEW r \in S
  PROVE  /\ Append(s, r) \in Seq(S)
         /\ Append(s, r) # <<>>
         /\ Members(Append(s, r)) = Members(s) \cup {r}
         /\ Head(Append(s, r)) = IF s = <<>> THEN r ELSE Head(s)
         /\ r \notin Members(s) /\ Once(s) => Once(Append(s, r))
<1>1. /\ Append(s, r) \in Seq(S)
      /\ DOMAIN s = 1..Len(s) /\ Len(s) \in Nat
      /\ DOMAIN Append(s, r) = 1..(Len(s) + 1)
      /\ Append(s, r)[Len(s) + 1] = r
      /\ \A i \in 1..Len(s) : Append(s, r)[i] = s[i]
  OBVIOUS
<1>2. Append(s, r) # <<>> /\ Head(Append(s, r)) = IF s = <<>> THEN r ELSE Head(s)
  <2>1. CASE s = <<>>
    BY <2>1
  <2>2. CASE s # <<>>
    <3>1. Len(s) \in Nat \ {0} /\ Head(s) = s[1]
      BY <2>2
    <3>2. Len(Append(s, r)) = Len(s) + 1 /\ Head(Append(s, r)) = Append(s, r)[1]
      OBVIOUS
    <3>3. Append(s, r) # <<>>
      BY <3>1, <3>2
    <3>. QED  BY <2>2, <3>1, <3>2, <3>3, <1>1
  <2>. QED  BY <2>1, <2>2
<1>3. Members(Append(s, r)) = Members(s) \cup {r}
  <2>. DEFINE t == Append(s, r)
  <2>1. ASSUME NEW x \in Members(t) PROVE x \in Members(s) \cup {r}
    BY <1>1 DEF Members
  <2>2. ASSUME NEW x \in Members(s) PROVE x \in Members(t)
    BY <1>1 DEF Members
  <2>3. r \in Members(t)
    BY <1>1 DEF Members
  <2>. QED  BY <2>1, <2>2, <2>3, Zenon
<1>4. ASSUME r \notin Members(s), Once(s) PROVE Once(Append(s, r))
  BY <1>1, <1>4 DEF Members, Once
<1>. QED  BY <1>1, <1>2, <1>3, <1>4, Zenon

LEMMA MembersOfTail ==
  ASSUME NEW S, NEW s \in Seq(S), s # <<>>
  PROVE  /\ Tail(s) \in Seq(S)
         /\ Head(s) \in Members(s)
         /\ Once(s) => /\ Once(Tail(s))
                       /\ Members(Tail(s)) = Members(s) \ {Head(s)}
<1>1. /\ Len(s) \in Nat \ {0} /\ DOMAIN s = 1..Len(s)
      /\ Head(s) = s[1]
      /\ Tail(s) \in Seq(S)
      /\ DOMAIN Tail(s) = 1..(Len(s) - 1)
      /\ \A i \in 1..(Len(s) - 1) : Tail(s)[i] = s[i + 1]
  OBVIOUS
<1>2. Head(s) \in Members(s)
  BY <1>1 DEF Members
<1>3. ASSUME Once(s) PROVE Once(Tail(s))
  BY <1>1, <1>3 DEF Once
<1>4. ASSUME Once(s) PROVE Members(Tail(s)) = Members(s) \ {Head(s)}
  <2>. DEFINE t == Tail(s)
  <2>1. ASSUME NEW x \in Members(t) PROVE x \in Members(s) \ {Head(s)}
    <3>1. PICK i \in 1..(Len(s) - 1) : x = t[i]
      BY <1>1 DEF Members
    <3>2. x = s[i + 1] /\ i + 1 \in DOMAIN s /\ 1 \in DOMAIN s /\ i + 1 # 1
      BY <1>1, <3>1
    <3>. QED  BY <3>2, <1>1, <1>4 DEF Members, Once
  <2>2. ASSUME NEW x \in Members(s), x # Head(s) PROVE x \in Members(t)
    <3>1. PICK i \in 1..Len(s) : x = s[i]
      BY <1>1 DEF Members
    <3>2. i - 1 \in 1..(Len(s) - 1) /\ t[i - 1] = x
      BY <1>1, <2>2, <3>1
    <3>. QED  BY <3>2, <1>1 DEF Members
  <2>. QED  BY <2>1, <2>2
<1>. QED  BY <1>1, <1>2, <1>3, <1>4, Zenon

LEMMA ActedIsMembers == Acted = Members(timeline) /\ Acted' = Members(timeline')
  BY DEF Acted, Members
-------------------------------------------------------------------------------
(* Types *)

LEMMA InitTypes == Init => TypeOK
  BY LaneAssumption DEF Init, TypeOK, Pc, Inside, Answer, Executor!Init

\* The handler's end, as the actions that end it use it.
LEMMA LeaveTypes ==
  ASSUME TypeOK, NEW r \in Req, NEW from \in Inside, NEW a \in Answer,
         lane # <<>>, Leave(r, from, a)
  PROVE  /\ pc' \in [Req -> Pc]
         /\ lane' \in Seq(Req)
         /\ answer' \in [Req -> Answer]
  BY MembersOfTail DEF TypeOK, Leave, Goto, Pc

LEMMA StepTypes ==
  ASSUME TypeOK, Queue, [Next]_vars
  PROVE  TypeOK'
<1>. USE DEF TypeOK
<1>1. ASSUME NEW r \in Req, Resolve(r) PROVE TypeOK'
  BY <1>1, MembersOfAppend DEF Resolve, Arrives, Pc, Inside, execVars, boundVars
<1>2. ASSUME NEW r \in Req, ResolveFails(r) PROVE TypeOK'
  BY <1>2, LaneAssumption DEF ResolveFails, Arrives, Outage, Pc, Answer, execVars
<1>3. ASSUME NEW r \in Req, Acquire(r) PROVE TypeOK'
  BY <1>3 DEF Acquire, Goto, Pc, Inside, execVars, boundVars
<1>4. ASSUME NEW r \in Req, Decide(r) \/ Analyze(r) \/ Validate(r) PROVE TypeOK'
  <2>1. CASE DecideBlock(r) \/ ValidateBlock(r)
    <3>1. PICK from \in {"deciding", "validating"} : Leave(r, from, "blocked")
      BY <2>1 DEF DecideBlock, ValidateBlock
    <3>2. lane # <<>> /\ from \in Inside /\ "blocked" \in Answer
      BY <3>1 DEF Queue, Leave, Goto, Inside, Answer
    <3>. DEFINE e == [id |-> r, decision |-> "BLOCK", executed |-> FALSE]
    <3>3. e \in Entry /\ auditLog' = Append(auditLog, e)
      BY <2>1 DEF Entry, DecideBlock, ValidateBlock, Log
    <3>4. auditLog' \in Seq(Entry)
      BY <3>3, MembersOfAppend
    <3>5. pc' \in [Req -> Pc] /\ lane' \in Seq(Req) /\ answer' \in [Req -> Answer]
      BY <3>1, <3>2, LeaveTypes
    <3>6. UNCHANGED <<policy, context, approved, logStart, execVars, boundVars>>
      BY <2>1 DEF DecideBlock, ValidateBlock
    <3>. QED  BY <3>4, <3>5, <3>6 DEF execVars, boundVars
  <2>2. CASE DecideAllow(r) \/ ValidateAllow(r)
    BY <2>2 DEF DecideAllow, ValidateAllow, Approve, Goto, Pc, Inside, execVars, boundVars
  <2>3. CASE DecideUndecided(r) \/ Analyze(r)
    BY <2>3 DEF DecideUndecided, Analyze, Goto, Pc, Inside, execVars, boundVars
  <2>. QED  BY <1>4, <2>1, <2>2, <2>3 DEF Decide, Validate
<1>5. ASSUME NEW r \in Req, ModelFails(r) PROVE TypeOK'
  <2>1. PICK from \in {"analyzing", "validating"} : Leave(r, from, "error")
    BY <1>5 DEF ModelFails
  <2>2. lane # <<>> /\ from \in Inside /\ "error" \in Answer
    BY <2>1 DEF Queue, Leave, Goto, Inside, Answer
  <2>. QED  BY <1>5, <2>1, <2>2, LeaveTypes, LaneAssumption DEF ModelFails, Outage, execVars
<1>6. ASSUME NEW r \in Req, ExecuteReturns(r) PROVE TypeOK'
  <2>1. PICK a \in {"ok", "failed"} : Leave(r, "executing", a)
    BY <1>6 DEF ExecuteReturns
  <2>2. lane # <<>> /\ "executing" \in Inside /\ a \in Answer
    BY <2>1 DEF Queue, Leave, Goto, Inside, Answer
  <2>3. auditLog' \in Seq(Entry)
    <3>. DEFINE e == [id |-> r, decision |-> "ALLOW", executed |-> outcome[r] = "ok"]
    <3>1. e \in Entry
      BY DEF Entry
    <3>. QED  BY <1>6, <3>1, MembersOfAppend DEF ExecuteReturns, Log
  <2>. QED  BY <1>6, <2>1, <2>2, <2>3, LeaveTypes DEF ExecuteReturns, execVars, boundVars
<1>7. ASSUME NEW r \in Req, ExecuteRaises(r) PROVE TypeOK'
  <2>1. lane # <<>> /\ "executing" \in Inside /\ "error" \in Answer
    BY <1>7 DEF Queue, ExecuteRaises, Leave, Goto, Inside, Answer
  <2>. QED  BY <1>7, <2>1, LeaveTypes, LaneAssumption DEF ExecuteRaises, execVars
<1>8. ASSUME NEW r \in Req, GiveUp(r) PROVE TypeOK'
  BY <1>8 DEF GiveUp, Answer, execVars, boundVars
<1>9. ASSUME NEW r \in Req, Execution(r) PROVE TypeOK'
  <2>1. CASE ExecutorRecords(r)
    BY <2>1 DEF ExecutorRecords, Executor!Record, execFrame, boundVars
  <2>2. CASE ExecutorPerforms(r)
    BY <2>2, MembersOfAppend DEF ExecutorPerforms, Executor!Perform, execFrame, boundVars
  <2>3. CASE ExecutorAnswers(r)
    BY <2>3 DEF ExecutorAnswers, Executor!Confirm, Executor!Disappoint, execFrame, boundVars
  <2>. QED  BY <1>9, <2>1, <2>2, <2>3 DEF Execution
<1>10. CASE EditPolicy
  BY <1>10, LaneAssumption DEF EditPolicy, execVars
<1>11. CASE ClearAuditLog
  BY <1>11, LaneAssumption DEF ClearAuditLog, execVars
<1>12. CASE Restart
  BY <1>12, LaneAssumption DEF Restart, execVars, Pc, Answer
<1>13. CASE UNCHANGED vars
  BY <1>13 DEF vars, execVars, boundVars
<1>. QED
  BY <1>1, <1>2, <1>3, <1>4, <1>5, <1>6, <1>7, <1>8, <1>9, <1>10, <1>11, <1>12, <1>13
     DEF Next, Process
-------------------------------------------------------------------------------
(* The queue *)

LEMMA InitQueue == Init => Queue
  BY DEF Init, Queue, Members, Once, InFlight, Inside

\* The head moves on inside the lane.
LEMMA MoveInside ==
  ASSUME TypeOK, Queue, NEW r \in Req, NEW from, NEW to \in Inside,
         Goto(r, from, to), lane # <<>>, Head(lane) = r, UNCHANGED lane
  PROVE  Queue'
<1>1. InFlight(r)
  BY MembersOfTail DEF Queue, TypeOK
<1>2. \A q \in Req : InFlight(q)' <=> InFlight(q)
  BY <1>1 DEF Goto, InFlight, Inside, TypeOK
<1>3. \A q \in Req : pc'[q] \in Inside => q = r \/ pc[q] \in Inside
  BY DEF Goto, TypeOK
<1>. QED  BY <1>2, <1>3 DEF Queue, Members, Once

\* The head leaves.
LEMMA LeaveQueue ==
  ASSUME TypeOK, Queue, NEW r \in Req, NEW from \in Inside, NEW a, Leave(r, from, a)
  PROVE  Queue'
<1>1. lane # <<>> /\ Head(lane) = r /\ lane' = Tail(lane)
  BY DEF Queue, Leave, Goto
<1>2. Once(lane') /\ Members(lane') = Members(lane) \ {r}
  BY <1>1, MembersOfTail DEF Queue, TypeOK
<1>3. \A q \in Req : InFlight(q)' <=> InFlight(q) /\ q # r
  BY DEF Leave, Goto, InFlight, TypeOK
<1>4. \A q \in Req : pc'[q] \notin Inside
  BY <1>1 DEF Leave, Goto, TypeOK, Queue, Inside
<1>. QED  BY <1>2, <1>3, <1>4 DEF Queue, Members, Once

LEMMA SamePlaces ==
  ASSUME Queue, UNCHANGED <<pc, lane>>
  PROVE  Queue'
  BY DEF Queue, Members, Once, InFlight

LEMMA StepQueue ==
  ASSUME TypeOK, Queue, [Next]_vars
  PROVE  Queue'
<1>1. ASSUME NEW r \in Req, Resolve(r) PROVE Queue'
  <2>1. pc[r] = "idle" /\ r \notin Members(lane) /\ lane' = Append(lane, r)
    BY <1>1 DEF Resolve, Arrives, Queue, InFlight
  <2>2. /\ lane' # <<>>
        /\ Members(lane') = Members(lane) \cup {r}
        /\ Head(lane') = IF lane = <<>> THEN r ELSE Head(lane)
        /\ Once(lane')
    BY <2>1, MembersOfAppend DEF TypeOK, Queue
  <2>3. /\ pc' = [pc EXCEPT ![r] = IF lane = <<>> THEN "deciding" ELSE "waiting"]
        /\ pc \in [Req -> Pc]
    BY <1>1 DEF Resolve, TypeOK
  <2>4. \A q \in Req : InFlight(q)' <=> InFlight(q) \/ q = r
    BY <2>3 DEF InFlight
  <2>5. \A q \in Req : pc'[q] \in Inside => lane' # <<>> /\ Head(lane') = q
    BY <2>2, <2>3 DEF Queue, Inside
  <2>. QED  BY <2>2, <2>4, <2>5 DEF Queue, Members, Once
<1>2. ASSUME NEW r \in Req, ResolveFails(r) PROVE Queue'
  <2>1. /\ pc[r] = "idle" /\ pc' = [pc EXCEPT ![r] = "done"] /\ lane' = lane
        /\ pc \in [Req -> Pc]
    BY <1>2 DEF ResolveFails, Arrives, TypeOK
  <2>2. \A q \in Req : (InFlight(q)' <=> InFlight(q)) /\ (pc'[q] \in Inside => pc[q] \in Inside)
    BY <2>1 DEF InFlight, Inside
  <2>. QED  BY <2>1, <2>2 DEF Queue, Members, Once
<1>3. ASSUME NEW r \in Req, Acquire(r) PROVE Queue'
  <2>1. Goto(r, "waiting", "deciding") /\ Head(lane) = r /\ UNCHANGED lane /\ "deciding" \in Inside
    BY <1>3 DEF Acquire, Inside
  <2>2. InFlight(r)
    BY <2>1 DEF Goto, InFlight
  <2>3. r \in Members(lane)
    BY <2>2 DEF Queue
  <2>4. lane # <<>>
    BY <2>3 DEF Members
  <2>. QED  BY <2>1, <2>4, MoveInside
<1>4. ASSUME NEW r \in Req, DecideAllow(r) \/ DecideUndecided(r) \/ Analyze(r) \/ ValidateAllow(r) PROVE Queue'
  <2>1. PICK from \in Inside, to \in Inside : Goto(r, from, to) /\ UNCHANGED lane
    BY <1>4 DEF DecideAllow, DecideUndecided, Analyze, ValidateAllow, Approve, Inside
  <2>2. lane # <<>> /\ Head(lane) = r
    BY <2>1 DEF Queue, Goto
  <2>. QED  BY <2>1, <2>2, MoveInside
<1>5. ASSUME NEW r \in Req, DecideBlock(r) \/ ValidateBlock(r) \/ ModelFails(r) \/ ExecuteReturns(r) \/ ExecuteRaises(r)
      PROVE Queue'
  <2>1. PICK from \in Inside : \E a : Leave(r, from, a)
    BY <1>5, Zenon DEF DecideBlock, ValidateBlock, ModelFails, ExecuteReturns, ExecuteRaises, Inside
  <2>. QED  BY <2>1, LeaveQueue
<1>6. ASSUME NEW r \in Req, GiveUp(r) \/ Execution(r) PROVE Queue'
  BY <1>6, SamePlaces DEF GiveUp, Execution, ExecutorRecords, ExecutorPerforms, ExecutorAnswers, execFrame
<1>7. CASE EditPolicy \/ ClearAuditLog \/ UNCHANGED vars
  BY <1>7, SamePlaces DEF EditPolicy, ClearAuditLog, vars
<1>8. CASE Restart
  <2>1. \A q \in Req : pc'[q] \in {"idle", "done"}
    BY <1>8 DEF Restart, InFlight, TypeOK
  <2>2. lane' = <<>>
    BY <1>8 DEF Restart
  <2>. QED  BY <2>1, <2>2 DEF Queue, Members, Once, InFlight, Inside
<1>. QED
  BY <1>1, <1>2, <1>3, <1>4, <1>5, <1>6, <1>7, <1>8 DEF Next, Process, Decide, Validate
-------------------------------------------------------------------------------
(* Who is approved *)

LEMMA InitApprovals == Init => Approvals
  BY DEF Init, Approvals, Acted, Executor!Init

LEMMA StepApprovals ==
  ASSUME TypeOK, Approvals, [Next]_vars
  PROVE  Approvals'
<1>. USE DEF TypeOK, Approvals
<1>1. ASSUME NEW r \in Req, Resolve(r) \/ ResolveFails(r) PROVE Approvals'
  <2>1. pc[r] = "idle" /\ UNCHANGED <<approved, recorded, timeline>>
    BY <1>1 DEF Resolve, ResolveFails, Arrives, execVars
  <2>2. \A q \in Req \ {r} : pc'[q] = pc[q] /\ context'[q] = context[q] /\ answer'[q] = answer[q]
    BY <1>1 DEF Resolve, ResolveFails
  <2>3. \/ pc'[r] \in {"waiting", "deciding"} /\ answer'[r] = answer[r]
        \/ pc'[r] = "done" /\ answer'[r] = "error"
    <3>1. CASE Resolve(r)
      BY <3>1 DEF Resolve
    <3>2. CASE ResolveFails(r)
      BY <3>2 DEF ResolveFails
    <3>. QED  BY <1>1, <3>1, <3>2
  <2>4. r \notin approved
    BY <2>1
  <2>5. Acted' = Acted
    BY <2>1 DEF Acted
  <2>6. \A q \in approved : q # r /\ context'[q]
    BY <2>2, <2>4
  <2>. QED  BY <2>1, <2>2, <2>3, <2>4, <2>5, <2>6
<1>2. ASSUME NEW r \in Req, Acquire(r) \/ DecideUndecided(r) \/ Analyze(r) PROVE Approvals'
  <2>1. UNCHANGED <<context, approved, answer, recorded, timeline>>
    BY <1>2 DEF Acquire, DecideUndecided, Analyze, execVars
  <2>3. CASE Acquire(r)
    BY <2>1, <2>3 DEF Acquire, Goto, Acted
  <2>4. CASE DecideUndecided(r)
    BY <2>1, <2>4 DEF DecideUndecided, Goto, Acted
  <2>5. CASE Analyze(r)
    BY <2>1, <2>5 DEF Analyze, Goto, Acted
  <2>. QED  BY <1>2, <2>3, <2>4, <2>5
<1>3. ASSUME NEW r \in Req, DecideAllow(r) \/ ValidateAllow(r) PROVE Approvals'
  <2>1. PICK from \in {"deciding", "validating"} : Approve(r, from)
    BY <1>3 DEF DecideAllow, ValidateAllow
  <2>2. context[r]
    BY <1>3 DEF DecideAllow, ValidateAllow, Approve, Goto
  <2>3. /\ pc[r] = from /\ pc' = [pc EXCEPT ![r] = "executing"]
        /\ approved' = approved \cup {r}
        /\ UNCHANGED <<context, answer, recorded, timeline>>
    BY <2>1 DEF Approve, Goto, execVars
  <2>. QED  BY <2>2, <2>3 DEF Acted
<1>4. ASSUME NEW r \in Req, DecideBlock(r) \/ ValidateBlock(r) \/ ModelFails(r) \/ ExecuteReturns(r) \/ ExecuteRaises(r)
      PROVE Approvals'
  <2>1. UNCHANGED <<context, approved, recorded, timeline>>
    BY <1>4 DEF DecideBlock, ValidateBlock, ModelFails, ExecuteReturns, ExecuteRaises, execVars
  <2>2. PICK from \in Inside, a \in {"ok", "failed", "error", "blocked"} :
           Leave(r, from, a) /\ (a = "blocked" => from \in {"deciding", "validating"})
    BY <1>4 DEF DecideBlock, ValidateBlock, ModelFails, ExecuteReturns, ExecuteRaises, Inside
  <2>3. /\ pc[r] = from /\ pc' = [pc EXCEPT ![r] = "done"]
        /\ answer' = [answer EXCEPT ![r] = IF @ = "none" THEN a ELSE @]
    BY <2>2 DEF Leave, Goto
  <2>4. answer'[r] = "blocked" => r \notin approved
    BY <2>2, <2>3
  <2>. QED  BY <2>1, <2>3, <2>4 DEF Acted
<1>5. ASSUME NEW r \in Req, GiveUp(r) PROVE Approvals'
  BY <1>5 DEF GiveUp, execVars, Acted
<1>6. ASSUME NEW r \in Req, ExecutorRecords(r) \/ ExecutorAnswers(r) PROVE Approvals'
  <2>1. UNCHANGED <<pc, context, approved, answer, timeline>>
    BY <1>6 DEF ExecutorRecords, ExecutorAnswers, execFrame
  <2>2. recorded' = recorded \/ (recorded' = recorded \cup {r} /\ r \in approved)
    BY <1>6 DEF ExecutorRecords, ExecutorAnswers, Executor!Record, Executor!Confirm, Executor!Disappoint
  <2>. QED  BY <2>1, <2>2 DEF Acted
<1>7. ASSUME NEW r \in Req, ExecutorPerforms(r) PROVE Approvals'
  <2>1. timeline' = Append(timeline, r) /\ r \in recorded /\ UNCHANGED recorded
    BY <1>7 DEF ExecutorPerforms, Executor!Perform
  <2>2. Acted' = Acted \cup {r}
    <3>1. Members(Append(timeline, r)) = Members(timeline) \cup {r}
      BY MembersOfAppend
    <3>. QED  BY <2>1, <3>1, ActedIsMembers
  <2>3. UNCHANGED <<pc, context, approved, answer>>
    BY <1>7 DEF ExecutorPerforms, execFrame
  <2>. QED  BY <2>1, <2>2, <2>3
<1>8. CASE EditPolicy \/ ClearAuditLog \/ UNCHANGED vars
  BY <1>8 DEF EditPolicy, ClearAuditLog, vars, execVars, Acted
<1>9. CASE Restart
  BY <1>9 DEF Restart, InFlight, execVars, Acted
<1>. QED
  BY <1>1, <1>2, <1>3, <1>4, <1>5, <1>6, <1>7, <1>8, <1>9
     DEF Next, Process, Decide, Validate, Execution

-------------------------------------------------------------------------------
(* What is reported *)

LEMMA InitReports == Init => Reports
  BY DEF Init, Reports, Executor!Init
LEMMA LoggedIntents ==
  ASSUME TypeOK
  PROVE  \A i \in DOMAIN auditLog : auditLog[i].id \in Req
<1>1. \A i \in DOMAIN auditLog : auditLog[i] \in Entry
  BY DEF TypeOK
<1>. QED  BY <1>1 DEF Entry

\* A new entry about an intent that leaves keeps the log true.
LEMMA LogEntry ==
  ASSUME TypeOK, Reports, NEW r \in Req, pc[r] # "done",
         NEW d \in {"ALLOW", "BLOCK"}, NEW b \in BOOLEAN, Log(r, d, b),
         pc' = [pc EXCEPT ![r] = "done"], UNCHANGED <<approved, timeline>>,
         b => r \in Acted, d = "BLOCK" => r \notin approved
  PROVE  \A i \in DOMAIN auditLog' :
           /\ pc'[auditLog'[i].id] = "done"
           /\ auditLog'[i].executed => auditLog'[i].id \in Acted'
           /\ auditLog'[i].decision = "BLOCK" => auditLog'[i].id \notin approved'
           /\ \A j \in DOMAIN auditLog' : auditLog'[i].id = auditLog'[j].id => i = j
<1>. DEFINE e == [id |-> r, decision |-> d, executed |-> b]
            n == Len(auditLog) + 1
<1>1. auditLog \in Seq(Entry) /\ e \in Entry /\ auditLog' = Append(auditLog, e)
  BY DEF TypeOK, Entry, Log
<1>2. e.id = r /\ e.decision = d /\ e.executed = b
  OBVIOUS
<1>. HIDE DEF e
<1>3. /\ n \in Nat /\ n \notin DOMAIN auditLog
      /\ DOMAIN auditLog' = DOMAIN auditLog \cup {n}
      /\ auditLog'[n] = e
      /\ \A i \in DOMAIN auditLog : auditLog'[i] = auditLog[i]
  BY <1>1
<1>. HIDE DEF n
<1>4. \A i \in DOMAIN auditLog : auditLog[i].id \in Req /\ auditLog[i].id # r
  BY LoggedIntents DEF Reports
<1>5. Acted' = Acted
  BY DEF Acted
<1>6. \A q \in Req : pc'[q] = IF q = r THEN "done" ELSE pc[q]
  BY DEF TypeOK
<1>7. ASSUME NEW i \in DOMAIN auditLog
      PROVE  /\ pc'[auditLog'[i].id] = "done"
             /\ auditLog'[i].executed => auditLog'[i].id \in Acted'
             /\ auditLog'[i].decision = "BLOCK" => auditLog'[i].id \notin approved'
             /\ \A j \in DOMAIN auditLog' : auditLog'[i].id = auditLog'[j].id => i = j
  BY <1>2, <1>3, <1>4, <1>5, <1>6 DEF Reports
<1>8. /\ pc'[auditLog'[n].id] = "done"
      /\ auditLog'[n].executed => auditLog'[n].id \in Acted'
      /\ auditLog'[n].decision = "BLOCK" => auditLog'[n].id \notin approved'
      /\ \A j \in DOMAIN auditLog' : auditLog'[n].id = auditLog'[j].id => n = j
  BY <1>2, <1>3, <1>4, <1>5, <1>6
<1>. QED  BY <1>3, <1>7, <1>8

LEMMA StepReports ==
  ASSUME TypeOK, Approvals, Reports, [Next]_vars
  PROVE  Reports'
<1>. USE DEF TypeOK
<1>1. ASSUME UNCHANGED <<outcome, timeline, answer, auditLog, approved>>,
             \A q \in Req : pc[q] = "done" => pc'[q] = "done"
      PROVE  Reports'
  BY <1>1, LoggedIntents DEF Reports, Acted
<1>2. ASSUME NEW r \in Req, Resolve(r) \/ Acquire(r) \/ DecideUndecided(r) \/ Analyze(r) PROVE Reports'
  <2>1. UNCHANGED <<outcome, timeline, answer, auditLog, approved>>
    BY <1>2 DEF Resolve, Acquire, DecideUndecided, Analyze, execVars
  <2>2. \A q \in Req : pc[q] = "done" => pc'[q] = "done"
    BY <1>2 DEF Resolve, Arrives, Acquire, DecideUndecided, Analyze, Goto
  <2>. QED  BY <1>1, <2>1, <2>2
<1>3. ASSUME NEW r \in Req, ResolveFails(r) \/ ModelFails(r) \/ ExecuteRaises(r) PROVE Reports'
  <2>1. UNCHANGED <<outcome, timeline, auditLog, approved>>
    BY <1>3 DEF ResolveFails, ModelFails, ExecuteRaises, execVars
  <2>2. pc' = [pc EXCEPT ![r] = "done"]
    BY <1>3 DEF ResolveFails, ModelFails, ExecuteRaises, Leave, Goto
  <2>3. \A q \in Req : answer'[q] = "ok" => answer[q] = "ok"
    BY <1>3 DEF ResolveFails, ModelFails, ExecuteRaises, Leave
  <2>4. \A q \in Req : pc[q] = "done" => pc'[q] = "done"
    BY <2>2
  <2>. QED  BY <2>1, <2>3, <2>4, LoggedIntents DEF Reports, Acted
<1>4. ASSUME NEW r \in Req, DecideAllow(r) \/ ValidateAllow(r) PROVE Reports'
  <2>1. UNCHANGED <<outcome, timeline, auditLog, answer>> /\ approved' = approved \cup {r}
    BY <1>4 DEF DecideAllow, ValidateAllow, Approve, execVars
  <2>2. pc[r] # "done" /\ pc' = [pc EXCEPT ![r] = "executing"]
    BY <1>4 DEF DecideAllow, ValidateAllow, Approve, Goto
  <2>3. \A i \in DOMAIN auditLog : auditLog[i].id \in Req /\ auditLog[i].id # r
    BY <2>2, LoggedIntents DEF Reports
  <2>. QED  BY <2>1, <2>2, <2>3 DEF Reports, Acted
<1>5. ASSUME NEW r \in Req, DecideBlock(r) \/ ValidateBlock(r) PROVE Reports'
  <2>1. UNCHANGED <<outcome, timeline, approved>> /\ Log(r, "BLOCK", FALSE)
    BY <1>5 DEF DecideBlock, ValidateBlock, execVars
  <2>2. pc[r] # "done" /\ r \notin approved /\ pc' = [pc EXCEPT ![r] = "done"]
    BY <1>5 DEF DecideBlock, ValidateBlock, Leave, Goto, Approvals
  <2>3. \A q \in Req : answer'[q] = "ok" => answer[q] = "ok"
    BY <1>5 DEF DecideBlock, ValidateBlock, Leave
  <2>4. \A q \in Req : (outcome'[q] = "ok" => q \in Acted') /\ (answer'[q] = "ok" => q \in Acted')
    BY <2>1, <2>3 DEF Reports, Acted
  <2>5. Reports!3'
    BY <2>1, <2>2, LogEntry
  <2>. QED  BY <2>4, <2>5 DEF Reports
<1>6. ASSUME NEW r \in Req, ExecuteReturns(r) PROVE Reports'
  <2>1. UNCHANGED <<outcome, timeline, approved>> /\ Log(r, "ALLOW", outcome[r] = "ok")
    BY <1>6 DEF ExecuteReturns, execVars
  <2>2. pc[r] # "done" /\ pc' = [pc EXCEPT ![r] = "done"]
    BY <1>6 DEF ExecuteReturns, Leave, Goto
  <2>3. outcome[r] = "ok" => r \in Acted
    BY DEF Reports
  <2>4. \A q \in Req : answer'[q] = "ok" => answer[q] = "ok" \/ (q = r /\ outcome[r] = "ok")
    <3>1. answer' = [answer EXCEPT ![r] = IF @ = "none" THEN (IF outcome[r] = "ok" THEN "ok" ELSE "failed") ELSE @]
      BY <1>6 DEF ExecuteReturns, Leave
    <3>2. \A q \in Req : q # r => answer'[q] = answer[q]
      BY <3>1
    <3>3. answer'[r] = "ok" => answer[r] = "ok" \/ outcome[r] = "ok"
      BY <3>1
    <3>. QED  BY <3>2, <3>3
  <2>5. \A q \in Req : (outcome'[q] = "ok" => q \in Acted') /\ (answer'[q] = "ok" => q \in Acted')
    BY <2>1, <2>3, <2>4 DEF Reports, Acted
  <2>6. Reports!3'
    BY <2>1, <2>2, <2>3, LogEntry
  <2>. QED  BY <2>5, <2>6 DEF Reports
<1>7. ASSUME NEW r \in Req, GiveUp(r) PROVE Reports'
  BY <1>7 DEF GiveUp, execVars, Reports, Acted, Entry
<1>8. ASSUME NEW r \in Req, Execution(r) PROVE Reports'
  <2>1. UNCHANGED <<pc, answer, auditLog, approved>>
    BY <1>8 DEF Execution, ExecutorRecords, ExecutorPerforms, ExecutorAnswers, execFrame
  <2>2. Acted \subseteq Acted'
    <3>1. CASE ExecutorPerforms(r)
      <4>1. Members(Append(timeline, r)) = Members(timeline) \cup {r}
        BY MembersOfAppend
      <4>. QED  BY <3>1, <4>1, ActedIsMembers DEF ExecutorPerforms
    <3>2. CASE UNCHANGED timeline
      BY <3>2 DEF Acted
    <3>. QED  BY <1>8, <3>1, <3>2 DEF Execution, ExecutorRecords, ExecutorAnswers
  <2>3. \A q \in Req : outcome'[q] = "ok" => outcome[q] = "ok" \/ q \in Acted
    BY <1>8 DEF Execution, ExecutorRecords, ExecutorPerforms, ExecutorAnswers,
                Executor!Record, Executor!Perform, Executor!Confirm, Executor!Disappoint
  <2>. QED  BY <2>1, <2>2, <2>3 DEF Reports, Entry
<1>9. CASE EditPolicy \/ UNCHANGED vars
  BY <1>1, <1>9 DEF EditPolicy, vars, execVars
<1>10. CASE ClearAuditLog \/ Restart
  <2>1. UNCHANGED <<outcome, timeline>> /\ auditLog' = <<>>
    BY <1>10 DEF ClearAuditLog, Restart, execVars
  <2>2. \A q \in Req : answer'[q] = "ok" => answer[q] = "ok"
    BY <1>10 DEF ClearAuditLog, Restart
  <2>. QED  BY <2>1, <2>2 DEF Reports, Acted
<1>. QED
  BY <1>2, <1>3, <1>4, <1>5, <1>6, <1>7, <1>8, <1>9, <1>10
     DEF Next, Process, Decide, Validate

-------------------------------------------------------------------------------
(* Theorems *)

LEMMA LaneInductive == Spec => []LaneInd
<1>1. Init => LaneInd
  BY InitTypes, InitQueue, InitApprovals, InitReports DEF LaneInd
<1>2. LaneInd /\ [Next]_vars => LaneInd'
  BY StepTypes, StepQueue, StepApprovals, StepReports DEF LaneInd
<1>. QED  BY <1>1, <1>2, PTL DEF Spec

\* Every variable of the lane keeps its type.
THEOREM LaneTypeCorrect == Spec => []TypeOK
  BY LaneInductive, PTL DEF LaneInd

\* One intent at a time, in order of arrival (async with self._lock).
THEOREM LaneIsOrderly == Spec => []LaneOrder
<1>1. LaneInd => LaneOrder
  BY DEF LaneInd, TypeOK, Queue, Members, Once, LaneOrder
<1>. QED  BY <1>1, LaneInductive, PTL

\* The executor works for approved intents only, approval needs a permission,
\* and BLOCK is never told of an approved one (_process_intent_impl).
THEOREM LaneDeniesByDefault == Spec => []NothingUnapproved
<1>1. LaneInd => NothingUnapproved
  BY DEF LaneInd, Approvals, NothingUnapproved
<1>. QED  BY <1>1, LaneInductive, PTL

\* Successes that are answered or logged happened; BLOCK entries are of intents
\* never approved; no intent is logged twice.
THEOREM LaneReportsAreTrue == Spec => []ReportsAreTrue
<1>1. LaneInd => ReportsAreTrue
  BY DEF LaneInd, Reports, ReportsAreTrue
<1>. QED  BY <1>1, LaneInductive, PTL

\* Together: order, authorization and the reports of process_intent, under every
\* fault at once.
THEOREM LaneIsSafe == Spec => []LaneSafe
BY LaneTypeCorrect, LaneIsOrderly, LaneDeniesByDefault, LaneReportsAreTrue, PTL DEF LaneSafe

-------------------------------------------------------------------------------
(* The air-lock, under every fault.  Whoever is inside is the head of the     *)
(* lane; whoever may still act is inside, or is a straggler.                  *)

In == {r \in Req : pc[r] \in Inside}

LEMMA InsideIsHead ==
  ASSUME Queue
  PROVE  \A r \in In : lane # <<>> /\ r = Head(lane) /\ In = {r}
  BY DEF Queue, In

\* The handlers that move are not those of approved intents.
LEMMA SameStragglers ==
  ASSUME UNCHANGED <<approved, outcome, timeline>>,
         \A q \in approved : pc'[q] = "done" <=> pc[q] = "done"
  PROVE  Stragglers' = Stragglers
  BY DEF Stragglers, Acted

\* The call of the one inside ends.
LEMMA LeftBehind ==
  ASSUME UNCHANGED <<approved, outcome, timeline>>, NEW r,
         \A q \in approved \ {r} : pc'[q] = "done" <=> pc[q] = "done"
  PROVE  pc[r] # "done" => Stragglers' \in {Stragglers, Stragglers \cup {r}}
<1>1. Acted' = Acted
  BY DEF Acted
<1>2. ASSUME pc[r] # "done", NEW q \in Stragglers' \ {r} PROVE q \in Stragglers
  BY <1>1, <1>2 DEF Stragglers
<1>3. ASSUME pc[r] # "done", NEW q \in Stragglers PROVE q \in Stragglers' /\ q # r
  BY <1>1, <1>3 DEF Stragglers
<1>. QED  BY <1>2, <1>3

LEMMA StepAirLock ==
  ASSUME TypeOK, Queue, Approvals, Reports, [Next]_vars
  PROVE  [Lock!Next]_(Lock!vars)
<1>. USE DEF TypeOK
<1>2. ASSUME In' = In, Stragglers' = Stragglers, UNCHANGED timeline PROVE UNCHANGED Lock!vars
  BY <1>2 DEF Lock!vars, In
<1>3. ASSUME NEW r \in Req, In = {}, In' = {r}, Stragglers' = Stragglers, UNCHANGED timeline
      PROVE  Lock!Enter(r)
  BY <1>3 DEF Lock!Enter, In
<1>4. ASSUME In # {}, In' = {}, Stragglers' \in {Stragglers, Stragglers \cup In}, UNCHANGED timeline
      PROVE  Lock!Leave
  BY <1>4 DEF Lock!Leave, In
<1>5. ASSUME NEW r \in Req, Resolve(r) PROVE [Lock!Next]_(Lock!vars)
  <2>1. /\ pc' = [pc EXCEPT ![r] = IF lane = <<>> THEN "deciding" ELSE "waiting"]
        /\ pc[r] = "idle" /\ UNCHANGED <<timeline, approved, outcome>>
    BY <1>5 DEF Resolve, Arrives, execVars
  <2>2. Stragglers' = Stragglers
    BY <2>1, SameStragglers
  <2>3. CASE lane = <<>>
    <3>1. In = {}
      BY <2>3, InsideIsHead
    <3>2. In' = {r}
      BY <2>1, <2>3, <3>1 DEF In, Inside
    <3>. QED  BY <2>1, <2>2, <3>1, <3>2, <1>3 DEF Lock!Next
  <2>4. CASE lane # <<>>
    BY <2>1, <2>2, <2>4, <1>2 DEF In, Inside
  <2>. QED  BY <2>3, <2>4
<1>6. ASSUME NEW r \in Req, Acquire(r) PROVE [Lock!Next]_(Lock!vars)
  <2>1. /\ pc[r] = "waiting" /\ pc' = [pc EXCEPT ![r] = "deciding"]
        /\ Head(lane) = r /\ UNCHANGED <<timeline, approved, outcome>>
    BY <1>6 DEF Acquire, Goto, execVars
  <2>2. In = {}
    BY <2>1, InsideIsHead DEF In, Inside
  <2>3. In' = {r}
    BY <2>1, <2>2 DEF In, Inside
  <2>4. Stragglers' = Stragglers
    BY <2>1, SameStragglers
  <2>. QED  BY <2>1, <2>2, <2>3, <2>4, <1>3 DEF Lock!Next
<1>7. ASSUME NEW r \in Req, DecideUndecided(r) \/ Analyze(r) PROVE [Lock!Next]_(Lock!vars)
  <2>1. PICK from \in Inside, to \in Inside \ {"executing"} :
          Goto(r, from, to) /\ UNCHANGED <<timeline, approved, outcome>>
    BY <1>7 DEF DecideUndecided, Analyze, Inside, execVars
  <2>2. In' = In
    BY <2>1 DEF Goto, In
  <2>3. Stragglers' = Stragglers
    BY <2>1, SameStragglers DEF Goto, Inside
  <2>. QED  BY <2>1, <2>2, <2>3, <1>2
<1>8. ASSUME NEW r \in Req, DecideAllow(r) \/ ValidateAllow(r) PROVE [Lock!Next]_(Lock!vars)
  <2>1. /\ pc[r] \in {"deciding", "validating"} /\ pc' = [pc EXCEPT ![r] = "executing"]
        /\ approved' = approved \cup {r} /\ UNCHANGED <<timeline, outcome>>
    BY <1>8 DEF DecideAllow, ValidateAllow, Approve, Goto, execVars
  <2>2. In' = In
    BY <2>1 DEF In, Inside
  <2>3. \A q \in Req : q \in Stragglers' <=> q \in Stragglers
    BY <2>1 DEF Stragglers, Acted
  <2>4. Stragglers' = Stragglers
    BY <2>1, <2>3 DEF Stragglers
  <2>. QED  BY <2>1, <2>2, <2>4, <1>2
<1>9. ASSUME NEW r \in Req,
             DecideBlock(r) \/ ValidateBlock(r) \/ ModelFails(r) \/ ExecuteReturns(r) \/ ExecuteRaises(r)
      PROVE [Lock!Next]_(Lock!vars)
  <2>1. PICK from \in Inside : /\ pc[r] = from /\ pc' = [pc EXCEPT ![r] = "done"]
                               /\ UNCHANGED <<timeline, approved, outcome>>
    BY <1>9 DEF DecideBlock, ValidateBlock, ModelFails, ExecuteReturns, ExecuteRaises, Leave, Goto,
                Inside, execVars
  <2>2. r \in In
    BY <2>1 DEF In
  <2>3. In = {r}
    BY <2>2, InsideIsHead
  <2>4. In' = {}
    BY <2>1, <2>3 DEF In, Inside
  <2>5. pc[r] # "done" /\ \A q \in approved \ {r} : pc'[q] = "done" <=> pc[q] = "done"
    BY <2>1 DEF Inside
  <2>6. Stragglers' \in {Stragglers, Stragglers \cup In}
    BY <2>1, <2>3, <2>5, LeftBehind
  <2>. QED  BY <2>1, <2>3, <2>4, <2>6, <1>4 DEF Lock!Next
<1>10. ASSUME NEW r \in Req, ExecutorPerforms(r) PROVE [Lock!Next]_(Lock!vars)
  <2>1. /\ r \in approved /\ r \notin Acted /\ (outcome[r] = "none" \/ r \in Late)
        /\ timeline' = Append(timeline, r) /\ UNCHANGED <<pc, approved, outcome>>
    BY <1>10 DEF ExecutorPerforms, Executor!Perform, execFrame
  <2>2. r \in In \cup Stragglers
    BY <2>1 DEF Approvals, In, Inside, Pc, Stragglers
  <2>3. Acted' = Acted \cup {r}
    BY <2>1, MembersOfAppend, ActedIsMembers
  <2>4. Stragglers' = Stragglers \ {r}
    BY <2>1, <2>3 DEF Stragglers
  <2>5. Lock!Act(r)
    BY <2>1, <2>2, <2>4 DEF Lock!Act, Lock!Acted, Acted, In
  <2>. QED  BY <2>5 DEF Lock!Next
<1>11. ASSUME NEW r \in Req, ResolveFails(r) PROVE [Lock!Next]_(Lock!vars)
  <2>1. pc[r] = "idle" /\ pc' = [pc EXCEPT ![r] = "done"] /\ UNCHANGED <<timeline, approved, outcome>>
    BY <1>11 DEF ResolveFails, Arrives, execVars
  <2>2. In' = In
    BY <2>1 DEF In, Inside
  <2>3. Stragglers' = Stragglers
    BY <2>1, SameStragglers DEF Approvals
  <2>. QED  BY <2>1, <2>2, <2>3, <1>2
<1>12. ASSUME NEW r \in Req, ExecutorAnswers(r) PROVE [Lock!Next]_(Lock!vars)
  <2>1. /\ UNCHANGED <<pc, approved, timeline>> /\ outcome[r] = "none"
        /\ \/ r \in Acted /\ outcome'[r] = "ok"
           \/ outcome'[r] = "no"
        /\ \A q \in Req \ {r} : outcome'[q] = outcome[q]
    BY <1>12 DEF ExecutorAnswers, Executor!Confirm, Executor!Disappoint, execFrame
  <2>2. In' = In /\ Acted' = Acted
    BY <2>1 DEF In, Acted
  <2>3. Stragglers' = Stragglers \/ (r \in Stragglers /\ Stragglers' = Stragglers \ {r})
    <3>1. \A q \in Req \ {r} : q \in Stragglers' <=> q \in Stragglers
      BY <2>1, <2>2 DEF Stragglers
    <3>2. r \in Stragglers' => r \in Stragglers
      BY <2>1, <2>2 DEF Stragglers
    <3>3. Stragglers \subseteq Req /\ Stragglers' \subseteq Req
      BY <2>1 DEF Stragglers
    <3>4. ASSUME r \in Stragglers' <=> r \in Stragglers PROVE Stragglers' = Stragglers
      <4>1. \A q : q \in Stragglers' <=> q \in Stragglers
        BY <3>1, <3>3, <3>4
      <4>. QED  BY <4>1
    <3>5. ASSUME r \in Stragglers, r \notin Stragglers' PROVE Stragglers' = Stragglers \ {r}
      <4>1. \A q : q \in Stragglers' <=> q \in Stragglers \ {r}
        BY <3>1, <3>3, <3>5
      <4>. QED  BY <4>1
    <3>. QED  BY <3>2, <3>4, <3>5
  <2>4. CASE Stragglers' = Stragglers
    BY <2>1, <2>2, <2>4, <1>2
  <2>5. CASE r \in Stragglers /\ Stragglers' = Stragglers \ {r}
    <3>1. Lock!Fade
      BY <2>1, <2>2, <2>5 DEF Lock!Fade, In
    <3>. QED  BY <3>1 DEF Lock!Next
  <2>. QED  BY <2>3, <2>4, <2>5
<1>13. CASE Restart
  <2>1. /\ UNCHANGED <<approved, outcome, timeline>>
        /\ pc' = [q \in Req |-> IF InFlight(q) THEN "done" ELSE pc[q]]
    BY <1>13 DEF Restart, execVars
  <2>2. In' = {}
    BY <2>1 DEF In, Inside, InFlight
  <2>3. CASE In = {}
    <3>1. \A q \in approved : pc[q] = "done"
      BY <2>3 DEF Approvals, In, Inside, Pc
    <3>2. Stragglers' = Stragglers
      BY <2>1, <3>1, SameStragglers DEF InFlight
    <3>. QED  BY <2>1, <2>2, <2>3, <3>2, <1>2
  <2>4. CASE In # {}
    <3>1. PICK r \in In : In = {r}
      BY <2>4, InsideIsHead
    <3>2. \A q \in approved \ {r} : pc[q] = "done"
      BY <3>1 DEF Approvals, In, Inside, Pc
    <3>3. pc[r] # "done"
      BY <3>1 DEF In, Inside
    <3>4. \A q \in approved \ {r} : pc'[q] = "done" <=> pc[q] = "done"
      BY <2>1, <3>2 DEF InFlight
    <3>5. Stragglers' \in {Stragglers, Stragglers \cup In}
      BY <2>1, <3>1, <3>3, <3>4, LeftBehind
    <3>. QED  BY <2>1, <2>2, <2>4, <3>5, <1>4 DEF Lock!Next
  <2>. QED  BY <2>3, <2>4
<1>14. CASE EditPolicy \/ ClearAuditLog \/ (\E r \in Req : GiveUp(r) \/ ExecutorRecords(r)) \/ UNCHANGED vars
  <2>1. UNCHANGED <<pc, timeline, approved, outcome>>
    BY <1>14 DEF EditPolicy, ClearAuditLog, GiveUp, ExecutorRecords, Executor!Record, execFrame, vars, execVars
  <2>2. Stragglers' = Stragglers
    BY <2>1, SameStragglers
  <2>. QED  BY <2>1, <2>2, <1>2 DEF In
<1>. QED
  BY <1>5, <1>6, <1>7, <1>8, <1>9, <1>10, <1>11, <1>12, <1>13, <1>14
     DEF Next, Process, Decide, Validate, Execution

\* process_intent under its lock implements the air-lock, whatever fails: the
\* world changes for the one inside, or for one that left too early.
THEOREM LaneImplementsAirLock == Spec => ImplementsAirLock
<1>1. Init => Lock!Init
  BY DEF Init, Lock!Init, Inside, Stragglers
<1>2. LaneInd /\ [Next]_vars => [Lock!Next]_(Lock!vars)
  BY StepAirLock DEF LaneInd
<1>. QED  BY <1>1, <1>2, LaneInductive, PTL DEF Spec, ImplementsAirLock, Lock!Spec

-------------------------------------------------------------------------------
(* The audit log as a timeline.  While the lane is undisturbed nobody leaves    *)
(* before the executor has answered, so an action takes effect during its own   *)
(* call and is the last of the timeline until that call returns.                *)

Attended == \A r \in approved : pc[r] # "executing" => outcome[r] # "none"

OpenCall ==
  /\ logStart <= Len(timeline)
  /\ \A i \in DOMAIN timeline : pc[timeline[i]] = "executing" => i = Len(timeline) /\ i > logStart

Logged ==
  \A i \in logStart + 1 .. Len(timeline) : pc[timeline[i]] # "executing" =>
    \E k \in DOMAIN auditLog : auditLog[k].id = timeline[i] /\ auditLog[k].decision = "ALLOW"

InOrder ==
  \A k \in DOMAIN auditLog, i \in DOMAIN timeline : auditLog[k].id = timeline[i] =>
    /\ i > logStart
    /\ \A l \in DOMAIN auditLog, j \in DOMAIN timeline :
         auditLog[l].id = timeline[j] /\ k < l => i < j

Audited == OpenCall /\ Logged /\ InOrder

\* What disturbs the lane is not forgotten.
LEMMA OnceDisturbed ==
  ASSUME TypeOK, [Next]_vars, Undisturbed'
  PROVE  Undisturbed
<1>. USE DEF TypeOK
<1>1. callFaults' \in {callFaults, callFaults + 1} /\ restarts' \in {restarts, restarts + 1}
  BY DEF Next, Process, Resolve, ResolveFails, Acquire, Decide, DecideBlock, DecideAllow, DecideUndecided,
         Analyze, Validate, ValidateAllow, ValidateBlock, Approve, ModelFails, ExecuteReturns, ExecuteRaises,
         GiveUp, Execution, ExecutorRecords, ExecutorPerforms, ExecutorAnswers, execFrame, EditPolicy,
         ClearAuditLog, Restart, boundVars, vars
<1>2. callFaults = 0 /\ restarts = 0
  BY <1>1, LaneAssumption DEF Undisturbed
<1>3. (timeline' = timeline \/ \E r \in Req : timeline' = Append(timeline, r))
      /\ \A q \in Req : outcome[q] = "no" => outcome'[q] = "no"
  BY DEF Next, Process, Resolve, ResolveFails, Acquire, Decide, DecideBlock, DecideAllow, DecideUndecided,
         Analyze, Validate, ValidateAllow, ValidateBlock, Approve, ModelFails, ExecuteReturns, ExecuteRaises,
         GiveUp, Execution, ExecutorRecords, ExecutorPerforms, ExecutorAnswers, EditPolicy,
         ClearAuditLog, Restart, execVars, vars,
         Executor!Record, Executor!Perform, Executor!Confirm, Executor!Disappoint
<1>4. Acted \subseteq Acted'
  <2>1. CASE timeline' = timeline
    BY <2>1 DEF Acted
  <2>2. ASSUME NEW r \in Req, timeline' = Append(timeline, r) PROVE Acted \subseteq Acted'
    BY <2>2, MembersOfAppend, ActedIsMembers
  <2>. QED  BY <1>3, <2>1, <2>2
<1>5. \A q \in Acted \cap Late : outcome[q] # "no"
  BY <1>3, <1>4, LaneAssumption DEF Undisturbed
<1>. QED  BY <1>2, <1>5 DEF Undisturbed

LEMMA StepAttended ==
  ASSUME TypeOK, Approvals, Attended, [Next]_vars, Undisturbed, Undisturbed'
  PROVE  Attended'
<1>. USE DEF TypeOK, Attended
<1>1. ~Restart /\ \A r \in Req : ~ExecuteRaises(r)
  BY DEF Undisturbed, Restart, ExecuteRaises
<1>2. ASSUME NEW r \in Req, DecideAllow(r) \/ ValidateAllow(r) PROVE Attended'
  <2>1. approved' = approved \cup {r} /\ pc' = [pc EXCEPT ![r] = "executing"] /\ outcome' = outcome
    BY <1>2 DEF DecideAllow, ValidateAllow, Approve, Goto, execVars
  <2>. QED  BY <2>1
<1>3. ASSUME NEW r \in Req, ExecuteReturns(r) PROVE Attended'
  <2>1. outcome[r] # "none" /\ pc' = [pc EXCEPT ![r] = "done"] /\ UNCHANGED <<approved, outcome>>
    BY <1>3 DEF ExecuteReturns, Leave, Goto, execVars
  <2>. QED  BY <2>1
<1>4. ASSUME NEW r \in Req, Execution(r) PROVE Attended'
  <2>1. UNCHANGED <<pc, approved>>
    BY <1>4 DEF Execution, ExecutorRecords, ExecutorPerforms, ExecutorAnswers, execFrame
  <2>2. \A q \in Req : outcome[q] # "none" => outcome'[q] # "none"
    BY <1>4 DEF Execution, ExecutorRecords, ExecutorPerforms, ExecutorAnswers,
                Executor!Record, Executor!Perform, Executor!Confirm, Executor!Disappoint
  <2>. QED  BY <2>1, <2>2
<1>5. ASSUME NEW r \in Req,
             \/ Resolve(r) \/ ResolveFails(r) \/ Acquire(r) \/ DecideBlock(r) \/ DecideUndecided(r)
             \/ Analyze(r) \/ ValidateBlock(r) \/ ModelFails(r)
      PROVE Attended'
  <2>1. UNCHANGED <<approved, outcome>>
    BY <1>5 DEF Resolve, ResolveFails, Acquire, DecideBlock, DecideUndecided, Analyze, ValidateBlock,
                ModelFails, execVars
  <2>2. pc[r] # "executing" /\ \A q \in Req \ {r} : pc'[q] = pc[q]
    BY <1>5 DEF Resolve, ResolveFails, Arrives, Acquire, DecideBlock, DecideUndecided, Analyze,
                ValidateBlock, ModelFails, Leave, Goto
  <2>3. r \notin approved
    BY <1>5 DEF Approvals, Resolve, ResolveFails, Arrives, Acquire, DecideBlock, DecideUndecided,
                Analyze, ValidateBlock, ModelFails, Leave, Goto
  <2>. QED  BY <2>1, <2>2, <2>3
<1>6. CASE EditPolicy \/ ClearAuditLog \/ UNCHANGED vars
  BY <1>6 DEF EditPolicy, ClearAuditLog, vars, execVars
<1>7. ASSUME NEW r \in Req, GiveUp(r) PROVE Attended'
  BY <1>7 DEF GiveUp, execVars
<1>. QED
  BY <1>1, <1>2, <1>3, <1>4, <1>5, <1>6, <1>7 DEF Next, Process, Decide, Validate

\* Handlers that neither log nor begin or end the call of an action that took
\* effect.
LEMMA AuditUntouched ==
  ASSUME TypeOK, Audited, UNCHANGED <<timeline, auditLog, logStart>>,
         \A q \in Acted : pc'[q] = "executing" <=> pc[q] = "executing"
  PROVE  Audited'
<1>1. \A i \in DOMAIN timeline : pc'[timeline[i]] = "executing" <=> pc[timeline[i]] = "executing"
  BY DEF Acted
<1>2. \A i \in logStart + 1 .. Len(timeline) : i \in DOMAIN timeline
  BY DEF TypeOK
<1>3. OpenCall'
  BY <1>1 DEF Audited, OpenCall
<1>4. Logged'
  BY <1>1, <1>2 DEF Audited, Logged
<1>5. InOrder'
  BY DEF Audited, InOrder
<1>. QED  BY <1>3, <1>4, <1>5 DEF Audited

\* An entry for an action without effect.
LEMMA AuditOfBlock ==
  ASSUME TypeOK, Audited, UNCHANGED <<timeline, logStart>>,
         NEW r \in Req, r \notin Acted, Log(r, "BLOCK", FALSE),
         \A q \in Req \ {r} : pc'[q] = pc[q]
  PROVE  Audited'
<1>. DEFINE n == Len(auditLog) + 1
            e == [id |-> r, decision |-> "BLOCK", executed |-> FALSE]
<1>1. auditLog \in Seq(Entry) /\ auditLog' = Append(auditLog, e) /\ e.id = r
  BY DEF TypeOK, Log
<1>2. /\ DOMAIN auditLog' = DOMAIN auditLog \cup {n} /\ auditLog'[n].id = r
      /\ n \in Nat /\ DOMAIN auditLog = 1..(n - 1)
      /\ \A i \in DOMAIN auditLog : auditLog'[i] = auditLog[i]
  BY <1>1
<1>. HIDE DEF n, e
<1>3. \A i \in DOMAIN timeline : timeline[i] \in Req /\ timeline[i] # r
  BY DEF TypeOK, Acted
<1>4. OpenCall'
  BY <1>3 DEF Audited, OpenCall
<1>5. Logged'
  <2>1. \A i \in logStart + 1 .. Len(timeline) : i \in DOMAIN timeline
    BY DEF TypeOK
  <2>. QED  BY <1>2, <1>3, <2>1 DEF Audited, Logged
<1>6. InOrder'
  BY <1>2, <1>3 DEF Audited, InOrder
<1>. QED  BY <1>4, <1>5, <1>6 DEF Audited

\* The entry of a call that returned.
LEMMA AuditOfReturn ==
  ASSUME TypeOK, Reports, Audited, UNCHANGED <<timeline, logStart>>,
         NEW r \in Req, pc[r] = "executing", pc' = [pc EXCEPT ![r] = "done"],
         NEW done \in BOOLEAN, Log(r, "ALLOW", done)
  PROVE  Audited'
<1>. DEFINE n == Len(auditLog) + 1
            e == [id |-> r, decision |-> "ALLOW", executed |-> done]
<1>1. auditLog \in Seq(Entry) /\ auditLog' = Append(auditLog, e) /\ e.id = r /\ e.decision = "ALLOW"
  BY DEF TypeOK, Log
<1>2. /\ DOMAIN auditLog' = DOMAIN auditLog \cup {n}
      /\ auditLog'[n].id = r /\ auditLog'[n].decision = "ALLOW"
      /\ n \in Nat /\ DOMAIN auditLog = 1..(n - 1)
      /\ \A i \in DOMAIN auditLog : auditLog'[i] = auditLog[i]
  BY <1>1
<1>. HIDE DEF n, e
<1>3. \A i \in DOMAIN timeline : timeline[i] \in Req /\ i \in 1..Len(timeline) /\ Len(timeline) \in Nat
  BY DEF TypeOK
<1>4. \A i \in DOMAIN timeline : timeline[i] = r => i = Len(timeline) /\ i > logStart
  BY DEF Audited, OpenCall
<1>5. \A q \in Req : pc'[q] = IF q = r THEN "done" ELSE pc[q]
  BY DEF TypeOK
<1>6. \A i \in DOMAIN auditLog : auditLog[i].id # r
  BY DEF Reports
<1>7. OpenCall'
  BY <1>3, <1>5 DEF Audited, OpenCall
<1>8. Logged'
  <2>1. \A i \in logStart + 1 .. Len(timeline) : i \in DOMAIN timeline
    BY DEF TypeOK
  <2>. QED  BY <1>2, <1>3, <1>5, <2>1 DEF Audited, Logged
<1>9. InOrder'
  BY <1>2, <1>3, <1>4, <1>6 DEF Audited, InOrder
<1>. QED  BY <1>7, <1>8, <1>9 DEF Audited

\* The action of the one inside takes effect.
LEMMA AuditOfEffect ==
  ASSUME TypeOK, Queue, Reports, Audited, UNCHANGED <<pc, auditLog, logStart>>,
         NEW r \in Req, pc[r] = "executing", r \notin Acted, timeline' = Append(timeline, r)
  PROVE  Audited'
<1>. DEFINE n == Len(timeline) + 1
<1>1. /\ n \in Nat /\ Len(timeline') = n /\ timeline'[n] = r
      /\ DOMAIN timeline = 1..(n - 1) /\ DOMAIN timeline' = 1..n
      /\ \A i \in 1..(n - 1) : timeline'[i] = timeline[i] /\ timeline[i] \in Req /\ timeline[i] # r
      /\ logStart \in Nat /\ logStart <= n - 1
  BY DEF TypeOK, Acted, Audited, OpenCall
<1>. HIDE DEF n
<1>2. \A q \in Req : pc[q] = "executing" => q = r
  BY DEF Queue, Inside
<1>3. \A k \in DOMAIN auditLog : auditLog[k].id # r
  BY DEF Reports
<1>4. OpenCall'
  BY <1>1, <1>2 DEF OpenCall
<1>5. Logged'
  <2>1. \A i \in logStart + 1 .. Len(timeline) : i \in DOMAIN timeline /\ i \in 1..(n - 1)
    BY <1>1 DEF TypeOK
  <2>2. \A i \in logStart + 1 .. n : i = n \/ i \in logStart + 1 .. n - 1
    BY <1>1
  <2>3. Len(timeline) = n - 1
    BY <1>1 DEF n, TypeOK
  <2>. QED  BY <1>1, <2>1, <2>2, <2>3 DEF Audited, Logged
<1>6. InOrder'
  BY <1>1, <1>3 DEF Audited, InOrder
<1>. QED  BY <1>4, <1>5, <1>6 DEF Audited

LEMMA StepAudited ==
  ASSUME TypeOK, Queue, Approvals, Reports, Attended, Audited, [Next]_vars, Undisturbed, Undisturbed'
  PROVE  Audited'
<1>. USE DEF TypeOK
<1>1. ~Restart /\ \A r \in Req : ~ExecuteRaises(r)
  BY DEF Undisturbed, Restart, ExecuteRaises
<1>2. Acted \subseteq approved
  BY DEF Approvals
<1>3. ASSUME NEW r \in Req, Resolve(r) \/ ResolveFails(r) \/ Acquire(r) \/ DecideAllow(r) \/ DecideUndecided(r)
                            \/ Analyze(r) \/ ValidateAllow(r) \/ ModelFails(r)
      PROVE Audited'
  <2>1. UNCHANGED <<timeline, auditLog, logStart>>
    BY <1>3 DEF Resolve, ResolveFails, Acquire, DecideAllow, DecideUndecided, Analyze, ValidateAllow,
                Approve, ModelFails, execVars
  <2>2. /\ pc[r] \in {"idle", "waiting", "deciding", "analyzing", "validating"}
        /\ \A q \in Req \ {r} : pc'[q] = pc[q]
    BY <1>3 DEF Resolve, ResolveFails, Arrives, Acquire, DecideAllow, DecideUndecided, Analyze,
                ValidateAllow, Approve, ModelFails, Leave, Goto
  <2>3. r \notin Acted
    BY <1>2, <2>2 DEF Approvals
  <2>. QED  BY <1>2, <2>1, <2>2, <2>3, AuditUntouched
<1>4. ASSUME NEW r \in Req, DecideBlock(r) \/ ValidateBlock(r) PROVE Audited'
  <2>1. /\ UNCHANGED <<timeline, logStart>> /\ Log(r, "BLOCK", FALSE)
        /\ pc[r] \in {"deciding", "validating"} /\ \A q \in Req \ {r} : pc'[q] = pc[q]
    BY <1>4 DEF DecideBlock, ValidateBlock, Leave, Goto, execVars
  <2>2. r \notin Acted
    BY <1>2, <2>1 DEF Approvals
  <2>. QED  BY <2>1, <2>2, AuditOfBlock
<1>5. ASSUME NEW r \in Req, ExecuteReturns(r) PROVE Audited'
  <2>1. /\ UNCHANGED <<timeline, logStart>> /\ Log(r, "ALLOW", outcome[r] = "ok")
        /\ pc[r] = "executing" /\ pc' = [pc EXCEPT ![r] = "done"]
    BY <1>5 DEF ExecuteReturns, Leave, Goto, execVars
  <2>. QED  BY <2>1, AuditOfReturn
<1>6. ASSUME NEW r \in Req, ExecutorPerforms(r) PROVE Audited'
  <2>1. /\ r \in approved /\ r \notin Acted /\ (outcome[r] = "none" \/ r \in Late)
        /\ timeline' = Append(timeline, r) /\ UNCHANGED <<pc, auditLog, logStart, outcome>>
    BY <1>6 DEF ExecutorPerforms, Executor!Perform, execFrame
  <2>2. r \in Acted'
    BY <2>1, MembersOfAppend, ActedIsMembers
  <2>3. outcome[r] = "none"
    BY <2>1, <2>2 DEF Undisturbed, Reports
  <2>4. pc[r] = "executing"
    BY <2>1, <2>3 DEF Attended
  <2>. QED  BY <2>1, <2>4, AuditOfEffect
<1>7. CASE ClearAuditLog
  <2>1. /\ auditLog' = <<>> /\ logStart' = Len(timeline) /\ UNCHANGED <<pc, timeline>>
        /\ \A q \in Req : pc[q] # "executing"
    BY <1>7 DEF ClearAuditLog, LoopFree, execVars
  <2>2. \A i \in DOMAIN timeline : timeline[i] \in Req
    OBVIOUS
  <2>3. OpenCall'
    BY <2>1, <2>2 DEF OpenCall
  <2>4. Logged'
    BY <2>1 DEF Logged
  <2>5. InOrder'
    BY <2>1 DEF InOrder
  <2>. QED  BY <2>3, <2>4, <2>5 DEF Audited
<1>8. CASE EditPolicy \/ (\E r \in Req : GiveUp(r) \/ ExecutorRecords(r) \/ ExecutorAnswers(r)) \/ UNCHANGED vars
  <2>1. UNCHANGED <<pc, timeline, auditLog, logStart>>
    BY <1>8 DEF EditPolicy, GiveUp, ExecutorRecords, ExecutorAnswers, execFrame, execVars, vars
  <2>. QED  BY <2>1, AuditUntouched
<1>. QED
  BY <1>1, <1>3, <1>4, <1>5, <1>6, <1>7, <1>8 DEF Next, Process, Decide, Validate, Execution

Timely == Undisturbed => Attended /\ Audited

\* While no call raised, no runtime died and no adapter outlived a failure, the
\* audit_log of process_intent tells the actions in the order they took effect.
THEOREM AuditTellsTheOrder == Spec => []AuditIsTimeline
<1>1. Init => Timely
  BY DEF Init, Timely, Attended, Audited, OpenCall, Logged, InOrder
<1>2. LaneInd /\ Timely /\ [Next]_vars => Timely'
  BY OnceDisturbed, StepAttended, StepAudited DEF LaneInd, Timely
<1>3. Timely => AuditIsTimeline
  BY DEF Timely, Audited, Logged, InOrder, AuditIsTimeline
<1>. QED  BY <1>1, <1>2, <1>3, LaneInductive, PTL DEF Spec
===============================================================================
