---------------------------- MODULE AgentRunsProofs ----------------------------
(***************************************************************************)
(* What the operator is told of the agents' runs, for every set of invoices *)
(* and configurations, any number of turns, tools and faults.               *)
(*                                                                          *)
(* Calls are followed from the tool that sends one to the row it leaves.    *)
(* A call that is not yet served is waited for or in doubt, so a row, a     *)
(* refusal and a counter that concern no call in doubt appear in one step;  *)
(* and a bot appends an invoice of which such a row exists only when the    *)
(* user has told it to, because it has read the tracker since the run       *)
(* began, and then once for the run.                                        *)
(*                                                                          *)
(* The second half is about the assistant.                                  *)
(***************************************************************************)
EXTENDS AgentRuns, Jarvis, FiniteSetTheorems, SequenceTheorems, TLAPS

LaneCalls == {e.call : e \in ToSet(lane)}
Unserved == wire \cup LaneCalls
Known == Unserved \cup late \cup tracker \cup refused \cup inDoubt

\* Rows and refusals that concern no call in doubt.
SureRows == tracker \ inDoubt
SureRefusals == refused \ inDoubt

Outcome == [processed : Nat, blocked : Nat]

RunsTypes ==
  /\ stage \in {"register", "install", "launch", "running", "over"}
  /\ bot \in {"off", "greeting", "working"}
  /\ stage = "running" <=> bot # "off"
  /\ turn \in Nat
  /\ tally \in Outcome
  /\ reports \in Seq([status : Status, tally : Outcome])
  /\ waiting \subseteq Call /\ Known \subseteq Call
  /\ \E S : lane \in Seq(S)
  /\ IsFiniteSet(tracker) /\ IsFiniteSet(refused) /\ IsFiniteSet(consents)

\* No call is of a run or a turn to come.
Issued == \A c \in Known : c.run < Run \/ (c.run = Run /\ bot # "off" /\ c.turn < turn)

\* A call is in one place of the runtime at most.
Single ==
  /\ \A i, j \in DOMAIN lane : lane[i].call = lane[j].call => i = j
  /\ \A i \in DOMAIN lane : lane[i].call \notin wire

\* A call somebody waits for is of this turn, and nothing has come of it.
Awaited ==
  /\ bot # "working" => waiting = {}
  /\ \A c \in waiting :
       /\ c.run = Run /\ c.turn = turn - 1
       /\ c \in Unserved
       /\ c \notin late \cup tracker \cup refused \cup inDoubt

\* An append that nobody waits for and that may still be carried out.
Doubtful ==
  /\ \A c \in Unserved : c.op = "append" => c \in waiting \cup inDoubt
  /\ late \subseteq inDoubt

\* Only appends leave rows, and only of invoices.
Appends ==
  /\ \A c \in Known : c.op = "append" => c.inv \in Invoice
  /\ \A c \in late \cup tracker : c.op = "append"

OfRun(S, r) == {c \in S : c.run = r}

Counts(outcome, r) ==
  /\ outcome.processed = Cardinality(OfRun(SureRows, r))
  /\ outcome.blocked = Cardinality(OfRun(SureRefusals, r))

Counted ==
  /\ Counts(tally, Run)
  /\ \A r \in DOMAIN reports : reports[r].status = "completed" => Counts(reports[r].tally, r)

\* The user told the run of c to add the invoice of c.
Consented(c) == \E k \in consents : k.run = c.run /\ k.inv = c.inv

\* One row of an invoice at most is neither in doubt nor one the user said add
\* to, a run leaves one at most, and the bot knows of them once it has read the
\* tracker.
OneRow ==
  /\ \A c, d \in SureRows : c.inv = d.inv => c = d \/ Consented(c) \/ Consented(d)
  /\ \A c, d \in SureRows : c.inv = d.inv /\ c.run = d.run => c = d
  /\ \A c \in SureRows :
       /\ c.run = Run => c.inv \in told
       /\ c.run # Run /\ hasRead => c.inv \in saw
  /\ \A c \in waiting : c.op = "append" =>
       /\ \A d \in SureRows : d.inv = c.inv => d.run # c.run /\ Consented(c)
       /\ \A d \in waiting : d.op = "append" /\ d.inv = c.inv => d = c

RunsInd == RunsTypes /\ Issued /\ Single /\ Awaited /\ Doubtful /\ Appends /\ Counted /\ OneRow

-------------------------------------------------------------------------------
(* The lane's queue *)

LEMMA Arriving ==
  ASSUME RunsTypes, Single, NEW c \in wire, NEW p,
         wire' = wire \ {c}, lane' = Append(lane, [call |-> c, permits |-> p])
  PROVE  (\E S : lane' \in Seq(S)) /\ Unserved' = Unserved /\ Single'
<1>1. PICK S : lane \in Seq(S)
  BY DEF RunsTypes
<1>. DEFINE e == [call |-> c, permits |-> p]
            n == Len(lane) + 1
            T == S \cup {e}
<1>2. e.call = c /\ lane' = Append(lane, e)
  OBVIOUS
<1>. HIDE DEF e
<1>3. lane \in Seq(T) /\ e \in T
  BY <1>1
<1>. HIDE DEF T
<1>4. /\ lane' \in Seq(T)
      /\ DOMAIN lane' = DOMAIN lane \cup {n} /\ n \notin DOMAIN lane /\ lane'[n] = e
      /\ \A i \in DOMAIN lane : lane'[i] = lane[i]
  BY <1>2, <1>3
<1>. HIDE DEF n
<1>5. LaneCalls' = LaneCalls \cup {c}
  BY <1>2, <1>4 DEF LaneCalls, ToSet
<1>6. Unserved' = Unserved
  BY <1>5 DEF Unserved
<1>7. Single'
  BY <1>2, <1>4 DEF Single
<1>. QED  BY <1>4, <1>6, <1>7

LEMMA Leaving ==
  ASSUME RunsTypes, Single, lane # <<>>, lane' = Tail(lane), wire' = wire
  PROVE  /\ \E S : lane' \in Seq(S)
         /\ Inside \in Unserved
         /\ Unserved' = Unserved \ {Inside}
         /\ Single'
<1>1. PICK S : lane \in Seq(S)
  BY DEF RunsTypes
<1>2. /\ lane' \in Seq(S)
      /\ Len(lane) \in Nat \ {0} /\ DOMAIN lane = 1..Len(lane) /\ DOMAIN lane' = 1..(Len(lane) - 1)
      /\ \A i \in DOMAIN lane' : lane'[i] = lane[i + 1]
  BY <1>1
<1>3. Inside \in LaneCalls
  BY <1>2 DEF LaneCalls, ToSet, Inside
<1>4. ASSUME NEW x \in LaneCalls' PROVE x \in LaneCalls \ {Inside}
  <2>1. PICK i \in DOMAIN lane' : x = lane'[i].call
    BY <1>4 DEF LaneCalls, ToSet
  <2>2. x = lane[i + 1].call /\ i + 1 \in DOMAIN lane /\ 1 \in DOMAIN lane /\ i + 1 # 1
    BY <1>2, <2>1
  <2>. QED  BY <2>2 DEF LaneCalls, ToSet, Inside, Single
<1>5. ASSUME NEW x \in LaneCalls, x # Inside PROVE x \in LaneCalls'
  <2>1. PICK i \in DOMAIN lane : x = lane[i].call
    BY <1>5 DEF LaneCalls, ToSet
  <2>2. i - 1 \in DOMAIN lane' /\ lane'[i - 1] = lane[i]
    BY <1>2, <1>5, <2>1 DEF Inside
  <2>. QED  BY <2>1, <2>2 DEF LaneCalls, ToSet
<1>6. Inside \notin wire
  BY <1>2 DEF Single, Inside
<1>7. Unserved' = Unserved \ {Inside}
  BY <1>4, <1>5, <1>6 DEF Unserved
<1>8. Single'
  <2>1. \A i \in DOMAIN lane' : i + 1 \in DOMAIN lane /\ i \in Int
    BY <1>2
  <2>. QED  BY <1>2, <2>1 DEF Single
<1>. QED  BY <1>2, <1>3, <1>7, <1>8 DEF Unserved

-------------------------------------------------------------------------------
(* Counting *)

LEMMA SureIsFinite ==
  ASSUME RunsTypes, NEW r
  PROVE  /\ IsFiniteSet(OfRun(SureRows, r))
         /\ IsFiniteSet(OfRun(SureRefusals, r))
  BY FS_Subset DEF RunsTypes, SureRows, SureRefusals, OfRun

\* A row or a refusal more for the counter that is one higher.
LEMMA OneMore ==
  ASSUME NEW S, NEW c, c \notin S, NEW r, c.run = r, IsFiniteSet(OfRun(S, r))
  PROVE  Cardinality(OfRun(S \cup {c}, r)) = Cardinality(OfRun(S, r)) + 1
<1>. DEFINE T == OfRun(S, r)
<1>1. OfRun(S \cup {c}, r) = T \cup {c} /\ c \notin T
  BY DEF OfRun
<1>2. Cardinality(T \cup {c}) = Cardinality(T) + 1
  <2>. HIDE DEF T
  <2>. QED  BY <1>1, FS_AddElement DEF T
<1>. QED  BY <1>1, <1>2

LEMMA CountedSame ==
  ASSUME Counted, UNCHANGED <<SureRows, SureRefusals, tally, reports>>
  PROVE  Counted'
  BY DEF Counted, Counts, Run

-------------------------------------------------------------------------------
(* Steps of the dashboard *)

LEMMA RunsInit == Init => RunsInd
<1>. SUFFICES ASSUME Init PROVE RunsInd
  OBVIOUS
<1>1. lane \in Seq({}) /\ reports \in Seq([status : Status, tally : Outcome]) /\ reports = <<>>
  BY DEF Init
<1>2. Unserved = {} /\ Known = {} /\ SureRows = {} /\ SureRefusals = {}
  BY DEF Init, Known, Unserved, LaneCalls, ToSet, SureRows, SureRefusals
<1>3. RunsTypes
  BY <1>1, <1>2, FS_EmptySet DEF Init, RunsTypes, NoTally, Outcome
<1>4. Counted
  <2>1. \A r : OfRun(SureRows, r) = {} /\ OfRun(SureRefusals, r) = {}
    BY <1>2 DEF OfRun
  <2>2. Counts(tally, Run)
    BY <2>1, FS_EmptySet DEF Init, Counts, NoTally
  <2>. QED  BY <1>1, <2>2 DEF Counted
<1>5. Issued /\ Single /\ Awaited /\ Doubtful /\ Appends /\ OneRow
  BY <1>2 DEF Init, Issued, Single, Awaited, Doubtful, Appends, OneRow, Consented
<1>. QED  BY <1>3, <1>4, <1>5 DEF RunsInd

\* Nothing happens to the calls.
LEMMA QuietStep ==
  ASSUME RunsInd,
         UNCHANGED <<turn, hasRead, saw, told, tally, reports, wire, lane, waiting, late, tracker,
                     refused, inDoubt, consents>>,
         stage' \in {"register", "install", "launch", "running", "over"},
         stage' = "running" <=> bot' # "off",
         bot' = bot \/ (bot = "greeting" /\ bot' = "working")
  PROVE  RunsInd'
<1>1. UNCHANGED <<LaneCalls, Unserved, Known, SureRows, SureRefusals, Run>>
  BY DEF LaneCalls, Unserved, Known, SureRows, SureRefusals, Run
<1>2. RunsTypes'
  BY <1>1 DEF RunsInd, RunsTypes
<1>3. Issued' /\ Single' /\ Awaited' /\ Doubtful' /\ Appends'
  BY <1>1 DEF RunsInd, RunsTypes, Issued, Single, Awaited, Doubtful, Appends
<1>4. Counted'
  BY <1>1, CountedSame DEF RunsInd
<1>5. OneRow'
  BY <1>1 DEF RunsInd, OneRow, Consented
<1>. QED  BY <1>2, <1>3, <1>4, <1>5 DEF RunsInd

\* A new process: no call of this run exists.
LEMMA LaunchStep ==
  ASSUME RunsInd, Launch
  PROVE  RunsInd'
<1>1. /\ bot = "off" /\ bot' = "greeting" /\ stage' = "running" /\ waiting = {}
      /\ UNCHANGED <<reports, wire, lane, waiting, late, tracker, refused, inDoubt, consents>>
      /\ turn' = 0 /\ hasRead' = FALSE /\ saw' = {} /\ told' = {} /\ tally' = NoTally
  BY DEF Launch, RunsInd, RunsTypes, Awaited, laneVars, worldVars, answerVars
<1>2. UNCHANGED <<LaneCalls, Unserved, Known, SureRows, SureRefusals, Run>>
  BY <1>1 DEF LaneCalls, Unserved, Known, SureRows, SureRefusals, Run
<1>3. RunsTypes'
  BY <1>1, <1>2 DEF RunsInd, RunsTypes, NoTally, Outcome
<1>4. \A c \in Known : c.run < Run /\ c.run # Run
  BY <1>1 DEF RunsInd, RunsTypes, Issued, Call, Run
<1>5. Issued' /\ Single' /\ Awaited' /\ Doubtful' /\ Appends'
  BY <1>1, <1>2, <1>4 DEF RunsInd, Issued, Single, Awaited, Doubtful, Appends
<1>6. SureRows \subseteq Known /\ SureRefusals \subseteq Known
  BY DEF SureRows, SureRefusals, Known
<1>7. Counted'
  <2>1. OfRun(SureRows, Run) = {} /\ OfRun(SureRefusals, Run) = {}
    BY <1>4, <1>6 DEF OfRun
  <2>2. Counts(tally, Run)'
    BY <1>1, <1>2, <2>1, FS_EmptySet DEF Counts, NoTally
  <2>. QED  BY <1>1, <1>2, <2>2 DEF RunsInd, Counted, Counts
<1>8. OneRow'
  BY <1>1, <1>2, <1>4, <1>6 DEF RunsInd, OneRow, Consented
<1>. QED  BY <1>3, <1>5, <1>7, <1>8 DEF RunsInd

\* The end of a run: what it waits for is in doubt.
LEMMA ReportStep ==
  ASSUME RunsInd, NEW status \in Status, NEW counted \in Outcome, Report(status, counted),
         status = "completed" => waiting = {} /\ counted = tally
  PROVE  RunsInd'
<1>. DEFINE new == [status |-> status, tally |-> counted]
<1>1. /\ stage = "running" /\ bot' = "off" /\ waiting' = {}
      /\ stage' \in {"launch", "register", "over"}
      /\ reports' = Append(reports, new)
      /\ inDoubt' = inDoubt \cup {c \in waiting : c.op = "append"}
      /\ UNCHANGED <<wire, lane, late, tracker, refused, consents>>
      /\ turn' = 0 /\ hasRead' = FALSE /\ saw' = {} /\ told' = {} /\ tally' = NoTally
  BY DEF Report, EndConfig, laneVars, worldVars
<1>2. /\ reports \in Seq([status : Status, tally : Outcome]) /\ new \in [status : Status, tally : Outcome]
      /\ new.status = status /\ new.tally = counted
  BY DEF RunsInd, RunsTypes
<1>. HIDE DEF new
<1>3. /\ reports' \in Seq([status : Status, tally : Outcome])
      /\ Run \in Nat /\ Run' = Run + 1
      /\ DOMAIN reports = 1..(Run - 1) /\ DOMAIN reports' = 1..Run
      /\ reports'[Run] = new
      /\ \A r \in DOMAIN reports : reports'[r] = reports[r]
  BY <1>1, <1>2 DEF Run
<1>4. UNCHANGED <<LaneCalls, Unserved>> /\ Known' \subseteq Known \cup waiting
  BY <1>1 DEF LaneCalls, Unserved, Known
<1>5. waiting \subseteq Known
  BY DEF RunsInd, Awaited, Known
<1>6. UNCHANGED <<SureRows, SureRefusals>>
  BY <1>1 DEF RunsInd, Awaited, SureRows, SureRefusals
<1>7. RunsTypes'
  <2>1. NoTally \in Outcome
    BY DEF NoTally, Outcome
  <2>2. Known' \subseteq Call
    BY <1>4, <1>5 DEF RunsInd, RunsTypes
  <2>. QED  BY <1>1, <1>3, <2>1, <2>2 DEF RunsInd, RunsTypes
<1>8. \A c \in Known : c.run \in Nat /\ c.run <= Run
  BY <1>3 DEF RunsInd, RunsTypes, Issued, Call
<1>9. Issued'
  BY <1>3, <1>4, <1>5, <1>8 DEF Issued
<1>10. Single' /\ Awaited'
  BY <1>1 DEF RunsInd, Single, Awaited
<1>11. Doubtful' /\ Appends'
  BY <1>1, <1>4, <1>5 DEF RunsInd, Doubtful, Appends
<1>12. SureRows \subseteq Known /\ SureRefusals \subseteq Known
  BY DEF SureRows, SureRefusals, Known
<1>13. Counted'
  <2>1. OfRun(SureRows, Run') = {} /\ OfRun(SureRefusals, Run') = {}
    BY <1>3, <1>8, <1>12 DEF OfRun
  <2>2. Counts(tally, Run)'
    BY <1>1, <1>6, <2>1, FS_EmptySet DEF Counts, NoTally
  <2>3. ASSUME NEW r \in DOMAIN reports', reports'[r].status = "completed"
        PROVE  Counts(reports[r].tally, r)'
    <3>1. CASE r = Run
      BY <1>2, <1>3, <1>6, <2>3, <3>1 DEF RunsInd, Counted, Counts
    <3>2. CASE r # Run
      <4>1. r \in DOMAIN reports
        BY <1>3, <2>3, <3>2
      <4>. QED  BY <1>3, <1>6, <2>3, <4>1 DEF RunsInd, Counted, Counts
    <3>. QED  BY <3>1, <3>2
  <2>. QED  BY <2>2, <2>3 DEF Counted
<1>14. OneRow'
  <2>1. \A c \in SureRows : c.run # Run'
    BY <1>3, <1>8, <1>12
  <2>. QED  BY <1>1, <1>6, <2>1 DEF RunsInd, OneRow, Consented
<1>. QED  BY <1>7, <1>9, <1>10, <1>11, <1>13, <1>14 DEF RunsInd

-------------------------------------------------------------------------------
(* Steps of the bot *)

LEMMA TurnStep ==
  ASSUME RunsInd, NEW choice \in SUBSET Tool, Turn(choice)
  PROVE  RunsInd'
<1>. DEFINE call(t) == [run |-> Run, turn |-> turn, op |-> t.op, inv |-> t.inv]
<1>1. /\ bot = "working" /\ waiting = {} /\ turn' = turn + 1
      /\ \A t \in choice : Sensible(t.op, t.inv)
      /\ waiting' = {call(t) : t \in choice}
      /\ wire' = wire \cup waiting'
      /\ UNCHANGED <<stage, bot, hasRead, saw, told, tally, reports, lane, late, tracker, refused, inDoubt,
                     consents>>
  BY DEF Turn, Thinking, dashVars, worldVars, answerVars
<1>2. Run \in Nat /\ turn \in Nat
  BY DEF RunsInd, RunsTypes, Run
<1>3. \A t \in choice : t.op \in Op /\ t.inv \in Invoice \cup {Tracker}
  BY DEF Tool, Op
<1>4. \A t \in choice : t.op = "append" => t.inv \in Invoice
  BY DEF Tool
<1>5. \A c \in waiting' : c \in Call /\ c.run = Run /\ c.turn = turn
  BY <1>1, <1>2, <1>3 DEF Call
<1>6. \A c \in waiting' : c \notin Known
  BY <1>1, <1>2, <1>5 DEF RunsInd, Issued
<1>7. \A c \in waiting' : c.op = "append" =>
        hasRead /\ c.inv \notin told /\ (c.inv \in saw => Consented(c))
  <2>1. \A i : i \in Approved => \E k \in consents : k.run = Run /\ k.inv = i
    BY DEF Approved
  <2>. QED  BY <1>1, <2>1 DEF Sensible, Consented
<1>8. \A c, d \in waiting' : c.op = d.op /\ c.inv = d.inv => c = d
  BY <1>1
<1>. HIDE DEF call
<1>9. /\ UNCHANGED <<LaneCalls, SureRows, SureRefusals, Run>>
      /\ Unserved' = Unserved \cup waiting' /\ Known' = Known \cup waiting'
  BY <1>1 DEF LaneCalls, Unserved, Known, SureRows, SureRefusals, Run
<1>10. RunsTypes'
  <2>1. turn' \in Nat
    BY <1>1, <1>2
  <2>2. waiting' \subseteq Call /\ Known' \subseteq Call
    BY <1>5, <1>9 DEF RunsInd, RunsTypes
  <2>. QED  BY <1>1, <2>1, <2>2 DEF RunsInd, RunsTypes
<1>11. Issued'
  BY <1>1, <1>2, <1>5, <1>9 DEF RunsInd, RunsTypes, Issued, Call
<1>12. Single'
  <2>1. \A i \in DOMAIN lane : lane[i].call \in Known
    BY DEF Known, Unserved, LaneCalls, ToSet
  <2>. QED  BY <1>1, <1>6, <2>1 DEF RunsInd, Single
<1>13. Awaited'
  BY <1>1, <1>2, <1>5, <1>6, <1>9 DEF Awaited, Known
<1>14. Doubtful' /\ Appends'
  <2>1. \A c \in waiting' : c.op = "append" => c.inv \in Invoice
    BY <1>1, <1>4 DEF call
  <2>. QED  BY <1>1, <1>9, <2>1 DEF RunsInd, Doubtful, Appends
<1>15. Counted'
  BY <1>1, <1>9, CountedSame DEF RunsInd
<1>16. OneRow'
  <2>1. \A c : Consented(c)' <=> Consented(c)
    BY <1>1 DEF Consented
  <2>2. ASSUME NEW c \in waiting', c.op = "append", NEW d \in SureRows, d.inv = c.inv
        PROVE  d.run # c.run /\ Consented(c)
    BY <1>5, <1>7, <2>2 DEF RunsInd, OneRow
  <2>. QED  BY <1>1, <1>8, <1>9, <2>1, <2>2 DEF RunsInd, OneRow
<1>. QED  BY <1>10, <1>11, <1>12, <1>13, <1>14, <1>15, <1>16 DEF RunsInd

LEMMA SkipStep ==
  ASSUME RunsInd, NEW i \in Invoice, Skip(i)
  PROVE  RunsInd'
<1>1. /\ waiting = {} /\ turn' = turn + 1 /\ told' = told \cup {i}
      /\ UNCHANGED <<stage, bot, hasRead, saw, tally, reports, wire, lane, waiting, late, tracker, refused,
                     inDoubt, consents>>
  BY DEF Skip, Thinking, dashVars, laneVars, worldVars, answerVars
<1>2. UNCHANGED <<LaneCalls, Unserved, Known, SureRows, SureRefusals, Run>>
  BY <1>1 DEF LaneCalls, Unserved, Known, SureRows, SureRefusals, Run
<1>3. turn \in Nat /\ turn' \in Nat /\ turn' > turn
  BY <1>1 DEF RunsInd, RunsTypes
<1>4. RunsTypes'
  BY <1>1, <1>2, <1>3 DEF RunsInd, RunsTypes
<1>5. Issued'
  <2>1. \A c \in Known : c.turn \in Nat
    BY DEF RunsInd, RunsTypes, Call
  <2>. QED  BY <1>1, <1>2, <1>3, <2>1 DEF RunsInd, Issued
<1>6. Single' /\ Awaited' /\ Doubtful' /\ Appends'
  BY <1>1, <1>2 DEF RunsInd, Single, Awaited, Doubtful, Appends
<1>7. Counted'
  BY <1>1, <1>2, CountedSame DEF RunsInd
<1>8. OneRow'
  BY <1>1, <1>2 DEF RunsInd, OneRow, Consented
<1>. QED  BY <1>4, <1>5, <1>6, <1>7, <1>8 DEF RunsInd

-------------------------------------------------------------------------------
(* Steps of the runtime *)

LEMMA ArriveStep ==
  ASSUME RunsInd, NEW c \in wire, Arrive(c)
  PROVE  RunsInd'
<1>1. /\ wire' = wire \ {c} /\ lane' = Append(lane, [call |-> c, permits |-> policy])
      /\ UNCHANGED <<stage, bot, turn, hasRead, saw, told, tally, reports, waiting, late, tracker, refused,
                     inDoubt, consents>>
  BY DEF Arrive, dashVars, botVars, worldVars, answerVars
<1>2. (\E S : lane' \in Seq(S)) /\ Unserved' = Unserved /\ Single'
  BY <1>1, Arriving DEF RunsInd
<1>3. UNCHANGED <<Known, SureRows, SureRefusals, Run>>
  BY <1>1, <1>2 DEF Known, SureRows, SureRefusals, Run
<1>4. RunsTypes'
  BY <1>1, <1>2, <1>3 DEF RunsInd, RunsTypes
<1>5. Issued' /\ Awaited' /\ Doubtful' /\ Appends'
  BY <1>1, <1>2, <1>3 DEF RunsInd, Issued, Awaited, Doubtful, Appends
<1>6. Counted'
  BY <1>1, <1>3, CountedSame DEF RunsInd
<1>7. OneRow'
  BY <1>1, <1>3 DEF RunsInd, OneRow, Consented
<1>. QED  BY <1>2, <1>4, <1>5, <1>6, <1>7 DEF RunsInd

LEMMA WrittenLateStep ==
  ASSUME RunsInd, NEW c \in late, WrittenLate(c)
  PROVE  RunsInd'
<1>1. /\ late' = late \ {c} /\ tracker' = tracker \cup {c}
      /\ UNCHANGED <<stage, bot, turn, hasRead, saw, told, tally, reports, wire, lane, waiting, refused,
                     inDoubt, consents>>
  BY DEF WrittenLate, dashVars, botVars, laneVars, answerVars
<1>2. UNCHANGED <<LaneCalls, Unserved, Known, SureRows, SureRefusals, Run>>
  BY <1>1 DEF LaneCalls, Unserved, Known, SureRows, SureRefusals, Run, RunsInd, Doubtful
<1>3. IsFiniteSet(tracker')
  BY <1>1, FS_AddElement DEF RunsInd, RunsTypes
<1>4. RunsTypes'
  BY <1>1, <1>2, <1>3 DEF RunsInd, RunsTypes
<1>5. Issued' /\ Single' /\ Awaited' /\ Doubtful' /\ Appends'
  BY <1>1, <1>2 DEF RunsInd, Issued, Single, Awaited, Doubtful, Appends
<1>6. Counted'
  BY <1>1, <1>2, CountedSame DEF RunsInd
<1>7. OneRow'
  BY <1>1, <1>2 DEF RunsInd, OneRow, Consented
<1>. QED  BY <1>4, <1>5, <1>6, <1>7 DEF RunsInd

\* A call that has not been served is answered: with an error, and it may still
\* be served or be at work; or with what came of it.
LEMMA AnswerStep ==
  ASSUME RunsInd, NEW c \in Unserved, NEW answer \in {"ok", "blocked", "error", "add", "skip"},
         Answer(c, answer), answer \in {"add", "skip"} => c.op = "ask",
         \E S : lane' \in Seq(S), Single',
         Unserved' = Unserved \ {c} \/ (Unserved' = Unserved /\ answer = "error"),
         tracker' = IF c.op = "append" /\ answer = "ok" THEN tracker \cup {c} ELSE tracker,
         refused' = IF c.op = "append" /\ answer = "blocked" THEN refused \cup {c} ELSE refused,
         late' = late \/ (late' = late \cup {c} /\ c.op = "append" /\ answer = "error")
  PROVE  RunsInd'
<1>1. /\ waiting' = waiting \ {c}
      /\ UNCHANGED <<stage, bot, turn, reports>>
      /\ c \in waiting => /\ Learns(c, answer)
                          /\ inDoubt' = IF c.op = "append" /\ answer = "error" THEN inDoubt \cup {c} ELSE inDoubt
      /\ c \notin waiting => UNCHANGED <<told, tally, hasRead, saw, inDoubt>>
      /\ consents' \in {consents, consents \cup {c}}
  BY DEF Answer, dashVars, answerVars
<1>2. /\ c \in Known /\ c \in Call
      /\ c.op = "append" /\ c \notin waiting => c \in inDoubt
  BY DEF RunsInd, RunsTypes, Known, Doubtful
<1>3. c \in waiting => /\ c.run = Run /\ bot = "working"
                       /\ c \notin late \cup tracker \cup refused \cup inDoubt
  BY DEF RunsInd, RunsTypes, Awaited
<1>4. Known' \subseteq Known /\ Run' = Run
  BY <1>1, <1>2 DEF Known, Run
<1>5. SureRows' = IF c \in waiting /\ c.op = "append" /\ answer = "ok" THEN SureRows \cup {c} ELSE SureRows
  <2>1. CASE c \notin waiting
    BY <1>1, <1>2, <2>1 DEF SureRows
  <2>2. CASE c \in waiting
    BY <1>1, <1>3, <2>2 DEF SureRows
  <2>. QED  BY <2>1, <2>2
<1>6. SureRefusals' = IF c \in waiting /\ c.op = "append" /\ answer = "blocked"
                      THEN SureRefusals \cup {c} ELSE SureRefusals
  <2>1. CASE c \notin waiting
    BY <1>1, <1>2, <2>1 DEF SureRefusals
  <2>2. CASE c \in waiting
    BY <1>1, <1>3, <2>2 DEF SureRefusals
  <2>. QED  BY <2>1, <2>2
<1>7. tally \in Outcome /\ tally.processed \in Nat /\ tally.blocked \in Nat
  BY DEF RunsInd, RunsTypes, Outcome
<1>8. /\ tally' \in Outcome
      /\ tally'.processed = tally.processed + Tick(c \in waiting /\ c.op = "append" /\ answer = "ok")
      /\ tally'.blocked = tally.blocked + Tick(c \in waiting /\ c.op = "append" /\ answer = "blocked")
  <2>1. CASE c \notin waiting
    BY <1>1, <1>7, <2>1 DEF Tick
  <2>2. CASE c \in waiting
    BY <1>1, <1>7, <2>2 DEF Learns, Tallied, Tick, Outcome
  <2>. QED  BY <2>1, <2>2
<1>9. RunsTypes'
  <2>1. IsFiniteSet(tracker') /\ IsFiniteSet(refused')
    BY FS_AddElement DEF RunsInd, RunsTypes
  <2>3. IsFiniteSet(consents')
    <3>1. IsFiniteSet(consents) /\ IsFiniteSet(consents \cup {c})
      BY FS_AddElement DEF RunsInd, RunsTypes
    <3>. QED  BY <1>1, <3>1
  <2>2. waiting' \subseteq Call /\ Known' \subseteq Call
    BY <1>1, <1>4 DEF RunsInd, RunsTypes
  <2>. QED  BY <1>1, <1>8, <2>1, <2>2, <2>3 DEF RunsInd, RunsTypes
<1>10. Issued'
  BY <1>1, <1>4 DEF RunsInd, Issued
<1>11. Awaited'
  <2>1. inDoubt' \subseteq inDoubt \cup {c}
    BY <1>1
  <2>. QED  BY <1>1, <1>4, <2>1 DEF RunsInd, Awaited
<1>12. Doubtful'
  <2>1. inDoubt \subseteq inDoubt' /\ (c.op = "append" /\ answer = "error" => c \in inDoubt')
    BY <1>1, <1>2
  <2>. QED  BY <1>1, <2>1 DEF RunsInd, Doubtful
<1>13. Appends'
  BY <1>2, <1>4 DEF RunsInd, Appends
<1>14. c \in waiting => c \notin SureRows /\ c \notin SureRefusals
  BY <1>3 DEF SureRows, SureRefusals
<1>15. Counted'
  <2>1. \A r : IsFiniteSet(OfRun(SureRows, r)) /\ IsFiniteSet(OfRun(SureRefusals, r))
    BY SureIsFinite DEF RunsInd
  <2>2. Counts(tally, Run)'
    <3>1. tally'.processed = Cardinality(OfRun(SureRows', Run'))
      <4>1. tally.processed = Cardinality(OfRun(SureRows, Run))
        BY DEF RunsInd, Counted, Counts
      <4>2. CASE c \in waiting /\ c.op = "append" /\ answer = "ok"
        <5>1. c \notin SureRows /\ c.run = Run /\ SureRows' = SureRows \cup {c} /\ tally'.processed = tally.processed + 1
          BY <1>3, <1>5, <1>8, <1>14, <4>2 DEF Tick
        <5>2. Cardinality(OfRun(SureRows \cup {c}, Run))
              = Cardinality(OfRun(SureRows, Run)) + 1
          BY <2>1, <5>1, OneMore
        <5>. QED  BY <1>4, <4>1, <5>1, <5>2
      <4>3. CASE ~(c \in waiting /\ c.op = "append" /\ answer = "ok")
        <5>1. SureRows' = SureRows /\ tally'.processed = tally.processed
          BY <1>5, <1>7, <1>8, <4>3 DEF Tick
        <5>. QED  BY <1>4, <4>1, <5>1
      <4>. QED  BY <4>2, <4>3
    <3>2. tally'.blocked = Cardinality(OfRun(SureRefusals', Run'))
      <4>1. tally.blocked = Cardinality(OfRun(SureRefusals, Run))
        BY DEF RunsInd, Counted, Counts
      <4>2. CASE c \in waiting /\ c.op = "append" /\ answer = "blocked"
        <5>1. c \notin SureRefusals /\ c.run = Run /\ SureRefusals' = SureRefusals \cup {c} /\ tally'.blocked = tally.blocked + 1
          BY <1>3, <1>6, <1>8, <1>14, <4>2 DEF Tick
        <5>2. Cardinality(OfRun(SureRefusals \cup {c}, Run))
              = Cardinality(OfRun(SureRefusals, Run)) + 1
          BY <2>1, <5>1, OneMore
        <5>. QED  BY <1>4, <4>1, <5>1, <5>2
      <4>3. CASE ~(c \in waiting /\ c.op = "append" /\ answer = "blocked")
        <5>1. SureRefusals' = SureRefusals /\ tally'.blocked = tally.blocked
          BY <1>6, <1>7, <1>8, <4>3 DEF Tick
        <5>. QED  BY <1>4, <4>1, <5>1
      <4>. QED  BY <4>2, <4>3
    <3>. QED  BY <3>1, <3>2 DEF Counts
  <2>3. ASSUME NEW r \in DOMAIN reports
        PROVE  /\ OfRun(SureRows', r) = OfRun(SureRows, r)
               /\ OfRun(SureRefusals', r) = OfRun(SureRefusals, r)
    <3>1. r # Run
      BY DEF RunsInd, RunsTypes, Run
    <3>. QED  BY <1>3, <1>5, <1>6, <3>1 DEF OfRun
  <2>. QED  BY <1>1, <2>2, <2>3 DEF RunsInd, Counted, Counts
<1>16. OneRow'
  <2>1. told \subseteq told' /\ (c \in waiting /\ c.op = "append" /\ answer = "ok" => c.inv \in told')
    BY <1>1 DEF Learns
  <2>2. \/ UNCHANGED <<hasRead, saw>>
        \/ saw' = Entered /\ c.op = "read" /\ answer = "ok"
    BY <1>1 DEF Learns, Reads
  <2>3. \A x \in SureRows : x.inv \in Entered
    BY DEF RunsInd, Appends, Known, SureRows, Entered, Rows
  <2>4. \A x : Consented(x) => Consented(x)'
    BY <1>1 DEF Consented
  <2>5. SureRows' = SureRows \/ (SureRows' = SureRows \cup {c} /\ c \in waiting /\ c.op = "append")
    BY <1>5
  <2>6. \A x, y \in SureRows' : x.inv = y.inv => x = y \/ Consented(x)' \/ Consented(y)'
    BY <2>4, <2>5 DEF RunsInd, OneRow
  <2>7. \A x, y \in SureRows' : x.inv = y.inv /\ x.run = y.run => x = y
    BY <2>5 DEF RunsInd, OneRow
  <2>8. \A x \in SureRows' : /\ x.run = Run' => x.inv \in told'
                             /\ x.run # Run' /\ hasRead' => x.inv \in saw'
    BY <1>3, <1>4, <1>5, <2>1, <2>2, <2>3 DEF RunsInd, OneRow
  <2>9. \A x \in waiting' : x.op = "append" =>
          /\ \A y \in SureRows' : y.inv = x.inv => y.run # x.run /\ Consented(x)'
          /\ \A y \in waiting' : y.op = "append" /\ y.inv = x.inv => y = x
    BY <1>1, <2>4, <2>5 DEF RunsInd, OneRow
  <2>. QED  BY <2>6, <2>7, <2>8, <2>9 DEF OneRow
<1>. QED  BY <1>9, <1>10, <1>11, <1>12, <1>13, <1>15, <1>16 DEF RunsInd

LEMMA ServedStep ==
  ASSUME RunsInd, Block \/ DialogEnds \/ Executed \/ \E goesOn \in BOOLEAN : ExecutionFails(goesOn)
  PROVE  RunsInd'
<1>1. /\ lane # <<>> /\ lane' = Tail(lane) /\ wire' = wire
      /\ \/ /\ Inside.op = "append" /\ Answer(Inside, "blocked")
            /\ refused' = refused \cup {Inside} /\ UNCHANGED <<late, tracker>>
         \/ /\ Inside.op # "append" /\ Answer(Inside, "ok")
            /\ UNCHANGED <<late, tracker, refused>>
         \/ /\ Inside.op = "ask" /\ (Answer(Inside, "add") \/ Answer(Inside, "skip"))
            /\ UNCHANGED <<late, tracker, refused>>
         \/ /\ Inside.op = "append" /\ Answer(Inside, "ok")
            /\ tracker' = tracker \cup {Inside} /\ UNCHANGED <<late, refused>>
         \/ /\ Answer(Inside, "error") /\ UNCHANGED <<tracker, refused>>
            /\ late' = late \/ (late' = late \cup {Inside} /\ Inside.op = "append")
  BY DEF Block, DialogEnds, Executed, ExecutionFails, Leave, worldVars
<1>2. (\E S : lane' \in Seq(S)) /\ Inside \in Unserved /\ Unserved' = Unserved \ {Inside} /\ Single'
  BY <1>1, Leaving DEF RunsInd
<1>. QED  BY <1>1, <1>2, AnswerStep

LEMMA GiveUpStep ==
  ASSUME RunsInd, NEW c \in waiting, GiveUp(c)
  PROVE  RunsInd'
<1>1. Answer(c, "error") /\ UNCHANGED <<wire, lane, late, tracker, refused>>
  BY DEF GiveUp, laneVars
<1>2. c \in Unserved /\ Unserved' = Unserved /\ Single' /\ \E S : lane' \in Seq(S)
  BY <1>1 DEF RunsInd, RunsTypes, Awaited, Unserved, LaneCalls, Single
<1>. QED  BY <1>1, <1>2, AnswerStep

-------------------------------------------------------------------------------
(* Theorems *)

LEMMA RunsStep == RunsInd /\ [Next]_vars => RunsInd'
<1>. SUFFICES ASSUME RunsInd, [Next]_vars PROVE RunsInd'
  OBVIOUS
<1>1. CASE Register \/ Install \/ InstallFails \/ Handshake \/ Allow \/ UNCHANGED vars
  <2>1. /\ UNCHANGED <<turn, hasRead, saw, told, tally, reports, wire, lane, waiting, late, tracker,
                       refused, inDoubt, consents>>
        /\ bot' = bot \/ (bot = "greeting" /\ bot' = "working")
    BY <1>1 DEF Register, Install, InstallFails, Handshake, Allow, vars, dashVars, botVars, laneVars, worldVars,
       answerVars
  <2>2. stage' = stage \/ (bot' = bot /\ stage # "running" /\ stage' \in {"install", "launch", "register", "over"})
    BY <1>1 DEF Register, Install, InstallFails, EndConfig, Handshake, Allow, vars, dashVars, botVars
  <2>3. /\ stage' \in {"register", "install", "launch", "running", "over"}
        /\ stage' = "running" <=> bot' # "off"
    BY <2>1, <2>2 DEF RunsInd, RunsTypes
  <2>. QED  BY <2>1, <2>3, QuietStep
<1>2. CASE Launch
  BY <1>2, LaunchStep
<1>3. CASE Timeout \/ HandshakeFails \/ Dies \/ Finishes
  <2>1. NoTally \in Outcome /\ tally \in Outcome
    BY DEF NoTally, Outcome, RunsInd, RunsTypes
  <2>2. CASE Finishes
    BY <2>1, <2>2, ReportStep DEF Finishes, Thinking, Status
  <2>3. CASE Timeout \/ HandshakeFails \/ Dies
    <3>1. Report("timeout", NoTally) \/ Report("failed", NoTally)
      BY <2>3 DEF Timeout, HandshakeFails, Dies
    <3>. QED  BY <2>1, <3>1, ReportStep DEF Status
  <2>. QED  BY <1>3, <2>2, <2>3
<1>4. ASSUME NEW n, NEW choice \in kSubset(n, Tool), Turn(choice) PROVE RunsInd'
  BY <1>4, TurnStep DEF kSubset
<1>. QED
  BY <1>1, <1>2, <1>3, <1>4, SkipStep, GiveUpStep, ArriveStep, ServedStep, WrittenLateStep
     DEF Next, Dashboard, Bot, Runtime

LEMMA RunsInductive == Spec => []RunsInd
BY RunsInit, RunsStep, PTL DEF Spec

\* The counters of a completed run are what the runtime did for it, except for
\* the calls in doubt (AgentContext, Runner._parse_result).
THEOREM RunsTallyIsTrue == Spec => []TallyIsTrue
<1>1. RunsInd => TallyIsTrue
  BY DEF RunsInd, Counted, Counts, TallyIsTrue, OfRun, SureRows, SureRefusals
<1>. QED  BY <1>1, RunsInductive, PTL

\* The rows of an invoice that a run left although there was one: as many as
\* the user said add to.
LEMMA AgainByConsent ==
  ASSUME RunsInd, NEW i
  PROVE  LET E == {c \in SureRows : c.inv = i}
             K == {c \in consents : c.inv = i}
         IN IsFiniteSet(E) /\ IsFiniteSet(K) /\ Cardinality(E) <= 1 + Cardinality(K)
<1>. DEFINE E == {c \in SureRows : c.inv = i}
            K == {c \in consents : c.inv = i}
            C == {c \in E : Consented(c)}
            F == E \ C
<1>1. IsFiniteSet(E) /\ IsFiniteSet(K) /\ IsFiniteSet(C) /\ IsFiniteSet(F)
  <2>1. IsFiniteSet(E) /\ IsFiniteSet(K)
    BY FS_Subset DEF RunsInd, RunsTypes, SureRows
  <2>. HIDE DEF E, K
  <2>. QED  BY <2>1, FS_Subset
<1>2. Cardinality(F) <= 1 /\ Cardinality(F) \in Nat
  <2>1. \A c, d \in F : c = d
    BY DEF RunsInd, OneRow
  <2>. HIDE DEF F
  <2>2. CASE F = {}
    BY <2>2, FS_EmptySet
  <2>3. CASE F # {}
    <3>1. PICK c \in F : F = {c}
      BY <2>1, <2>3
    <3>. QED  BY <3>1, FS_Singleton
  <2>. QED  BY <2>2, <2>3
<1>3. Cardinality(C) <= Cardinality(K) /\ Cardinality(C) \in Nat /\ Cardinality(K) \in Nat
  <2>. DEFINE f == [c \in C |-> CHOOSE k \in K : k.run = c.run]
  <2>1. \A c \in C : \E k \in K : k.run = c.run
    BY DEF Consented
  <2>2. \A c \in C : f[c] \in K /\ f[c].run = c.run
    BY <2>1
  <2>3. \A c, d \in C : c.run = d.run => c = d
    BY DEF RunsInd, OneRow
  <2>4. f \in [C -> K]
    BY <2>2
  <2>. HIDE DEF f, C, K
  <2>5. \A x, y \in C : f[x] = f[y] => x = y
    BY <2>2, <2>3
  <2>6. ~(Cardinality(K) < Cardinality(C))
    BY <1>1, <2>4, <2>5, FS_PigeonHole
  <2>. QED  BY <1>1, <2>6, FS_CardinalityType
<1>4. Cardinality(E) = Cardinality(C) + Cardinality(F)
  <2>1. E = C \cup F /\ C \cap F = {}
    OBVIOUS
  <2>. HIDE DEF E, C, F
  <2>2. Cardinality(C \cup F) = Cardinality(C) + Cardinality(F) - Cardinality(C \cap F)
    BY <1>1, FS_Union
  <2>3. Cardinality(C \cap F) = 0
    BY <2>1, FS_EmptySet
  <2>. QED  BY <1>2, <1>3, <2>1, <2>2, <2>3
<1>5. Cardinality(E) <= 1 + Cardinality(K)
  <2>. HIDE DEF E, K, C, F
  <2>. QED  BY <1>2, <1>3, <1>4
<1>. QED  BY <1>1, <1>5

\* An invoice has one row, one more at most for each time the user said add to
\* it, and one more for each append in doubt.
THEOREM RunsEnterOnce == Spec => []TwiceForAReason
<1>1. ASSUME RunsInd, NEW i \in Invoice
      PROVE  Cardinality(Rows(i)) <= 1 + Cardinality({c \in consents : c.inv = i})
                                       + Cardinality({c \in inDoubt \cap tracker : c.inv = i})
  <2>. DEFINE D == {c \in inDoubt \cap tracker : c.inv = i}
              E == {c \in SureRows : c.inv = i}
              K == {c \in consents : c.inv = i}
  <2>1. IsFiniteSet(D) /\ IsFiniteSet(E) /\ IsFiniteSet(K) /\ Cardinality(E) <= 1 + Cardinality(K)
    <3>1. IsFiniteSet(D)
      BY <1>1, FS_Subset DEF RunsInd, RunsTypes
    <3>. QED  BY <1>1, <3>1, AgainByConsent
  <2>2. Rows(i) = D \cup E /\ D \cap E = {}
    BY DEF Rows, SureRows
  <2>. HIDE DEF D, E, K
  <2>3. Cardinality(D \cup E) = Cardinality(D) + Cardinality(E) - Cardinality(D \cap E)
    BY <2>1, FS_Union
  <2>4. Cardinality(D) \in Nat /\ Cardinality(E) \in Nat /\ Cardinality(K) \in Nat
    BY <2>1, FS_CardinalityType
  <2>5. Cardinality(D \cap E) = 0
    BY <2>2, FS_EmptySet
  <2>6. Cardinality(Rows(i)) <= 1 + Cardinality(K) + Cardinality(D)
    BY <2>1, <2>2, <2>3, <2>4, <2>5
  <2>. QED  BY <2>6 DEF D, K
<1>2. RunsInd => TwiceForAReason
  BY <1>1 DEF TwiceForAReason
<1>. QED  BY <1>2, RunsInductive, PTL

\* The reports of the dashboard and the rows in the tracker can be told apart
\* only by the calls in doubt, and an invoice is there twice only by them or by
\* the user's word, for all runs of all configurations.
THEOREM RunsAreAccounted == Spec => []RunsAccounted
<1>1. RunsInd => RunsTypeOK
  <2>. SUFFICES ASSUME RunsInd PROVE RunsTypeOK
    OBVIOUS
  <2>1. wire \subseteq Call /\ late \subseteq Call /\ tracker \subseteq Call /\ LaneCalls \subseteq Call
    BY DEF RunsInd, RunsTypes, Known, Unserved
  <2>2. \A e \in ToSet(lane) : e.call \in Call
    BY <2>1 DEF LaneCalls
  <2>3. \A r \in ToSet(reports) : r.status \in Status
    <3>. DEFINE R == [status : Status, tally : Outcome]
    <3>1. reports \in Seq(R) /\ \A e \in R : e.status \in Status
      BY DEF RunsInd, RunsTypes
    <3>. HIDE DEF R
    <3>2. \A k \in DOMAIN reports : reports[k].status \in Status
      BY <3>1
    <3>3. ASSUME NEW r \in ToSet(reports) PROVE r.status \in Status
      <4>1. PICK k \in DOMAIN reports : r = reports[k]
        BY DEF ToSet
      <4>. QED  BY <3>2, <4>1
    <3>. QED  BY <3>3
  <2>. QED  BY <2>1, <2>2, <2>3 DEF RunsInd, RunsTypes, RunsTypeOK
<1>. QED  BY <1>1, RunsInductive, RunsTallyIsTrue, RunsEnterOnce, PTL DEF RunsAccounted

-----------------------------------------------------------------------------
(***************************************************************************)
(* The assistant, for all clients, checkers, alerts and any bounds.  The    *)
(* gate lets one request in, so nobody but it touches the talk from its     *)
(* first step to its last: what it took in hand before it waited is what    *)
(* there is when it goes on.                                                *)
(***************************************************************************)

\* What can be said, and a talk of it.
Word == {"question", "answer"} \X Nat
Talk == Seq([says : SUBSET Word])
Point == {"idle", "made", "flush", "summarise", "run", "index", "lost"}
Request == [at : Point, msg : Nat, snap : Talk, seen : Talk, tool : BOOLEAN, again : BOOLEAN]

Typed ==
  /\ up \in BOOLEAN
  /\ req \in [Client -> Request]
  /\ history \in Talk /\ disk \in Talk /\ torn \in BOOLEAN
  /\ answered \in [Message -> {"nothing", "busy", "ok", "error", "timeout", "gone"}]
  /\ acted \in [Message -> Nat]
  /\ next \in 1 .. (MaxMessage + 1)

\* A request that is under way holds the gate, so there is one at most.
Gated ==
  \A c \in Client : req[c].at # "idle" =>
    up /\ holder = c /\ req[c].msg \in Message /\ req[c].msg < next

\* The messages to come are nobody's.
Numbered == \A c \in Client : req[c].msg < next

\* The question of m is the last thing said.
Asked(h, m) == h # <<>> /\ h[Len(h)] = Entry({Q(m)})

\* What a request has in its hands is the talk as it is.
Course ==
  \A c \in Client :
    LET r == req[c]
    IN /\ r.at \notin {"idle", "lost"} => answered[r.msg] = "nothing"
       /\ r.at = "made" => c \in StreamClient
       /\ r.at \in {"flush", "summarise"} => r.snap = history /\ Asked(history, r.msg)
       /\ r.at = "run" => r.seen = history /\ Asked(history, r.msg)
       /\ r.at = "index" => Exchange(r.msg) \subseteq Says(history)

\* A chat is run once: its tools act once.
OneRun ==
  \A c \in ChatClient : req[c].at # "idle" =>
    acted[req[c].msg] <= IF req[c].tool THEN 1 ELSE 0

\* A message to come has left no trace.
Fresh ==
  \A m \in Message : m >= next =>
    answered[m] = "nothing" /\ acted[m] = 0 /\ Q(m) \notin Says(history) \cup Says(disk)

\* The session in memory is the one on disk, unless a save broke off.
Agrees ==
  /\ up /\ ~torn => disk = history
  /\ ~up => history = <<>>

\* The talk as it goes on, or will go on after the next start.
Talked == IF up THEN history ELSE disk

\* Exchanges that were answered are in the talk, but for those a torn file had
\* lost; refused questions are not.
Kept ==
  \A m \in Message :
    /\ answered[m] = "ok" /\ m \notin forgot /\ (up \/ ~torn) => Exchange(m) \subseteq Says(Talked)
    /\ answered[m] = "busy" => acted[m] = 0 /\ Q(m) \notin Says(history) \cup Says(disk)

ChatInd == Typed /\ Numbered /\ Gated /\ Course /\ OneRun /\ Fresh /\ Agrees /\ Kept

\* What the index does not show is marked as changed, or its pass failed.
Pending ==
  /\ dirty \in BOOLEAN /\ blind \in BOOLEAN
  /\ \A c \in Client : req[c].at = "index" => dirty
  /\ up /\ ~dirty /\ ~blind => indexed = facts

JarvisInd == ChatInd /\ Pending

-----------------------------------------------------------------------------

\* What an appended entry adds to a talk.
LEMMA SaysAppend ==
  ASSUME NEW h \in Talk, NEW S \in SUBSET Word
  PROVE  /\ Append(h, Entry(S)) \in Talk
         /\ Says(Append(h, Entry(S))) = Says(h) \cup S
<1>. DEFINE g == Append(h, Entry(S))
<1>1. Entry(S) \in [says : SUBSET Word] BY DEF Entry
<1>2. g \in Talk BY <1>1 DEF Talk
<1>3. /\ Len(g) = Len(h) + 1 /\ Len(h) \in Nat
      /\ \A i \in 1 .. Len(h) : g[i] = h[i]
      /\ g[Len(h) + 1] = Entry(S)
  BY <1>1 DEF Talk
<1>4. 1 .. Len(g) = 1 .. Len(h) \cup {Len(h) + 1} BY <1>3
<1>5. {g[i].says : i \in 1 .. Len(g)} = {h[i].says : i \in 1 .. Len(h)} \cup {S}
  <2>1. g[Len(h) + 1].says = S BY <1>3 DEF Entry
  <2>2. \A i \in 1 .. Len(h) : g[i].says = h[i].says BY <1>3
  <2>. HIDE DEF g
  <2>. QED BY <1>4, <2>1, <2>2
<1>6. Says(g) = UNION {g[i].says : i \in 1 .. Len(g)} BY DEF Says
<1>7. Says(h) = UNION {h[i].says : i \in 1 .. Len(h)} BY DEF Says
<1>. HIDE DEF g
<1>8. Says(g) = Says(h) \cup S BY <1>5, <1>6, <1>7
<1>. QED BY <1>2, <1>8 DEF g

LEMMA EntryOfTalk ==
  ASSUME NEW h \in Talk, NEW i \in 1 .. Len(h) PROVE h[i] \in [says : SUBSET Word]
<1>. DEFINE D == [says : SUBSET Word]
<1>1. h \in Seq(D) BY DEF Talk
<1>. HIDE DEF D
<1>2. h[i] \in D BY <1>1, ElementOfSeq
<1>. QED BY <1>2 DEF D

LEMMA SaysIsTyped == ASSUME NEW h \in Talk PROVE Says(h) \subseteq Word
<1>1. \A i \in 1 .. Len(h) : h[i].says \subseteq Word BY EntryOfTalk
<1>. QED BY <1>1 DEF Says

LEMMA PartOfTalk ==
  ASSUME NEW h \in Talk, NEW i \in Nat \ {0}, NEW j \in Nat, j <= Len(h), i <= j + 1
  PROVE  /\ SubSeq(h, i, j) \in Talk /\ Len(SubSeq(h, i, j)) = j - i + 1
         /\ \A x \in 1 .. (j - i + 1) : SubSeq(h, i, j)[x] = h[i + x - 1]
<1>. DEFINE D == [says : SUBSET Word]
<1>1. \A x \in i .. j : x \in 1 .. Len(h) OBVIOUS
<1>2. \A x \in i .. j : h[x] \in D BY <1>1, EntryOfTalk
<1>. HIDE DEF D
<1>3. /\ SubSeq(h, i, j) \in Seq(D)
      /\ Len(SubSeq(h, i, j)) = IF i <= j THEN j - i + 1 ELSE 0
      /\ \A x \in 1 .. (j - i + 1) : SubSeq(h, i, j)[x] = h[i + x - 1]
  BY <1>2, SubSeqProperties
<1>4. (IF i <= j THEN j - i + 1 ELSE 0) = j - i + 1 OBVIOUS
<1>. QED BY <1>3, <1>4 DEF D, Talk

\* Compaction loses nothing of what was said and leaves the question last.
LEMMA SaysCompacted ==
  ASSUME NEW h \in Talk, NEW m, Asked(h, m)
  PROVE  /\ Compacted(h) \in Talk /\ Says(Compacted(h)) = Says(h)
         /\ Asked(Compacted(h), m)
<1>. DEFINE n == Len(h)
            k == Half(h)
            old == SubSeq(h, 1, k)
            new == SubSeq(h, k + 1, n)
            first == <<Entry(Says(old))>>
            g == Compacted(h)
<1>1. n \in Nat \ {0} BY DEF Asked, Talk
<1>2. k \in 0 .. (n - 1) BY <1>1 DEF Half
<1>3. /\ old \in Talk /\ Len(old) = k /\ \A i \in 1 .. k : old[i] = h[i]
  <2>1. k \in Nat /\ k <= Len(h) /\ 1 <= k + 1 /\ 1 \in Nat \ {0} BY <1>1, <1>2
  <2>2. k - 1 + 1 = k /\ \A i \in 1 .. k : 1 + i - 1 = i BY <1>1, <1>2
  <2>. HIDE DEF k
  <2>3. /\ SubSeq(h, 1, k) \in Talk /\ Len(SubSeq(h, 1, k)) = k - 1 + 1
        /\ \A i \in 1 .. (k - 1 + 1) : SubSeq(h, 1, k)[i] = h[1 + i - 1]
    BY ONLY <2>1, PartOfTalk
  <2>. QED BY <2>2, <2>3
<1>4. /\ new \in Talk /\ Len(new) = n - k /\ \A i \in 1 .. (n - k) : new[i] = h[k + i]
  <2>. DEFINE j == k + 1
  <2>1. /\ j \in Nat \ {0} /\ n \in Nat /\ n <= Len(h) /\ j <= n + 1 /\ n - j + 1 = n - k
        /\ \A i \in 1 .. (n - k) : j + i - 1 = k + i
    BY <1>1, <1>2
  <2>. HIDE DEF k, n, j
  <2>2. /\ SubSeq(h, j, n) \in Talk /\ Len(SubSeq(h, j, n)) = n - j + 1
        /\ \A i \in 1 .. (n - j + 1) : SubSeq(h, j, n)[i] = h[j + i - 1]
    BY <2>1, PartOfTalk
  <2>3. \A i \in 1 .. (n - k) : SubSeq(h, j, n)[i] = h[k + i] BY <2>1, <2>2
  <2>. QED BY <2>1, <2>2, <2>3 DEF j
<1>5. Entry(Says(old)) \in [says : SUBSET Word] BY <1>3, SaysIsTyped DEF Entry
<1>6. first \in Talk /\ Len(first) = 1 /\ first[1] = Entry(Says(old)) BY <1>5 DEF Talk
<1>7. g = first \o new BY DEF Compacted
<1>8. /\ g \in Talk /\ Len(g) = 1 + (n - k)
      /\ g[1] = Entry(Says(old))
      /\ \A i \in 1 .. (n - k) : g[i + 1] = h[k + i]
  <2>. HIDE DEF first, new, old, k, n, g
  <2>. USE DEF Talk
  <2>1. g \in Talk /\ Len(g) = Len(first) + Len(new) BY <1>4, <1>6, <1>7, ConcatProperties
  <2>2. \A i \in 1 .. Len(first) + Len(new) :
          g[i] = IF i <= Len(first) THEN first[i] ELSE new[i - Len(first)]
    BY <1>4, <1>6, <1>7, ConcatProperties
  <2>3. g[1] = first[1] BY <1>1, <1>2, <1>4, <1>6, <2>2
  <2>4. ASSUME NEW i \in 1 .. (n - k) PROVE g[i + 1] = new[i]
    <3>1. i + 1 \in 1 .. Len(first) + Len(new) /\ ~(i + 1 <= Len(first)) /\ i + 1 - Len(first) = i
      BY <1>1, <1>2, <1>4, <1>6
    <3>. QED BY <2>2, <3>1
  <2>. QED BY <1>4, <1>6, <2>1, <2>3, <2>4
<1>9. g[Len(g)] = h[n]
  <2>1. n - k \in 1 .. (n - k) /\ Len(g) = (n - k) + 1 /\ k + (n - k) = n BY <1>1, <1>2, <1>8
  <2>. HIDE DEF k, n, g
  <2>. QED BY <1>8, <2>1
<1>10. g # <<>> BY <1>1, <1>2, <1>8
<1>11. Says(g) = Says(h)
  <2>. HIDE DEF k, n, g, old
  <2>1. \A w : w \in Says(g) <=> \E i \in 1 .. Len(g) : w \in g[i].says BY DEF Says
  <2>2. \A w : w \in Says(h) <=> \E i \in 1 .. n : w \in h[i].says BY DEF Says, n
  <2>3. \A w : w \in Says(old) <=> \E i \in 1 .. k : w \in h[i].says BY <1>3 DEF Says
  <2>4. g[1].says = Says(old) BY <1>8 DEF Entry
  <2>5. ASSUME NEW w \in Says(g) PROVE w \in Says(h)
    <3>1. PICK i \in 1 .. Len(g) : w \in g[i].says BY <2>1
    <3>2. CASE i = 1 BY <1>1, <1>2, <2>2, <2>3, <2>4, <3>1, <3>2
    <3>3. CASE i # 1
      <4>1. i - 1 \in 1 .. (n - k) /\ (i - 1) + 1 = i /\ k + (i - 1) \in 1 .. n
        BY <1>1, <1>2, <1>8, <3>3
      <4>2. g[i] = h[k + (i - 1)] BY <1>8, <4>1
      <4>. QED BY <2>2, <3>1, <4>1, <4>2
    <3>. QED BY <3>2, <3>3
  <2>6. ASSUME NEW w \in Says(h) PROVE w \in Says(g)
    <3>1. PICK i \in 1 .. n : w \in h[i].says BY <2>2
    <3>2. CASE i <= k
      <4>1. 1 \in 1 .. Len(g) BY <1>1, <1>2, <1>8
      <4>2. i \in 1 .. k BY <1>1, <1>2, <3>2
      <4>. QED BY <2>1, <2>3, <2>4, <3>1, <4>1, <4>2
    <3>3. CASE ~(i <= k)
      <4>1. i - k \in 1 .. (n - k) /\ k + (i - k) = i /\ (i - k) + 1 \in 1 .. Len(g)
        BY <1>1, <1>2, <1>8, <3>3
      <4>2. g[(i - k) + 1] = h[i] BY <1>8, <4>1
      <4>. QED BY <2>1, <3>1, <4>1, <4>2
    <3>. QED BY <3>2, <3>3
  <2>. QED BY <2>5, <2>6
<1>. HIDE DEF g
<1>. QED BY <1>8, <1>9, <1>10, <1>11 DEF Asked, g

-----------------------------------------------------------------------------

LEMMA IdleIsRequest == Idle \in Request
<1>1. <<>> \in Talk BY DEF Talk
<1>. QED BY <1>1 DEF Idle, Request, Point

LEMMA JarvisInitially == ASSUME JarvisInit PROVE JarvisInd
<1>1. <<>> \in Talk /\ Says(<<>>) = {} BY DEF Talk, Says
<1>2. Typed
  <2>1. req \in [Client -> Request] BY IdleIsRequest DEF JarvisInit
  <2>2. next \in 1 .. (MaxMessage + 1) BY JarvisAssumption DEF JarvisInit
  <2>. QED BY <1>1, <2>1, <2>2 DEF JarvisInit, Typed
<1>3. Numbered /\ Gated /\ Course /\ OneRun BY DEF JarvisInit, Numbered, Gated, Course, OneRun, Idle, Client
<1>4. Fresh /\ Agrees /\ Kept BY <1>1 DEF JarvisInit, Fresh, Agrees, Kept
<1>5. Pending BY DEF JarvisInit, Pending, Idle
<1>. QED BY <1>2, <1>3, <1>4, <1>5 DEF JarvisInd, ChatInd

\* Nothing the invariant speaks of changes.
LEMMA ChatIsQuiet ==
  ASSUME ChatInd, up' = up, UNCHANGED chat PROVE ChatInd'
BY DEF ChatInd, Typed, Numbered, Gated, Course, OneRun, Fresh, Agrees, Kept, Talked, Asked, chat, session

\* What a save that breaks off leaves is part of the talk.
LEMMA PartsOfTalk ==
  ASSUME NEW h \in Talk, NEW p \in Parts(h) PROVE p \in Talk /\ Says(p) \subseteq Says(h)
<1>1. PICK n \in 0 .. Len(h) : p = SubSeq(h, 1, n) BY DEF Parts
<1>2. Len(h) \in Nat BY DEF Talk
<1>3. /\ p \in Talk /\ Len(p) = n - 1 + 1
      /\ \A x \in 1 .. (n - 1 + 1) : p[x] = h[1 + x - 1]
  <2>1. 1 \in Nat \ {0} /\ n \in Nat /\ n <= Len(h) /\ 1 <= n + 1 BY <1>2
  <2>. QED BY ONLY <1>1, <2>1, h \in Talk, PartOfTalk
<1>4. \A x \in 1 .. Len(p) : p[x] = h[x] /\ x \in 1 .. Len(h)
  <2>1. n - 1 + 1 = n /\ \A x \in 1 .. n : 1 + x - 1 = x /\ x \in 1 .. Len(h) BY <1>2
  <2>. QED BY <1>3, <2>1
<1>5. Says(p) \subseteq Says(h) BY <1>4 DEF Says
<1>. QED BY <1>3, <1>5

\* The talk stays, or grows by an answer or is told in short: no question
\* is added and nothing said is lost, whatever the file has of it.
Continues ==
  /\ history' \in Talk /\ disk' \in Talk /\ torn' \in BOOLEAN /\ forgot' = forgot
  /\ ~torn' => disk' = history'
  /\ Says(history) \subseteq Says(history')
  /\ \A x \in Message :
       Q(x) \in Says(history') \cup Says(disk') => Q(x) \in Says(history) \cup Says(disk)

LEMMA TalkStays == ASSUME ChatInd, up, UNCHANGED session PROVE Continues
BY DEF ChatInd, Agrees, Typed, Continues, session

\* The talk becomes h, and the file as much of it as the save got through.
LEMMA TalkSaved ==
  ASSUME ChatInd, NEW h \in Talk, Save(h) \/ Tears(h), Says(history) \subseteq Says(h),
         \A x \in Message : Q(x) \in Says(h) => Q(x) \in Says(history)
  PROVE  Continues /\ history' = h
<1>1. /\ history' = h /\ forgot' = forgot
      /\ torn' = (disk' # h)
      /\ disk' \in Parts(h) \cup {h, disk}
  BY DEF Save, Tears
<1>2. \A p \in Parts(h) : p \in Talk /\ Says(p) \subseteq Says(h) BY PartsOfTalk
<1>3. disk \in Talk BY DEF ChatInd, Typed
<1>. QED BY <1>1, <1>2, <1>3 DEF Continues

\* The request of c ends.
LEMMA Replies ==
  ASSUME ChatInd, NEW c \in Client, req[c].at # "idle", NEW what,
         Reply(c, what), Continues, UNCHANGED <<up, acted, next>>,
         \/ what \in {"error", "timeout", "gone"}
         \/ what = "ok" /\ Exchange(req[c].msg) \subseteq Says(history')
  PROVE  ChatInd'
<1>. USE DEF ChatInd
<1>. DEFINE m == req[c].msg
<1>1. /\ holder = c /\ up /\ m \in Message /\ m < next
      /\ \A d \in Client \ {c} : req[d].at = "idle"
  BY DEF Gated
<1>2. /\ req' = [req EXCEPT ![c] = Idle] /\ answered' = [answered EXCEPT ![m] = what]
      /\ holder' = Nobody
  BY DEF Reply, Answers
<1>3. \A d \in Client : req'[d].at = "idle"
  BY <1>1, <1>2 DEF Typed, Idle
<1>4. Typed'
  <2>1. Idle \in Request BY DEF Idle, Request, Point, Talk
  <2>. QED BY <1>1, <1>2, <2>1 DEF Typed, Continues
<1>5. Gated' /\ Course' /\ OneRun'
  BY <1>3 DEF Gated, Course, OneRun, Client
<1>6. Fresh' BY <1>1, <1>2 DEF Fresh, Typed, Message, Continues
<1>7. Agrees' BY <1>1 DEF Agrees, Continues
<1>8. Kept'
  <2>1. what = "ok" => Exchange(m) \subseteq Says(history') OBVIOUS
  <2>2. what # "busy" OBVIOUS
  <2>3. \A x \in Message : answered'[x] = IF x = m THEN what ELSE answered[x]
    BY <1>1, <1>2 DEF Typed
  <2>. QED BY <1>1, <2>1, <2>2, <2>3 DEF Kept, Talked, Continues
<1>9. Numbered' BY <1>1, <1>2, JarvisAssumption DEF Numbered, Typed, Idle, Message
<1>. QED BY <1>4, <1>5, <1>6, <1>7, <1>8, <1>9

\* The request of c goes on as r.
LEMMA Proceeds ==
  ASSUME ChatInd, NEW c \in Client, req[c].at \notin {"idle", "lost"}, NEW r \in Request,
         r.msg = req[c].msg, r.at \notin {"idle", "made", "lost"}, req' = [req EXCEPT ![c] = r],
         Continues, UNCHANGED <<up, holder, next, answered>>,
         acted' \in [Message -> Nat],
         \A x \in Message : x # r.msg => acted'[x] = acted[x],
         r.at \in {"flush", "summarise"} => r.snap = history' /\ Asked(history', r.msg),
         r.at = "run" => r.seen = history' /\ Asked(history', r.msg),
         r.at = "index" => Exchange(r.msg) \subseteq Says(history'),
         c \in ChatClient => acted'[r.msg] <= IF r.tool THEN 1 ELSE 0
  PROVE  ChatInd'
<1>. USE DEF ChatInd
<1>1. /\ holder = c /\ up /\ r.msg \in Message /\ r.msg < next
      /\ answered[r.msg] = "nothing"
      /\ \A d \in Client \ {c} : req[d].at = "idle"
  BY DEF Gated, Course
<1>2. req'[c] = r /\ \A d \in Client \ {c} : req'[d].at = "idle"
  BY <1>1 DEF Typed
<1>3. Typed' BY DEF Typed, Continues
<1>4. Gated' BY <1>1, <1>2 DEF Gated
<1>5. Course'
  <2>1. \A d \in Client \ {c} : req'[d].at = "idle" BY <1>2
  <2>. QED BY <1>1, <1>2, <2>1 DEF Course
<1>6. OneRun' BY <1>2 DEF OneRun, Client
<1>7. Fresh' BY <1>1 DEF Fresh, Typed, Message, Continues
<1>8. Agrees' BY <1>1 DEF Agrees, Continues
<1>9. Kept' BY <1>1 DEF Kept, Talked, Continues
<1>10. Numbered' BY <1>1, <1>2 DEF Numbered, Typed
<1>. QED BY <1>3, <1>4, <1>5, <1>6, <1>7, <1>8, <1>9, <1>10

\* A message meets a held gate.
LEMMA IsRefused ==
  ASSUME ChatInd, next <= MaxMessage, next' = next + 1, Refused(next), UNCHANGED <<up, acted>>
  PROVE  ChatInd'
<1>. USE DEF ChatInd
<1>1. next \in Message /\ next \in Nat BY JarvisAssumption DEF Typed, Message
<1>2. UNCHANGED <<req, holder, history, disk, torn, forgot>> BY DEF Refused, session
<1>3. \A x \in Message : answered'[x] = IF x = next THEN "busy" ELSE answered[x]
  BY <1>1 DEF Typed, Refused
<1>4. Typed' BY <1>1, <1>2, JarvisAssumption DEF Typed, Refused
<1>5. Gated' BY <1>1, <1>2 DEF Gated, Message
<1>6. Course'
  <2>1. \A d \in Client : req[d].at # "idle" => req[d].msg # next /\ req[d].msg \in Message
    BY <1>1 DEF Gated, Message
  <2>. QED BY <1>2, <1>3, <2>1 DEF Course, Asked
<1>7. OneRun' /\ Agrees' BY <1>2 DEF OneRun, Agrees
<1>8. Fresh' BY <1>1, <1>2, <1>3 DEF Fresh, Message
<1>9. Kept' BY <1>1, <1>2, <1>3 DEF Kept, Talked, Fresh, Message
<1>10. Numbered' BY <1>1, <1>2 DEF Numbered, Typed, Request
<1>. QED BY <1>4, <1>5, <1>6, <1>7, <1>8, <1>9, <1>10

\* append_user: m is asked by c, with nobody else in the gate.
LEMMA Begins ==
  ASSUME ChatInd, NEW c \in Client, NEW m \in Message, up, up' = up,
         \A d \in Client \ {c} : req[d].at = "idle",
         m < next', next <= next', next' \in 1 .. (MaxMessage + 1),
         answered[m] = "nothing", c \in ChatClient => acted[m] = 0,
         Begin(c, m), UNCHANGED acted
  PROVE  ChatInd'
<1>. USE DEF ChatInd
<1>. DEFINE h == Append(history, Entry({Q(m)}))
<1>1. history \in Talk /\ disk \in Talk BY DEF Typed
<1>2. /\ h \in Talk /\ Says(h) = Says(history) \cup {Q(m)}
      /\ Asked(h, m)
  <2>1. {Q(m)} \in SUBSET Word BY DEF Q, Word, Message
  <2>2. h \in Talk /\ Says(h) = Says(history) \cup {Q(m)} BY <1>1, <2>1, SaysAppend
  <2>3. Asked(h, m) BY <1>1 DEF Asked, Talk
  <2>. QED BY <2>2, <2>3
<1>3. \/ /\ Save(h) /\ holder' = c /\ UNCHANGED answered
         /\ \E r \in {[Idle EXCEPT !.at = "flush", !.msg = m, !.snap = h],
                      [Idle EXCEPT !.at = "run", !.msg = m, !.seen = h]} :
               req' = [req EXCEPT ![c] = r]
      \/ Tears(h) /\ Answers(c, m, "error")
  BY DEF Begin
<1>. HIDE DEF h
<1>4. /\ history' = h /\ forgot' = forgot /\ torn' \in BOOLEAN
      /\ ~torn' => disk' = h
      /\ disk' \in Talk /\ Says(disk') \subseteq Says(h) \cup Says(disk)
  <2>1. history' = h /\ forgot' = forgot /\ torn' = (disk' # h) /\ disk' \in Parts(h) \cup {h, disk}
    BY <1>3 DEF Save, Tears
  <2>2. \A p \in Parts(h) : p \in Talk /\ Says(p) \subseteq Says(h) BY <1>2, PartsOfTalk
  <2>. QED BY <1>1, <1>2, <2>1, <2>2
<1>5. \A x \in Message : x # m => Q(x) \notin {Q(m)} BY DEF Q
<1>6. /\ next' \in 1 .. (MaxMessage + 1) /\ m \in Nat /\ Idle \in Request
      /\ \A x \in Message : x >= next' => x >= next /\ x # m
  BY IdleIsRequest, JarvisAssumption DEF Message, Typed
<1>7. Agrees' BY <1>4 DEF Agrees
<1>8. CASE /\ Save(h) /\ holder' = c /\ UNCHANGED answered
           /\ \E r \in {[Idle EXCEPT !.at = "flush", !.msg = m, !.snap = h],
                        [Idle EXCEPT !.at = "run", !.msg = m, !.seen = h]} :
                 req' = [req EXCEPT ![c] = r]
  <2>1. PICK r \in {[Idle EXCEPT !.at = "flush", !.msg = m, !.snap = h],
                    [Idle EXCEPT !.at = "run", !.msg = m, !.seen = h]} :
          req' = [req EXCEPT ![c] = r]
    BY <1>8
  <2>2. /\ r \in Request /\ r.msg = m /\ r.tool = FALSE
        /\ \/ r.at = "flush" /\ r.snap = h
           \/ r.at = "run" /\ r.seen = h
    <3>1. CASE r = [Idle EXCEPT !.at = "flush", !.msg = m, !.snap = h]
      BY <1>2, <1>6, <3>1 DEF Idle, Request, Point
    <3>2. CASE r = [Idle EXCEPT !.at = "run", !.msg = m, !.seen = h]
      BY <1>2, <1>6, <3>2 DEF Idle, Request, Point
    <3>. QED BY <2>1, <3>1, <3>2
  <2>3. req'[c] = r /\ \A d \in Client \ {c} : req'[d] = req[d]
    BY <2>1 DEF Typed
  <2>4. Typed' BY <1>2, <1>4, <1>8, <2>1, <2>2 DEF Typed
  <2>5. Gated' BY <1>8, <2>2, <2>3 DEF Gated
  <2>6. Course' BY <1>2, <1>4, <1>8, <2>2, <2>3 DEF Course
  <2>7. OneRun' BY <2>2, <2>3 DEF OneRun, Client
  <2>8. Fresh' BY <1>2, <1>4, <1>5, <1>6, <1>8 DEF Fresh
  <2>9. Kept' BY <1>2, <1>4, <1>5, <1>8 DEF Kept, Talked
  <2>10. Numbered'
    <3>1. \A d \in Client : req[d].msg \in Nat BY DEF Typed, Request
    <3>. QED BY <2>2, <2>3, <3>1 DEF Numbered, Typed
  <2>. QED BY <1>7, <2>4, <2>5, <2>6, <2>7, <2>8, <2>9, <2>10
<1>9. CASE Tears(h) /\ Answers(c, m, "error")
  <2>1. /\ req' = [req EXCEPT ![c] = Idle] /\ holder' = Nobody
        /\ answered' = [answered EXCEPT ![m] = "error"]
    BY <1>9 DEF Answers
  <2>2. /\ req'[c] = Idle /\ \A d \in Client \ {c} : req'[d] = req[d]
        /\ \A d \in Client : req'[d].at = "idle"
    BY <2>1 DEF Typed, Idle
  <2>3. \A x \in Message : answered'[x] = IF x = m THEN "error" ELSE answered[x]
    BY <2>1 DEF Typed
  <2>4. Typed' BY <1>2, <1>4, <1>6, <2>1 DEF Typed
  <2>5. Gated' /\ Course' /\ OneRun' BY <2>2 DEF Gated, Course, OneRun, Client
  <2>6. Fresh' BY <1>2, <1>4, <1>5, <1>6, <2>3 DEF Fresh
  <2>7. Kept' BY <1>2, <1>4, <1>5, <2>3 DEF Kept, Talked
  <2>8. Numbered'
    <3>1. \A d \in Client : req[d].msg \in Nat BY DEF Typed, Request
    <3>. QED BY <2>2, <3>1 DEF Numbered, Typed, Idle
  <2>. QED BY <1>7, <2>4, <2>5, <2>6, <2>7, <2>8
<1>. QED BY <1>3, <1>8, <1>9

\* No request comes to the index by being begun.
LEMMA BeginsQuietly ==
  ASSUME ChatInd, NEW c \in Client, NEW m, Begin(c, m), \A d \in Client \ {c} : req[d].at = "idle"
  PROVE  \A d \in Client : req'[d].at # "index"
<1>. DEFINE h == Append(history, Entry({Q(m)}))
<1>1. PICK r : r.at # "index" /\ req' = [req EXCEPT ![c] = r]
  <2>1. \/ req' = [req EXCEPT ![c] = [Idle EXCEPT !.at = "flush", !.msg = m, !.snap = h]]
        \/ req' = [req EXCEPT ![c] = [Idle EXCEPT !.at = "run", !.msg = m, !.seen = h]]
        \/ req' = [req EXCEPT ![c] = Idle]
    BY DEF Begin, Answers
  <2>. HIDE DEF h
  <2>. QED BY <2>1 DEF Idle
<1>. QED BY <1>1 DEF ChatInd, Typed

LEMMA PostsChat == ASSUME JarvisInd, NEW c \in Client, PostChat(c) PROVE JarvisInd'
<1>. USE DEF JarvisInd
<1>1. CASE Free(c)
  <2>1. next \in Message /\ next' = next + 1 /\ next' \in 1 .. (MaxMessage + 1)
    BY JarvisAssumption DEF PostChat, ChatInd, Typed, Message
  <2>2. \A d \in Client : req[d].at = "idle"
    BY <1>1, JarvisAssumption DEF ChatInd, Gated, Free, Nobody, Client
  <2>3. answered[next] = "nothing" /\ acted[next] = 0 BY <2>1 DEF ChatInd, Fresh, Message
  <2>4. /\ up /\ up' = up /\ Begin(c, next) /\ UNCHANGED <<acted, memory>>
    BY <1>1 DEF PostChat
  <2>5. next < next' /\ next <= next' BY <2>1 DEF Message
  <2>6. ChatInd' BY <2>1, <2>2, <2>3, <2>4, <2>5, Begins
  <2>7. Pending'
    <3>1. \A d \in Client : req'[d].at # "index"
      BY <2>2, <2>4, BeginsQuietly
    <3>. QED BY <2>4, <3>1 DEF Pending, memory
  <2>. QED BY <2>6, <2>7
<1>2. CASE ~Free(c)
  <2>1. /\ next <= MaxMessage /\ next' = next + 1 /\ Refused(next)
        /\ UNCHANGED <<up, acted, memory>> /\ req' = req
    BY <1>2 DEF PostChat, Refused
  <2>2. ChatInd' BY <2>1, IsRefused
  <2>3. Pending' BY <2>1 DEF Pending, memory
  <2>. QED BY <2>2, <2>3
<1>. QED BY <1>1, <1>2

LEMMA PostsStream == ASSUME JarvisInd, NEW c \in Client, PostStream(c) PROVE JarvisInd'
<1>. USE DEF JarvisInd
<1>1. CASE Free(c)
  <2>1. /\ next \in Message /\ next' = next + 1 /\ next' \in 1 .. (MaxMessage + 1)
        /\ c \in StreamClient
    BY JarvisAssumption DEF PostStream, ChatInd, Typed, Message
  <2>2. \A d \in Client : req[d].at = "idle"
    BY <1>1, JarvisAssumption DEF ChatInd, Gated, Free, Nobody, Client
  <2>3. answered[next] = "nothing" BY <2>1 DEF ChatInd, Fresh, Message
  <2>. DEFINE r == [Idle EXCEPT !.at = "made", !.msg = next]
  <2>4. /\ up /\ up' = up /\ holder' = c /\ req' = [req EXCEPT ![c] = r]
        /\ UNCHANGED <<history, disk, torn, forgot, answered, acted, memory>>
    BY <1>1 DEF PostStream, session
  <2>5. r \in Request /\ r.at = "made" /\ r.msg = next
    <3>1. next \in Nat /\ Idle \in Request BY <2>1, IdleIsRequest, JarvisAssumption DEF Message
    <3>. QED BY <3>1 DEF Request, Idle, Point
  <2>. HIDE DEF r
  <2>6. req'[c] = r /\ \A d \in Client \ {c} : req'[d].at = "idle"
    BY <2>2, <2>4 DEF ChatInd, Typed
  <2>7. Typed' BY <2>1, <2>4, <2>5 DEF ChatInd, Typed
  <2>8. Gated' BY <2>1, <2>4, <2>5, <2>6 DEF Gated, Message
  <2>9. Course' BY <2>1, <2>3, <2>4, <2>5, <2>6 DEF Course
  <2>10. OneRun' BY <2>1, <2>6, JarvisAssumption DEF OneRun, Client
  <2>11. Fresh' BY <2>1, <2>4 DEF ChatInd, Fresh, Message
  <2>12. Agrees' /\ Kept' BY <2>4 DEF ChatInd, Agrees, Kept, Talked
  <2>13. Pending' BY <2>4, <2>5, <2>6 DEF Pending, memory
  <2>14. Numbered'
    <3>1. \A d \in Client \ {c} : req'[d] = req[d] /\ req[d].msg \in Nat
      BY <2>4 DEF ChatInd, Typed, Request
    <3>. QED BY <2>1, <2>5, <2>6, <3>1 DEF ChatInd, Numbered, Message
  <2>. QED BY <2>7, <2>8, <2>9, <2>10, <2>11, <2>12, <2>13, <2>14 DEF ChatInd
<1>2. CASE ~Free(c)
  <2>1. /\ next <= MaxMessage /\ next' = next + 1 /\ Refused(next)
        /\ UNCHANGED <<up, acted, memory>> /\ req' = req
    BY <1>2 DEF PostStream, Refused
  <2>2. ChatInd' BY <2>1, IsRefused
  <2>3. Pending' BY <2>1 DEF Pending, memory
  <2>. QED BY <2>2, <2>3
<1>. QED BY <1>1, <1>2

LEMMA StartsStream == ASSUME JarvisInd, NEW c \in Client, StartStream(c) PROVE JarvisInd'
<1>. USE DEF JarvisInd
<1>. DEFINE m == req[c].msg
<1>1. /\ req[c].at = "made" /\ Begin(c, m)
      /\ UNCHANGED <<up, acted, next, memory>>
  BY DEF StartStream
<1>2. /\ up /\ holder = c /\ m \in Message /\ m < next /\ answered[m] = "nothing"
      /\ c \notin ChatClient /\ \A d \in Client \ {c} : req[d].at = "idle"
  BY <1>1, JarvisAssumption DEF ChatInd, Gated, Course
<1>3. next \in 1 .. (MaxMessage + 1) BY DEF ChatInd, Typed
<1>. HIDE DEF m
<1>4. ChatInd' BY <1>1, <1>2, <1>3, Begins
<1>5. Pending'
  <2>1. \A d \in Client : req'[d].at # "index"
    BY <1>1, <1>2, BeginsQuietly
  <2>. QED BY <1>1, <2>1 DEF Pending, memory
<1>. QED BY <1>4, <1>5

\* Whoever is replied to, with a memory that is no worse than it was.
LEMMA RepliesPending ==
  ASSUME JarvisInd, NEW c \in Client, NEW what, req[c].at # "idle", Reply(c, what),
         up' = up, UNCHANGED memory
  PROVE  Pending'
<1>1. \A d \in Client : req'[d].at # "index" BY DEF Reply, Answers, JarvisInd, ChatInd, Typed, Gated, Idle
<1>. QED BY <1>1 DEF JarvisInd, Pending, memory

LEMMA Disconnects == ASSUME JarvisInd, NEW c \in Client, Disconnect(c) PROVE JarvisInd'
<1>. USE DEF JarvisInd
<1>0. /\ c \in StreamClient /\ req[c].at \notin {"idle", "lost"}
      /\ UNCHANGED <<up, session, acted, next, memory>>
  BY DEF Disconnect
<1>1. CASE req[c].at = "made"
  <2>. DEFINE m == req[c].msg
  <2>1. /\ holder = c /\ up /\ m \in Message /\ m < next
        /\ \A d \in Client \ {c} : req[d].at = "idle"
    BY <1>0 DEF ChatInd, Gated
  <2>. DEFINE r == [req[c] EXCEPT !.at = "lost"]
  <2>2. /\ req' = [req EXCEPT ![c] = r] /\ answered' = [answered EXCEPT ![m] = "gone"]
        /\ holder' = holder
    BY <1>0, <1>1 DEF Disconnect, ChatInd, Typed
  <2>3. r \in Request /\ r.at = "lost" /\ r.msg = m BY DEF ChatInd, Typed, Request, Point
  <2>. HIDE DEF r
  <2>4. req'[c] = r /\ \A d \in Client \ {c} : req'[d].at = "idle"
    BY <2>1, <2>2 DEF ChatInd, Typed
  <2>5. Typed' BY <1>0, <2>1, <2>2, <2>3 DEF ChatInd, Typed, session
  <2>6. Gated' BY <1>0, <2>1, <2>2, <2>3, <2>4 DEF Gated
  <2>7. Course' BY <2>3, <2>4 DEF Course
  <2>8. OneRun' BY <1>0, <2>4, JarvisAssumption DEF OneRun, Client
  <2>9. Fresh' BY <1>0, <2>1, <2>2 DEF ChatInd, Typed, Fresh, Message, session
  <2>10. Agrees' BY <1>0 DEF ChatInd, Agrees, session
  <2>11. Kept' BY <1>0, <2>1, <2>2 DEF ChatInd, Typed, Kept, Talked, session
  <2>12. Pending' BY <1>0, <2>3, <2>4 DEF Pending, memory
  <2>13. Numbered' BY <1>0, <2>1, <2>2, <2>3, <2>4 DEF ChatInd, Numbered, Typed
  <2>. QED BY <2>5, <2>6, <2>7, <2>8, <2>9, <2>10, <2>11, <2>12, <2>13 DEF ChatInd
<1>2. CASE req[c].at # "made"
  <2>1. Reply(c, "gone") BY <1>0, <1>2 DEF Disconnect
  <2>2. Continues BY <1>0, TalkStays DEF ChatInd, Gated
  <2>3. ChatInd' BY <1>0, <2>1, <2>2, Replies
  <2>. QED BY <1>0, <2>1, <2>3, RepliesPending
<1>. QED BY <1>1, <1>2

LEMMA Captured ==
  ASSUME JarvisInd, Captures, up' = up, UNCHANGED <<indexed, blind>>,
         \A d \in Client : req'[d].at = "index" => dirty'
  PROVE  Pending'
BY DEF JarvisInd, Pending, Captures

LEMMA Flushes == ASSUME JarvisInd, NEW c \in Client, Flush(c) PROVE JarvisInd'
<1>. USE DEF JarvisInd
<1>. DEFINE r == [req[c] EXCEPT !.at = "summarise"]
<1>1. /\ req[c].at = "flush" /\ Captures /\ req' = [req EXCEPT ![c] = r]
      /\ UNCHANGED <<up, holder, session, answered, acted, next, indexed, blind>>
  BY DEF Flush, ChatInd, Typed
<1>2. req[c] \in Request BY DEF ChatInd, Typed
<1>3. /\ r \in Request /\ r.at = "summarise" /\ r.msg = req[c].msg
      /\ r.snap = req[c].snap /\ r.tool = req[c].tool
  BY <1>2 DEF Request, Point
<1>. HIDE DEF r
<1>4. /\ up /\ r.snap = history' /\ Asked(history', r.msg)
      /\ c \in ChatClient => acted'[r.msg] <= IF r.tool THEN 1 ELSE 0
  BY <1>1, <1>3 DEF ChatInd, Gated, Course, OneRun, session
<1>5. Continues BY <1>1, <1>4, TalkStays
<1>6. acted' \in [Message -> Nat] BY <1>1 DEF ChatInd, Typed
<1>7. ChatInd'
  <2>1. /\ r.at \in {"flush", "summarise"} /\ r.at \notin {"idle", "made", "lost"}
        /\ r.at # "run" /\ r.at # "index"
    BY <1>3
  <2>2. \A x \in Message : x # r.msg => acted'[x] = acted[x] BY <1>1
  <2>. QED BY <1>1, <1>3, <1>4, <1>5, <1>6, <2>1, <2>2, Proceeds
<1>8. \A d \in Client : req'[d].at = "index" => dirty'
  <2>1. \A d \in Client : d # c => req'[d] = req[d] BY <1>1 DEF ChatInd, Typed
  <2>2. req'[c] = r BY <1>1 DEF ChatInd, Typed
  <2>3. dirty \in BOOLEAN /\ (dirty => dirty') BY <1>1 DEF Captures, Pending
  <2>. QED BY <1>3, <2>1, <2>2, <2>3 DEF Pending
<1>. QED BY <1>1, <1>7, <1>8, Captured

LEMMA Summarises == ASSUME JarvisInd, NEW c \in Client, Summarise(c) PROVE JarvisInd'
<1>. USE DEF JarvisInd
<1>0. /\ req[c].at = "summarise" /\ UNCHANGED <<up, acted, next, memory>>
  BY DEF Summarise
<1>. DEFINE h == Compacted(req[c].snap)
<1>2. /\ req[c].snap = history /\ history \in Talk /\ Asked(history, req[c].msg) /\ up
      /\ req[c] \in Request
  BY <1>0 DEF ChatInd, Course, Gated, Typed
<1>3. h \in Talk /\ Says(h) = Says(history) /\ Asked(h, req[c].msg) BY <1>2, SaysCompacted
<1>4. \/ /\ Save(h) /\ UNCHANGED <<holder, answered>>
         /\ req' = [req EXCEPT ![c].at = "run", ![c].snap = <<>>, ![c].seen = h]
      \/ Reply(c, "error") /\ (Tears(h) \/ UNCHANGED session)
  BY DEF Summarise
<1>. HIDE DEF h
<1>5. CASE Reply(c, "error") /\ (Tears(h) \/ UNCHANGED session)
  <2>1. Continues BY <1>2, <1>3, <1>5, TalkStays, TalkSaved
  <2>2. ChatInd' BY <1>0, <1>5, <2>1, Replies
  <2>. QED BY <1>0, <1>5, <2>2, RepliesPending
<1>6. CASE /\ Save(h) /\ UNCHANGED <<holder, answered>>
           /\ req' = [req EXCEPT ![c].at = "run", ![c].snap = <<>>, ![c].seen = h]
  <2>. DEFINE r == [req[c] EXCEPT !.at = "run", !.snap = <<>>, !.seen = h]
  <2>4. req' = [req EXCEPT ![c] = r] BY <1>6 DEF ChatInd, Typed
  <2>5. /\ r \in Request /\ r.at = "run" /\ r.msg = req[c].msg
        /\ r.seen = h /\ r.tool = req[c].tool
    <3>1. <<>> \in Talk BY DEF Talk
    <3>. QED BY <1>2, <1>3, <3>1 DEF Request, Point
  <2>. HIDE DEF r
  <2>7. Continues /\ history' = h BY <1>3, <1>6, TalkSaved
  <2>8. c \in ChatClient => acted'[r.msg] <= IF r.tool THEN 1 ELSE 0
    BY <1>0, <2>5 DEF ChatInd, OneRun
  <2>9. acted' \in [Message -> Nat] BY <1>0 DEF ChatInd, Typed
  <2>10. ChatInd'
    <3>1. /\ r.at \notin {"flush", "summarise"} /\ r.at \notin {"idle", "made", "lost"}
          /\ r.at # "index"
      BY <2>5
    <3>2. \A x \in Message : x # r.msg => acted'[x] = acted[x] BY <1>0
    <3>3. r.seen = history' /\ Asked(history', r.msg) BY <1>3, <2>5, <2>7
    <3>. QED BY <1>0, <1>6, <2>4, <2>5, <2>7, <2>8, <2>9, <3>1, <3>2, <3>3, Proceeds
  <2>11. Pending'
    <3>1. \A d \in Client : d # c => req'[d] = req[d] BY <2>4 DEF ChatInd, Typed
    <3>2. req'[c] = r BY <2>4 DEF ChatInd, Typed
    <3>. QED BY <1>0, <2>5, <3>1, <3>2 DEF Pending, memory
  <2>. QED BY <2>10, <2>11
<1>. QED BY <1>4, <1>5, <1>6

LEMMA ActsOnce == ASSUME JarvisInd, NEW c \in Client, Acts(c) PROVE JarvisInd'
<1>. USE DEF JarvisInd
<1>. DEFINE r == [req[c] EXCEPT !.tool = TRUE]
            m == req[c].msg
<1>1. /\ req[c].at = "run" /\ ~req[c].tool /\ req' = [req EXCEPT ![c] = r]
      /\ acted' = [acted EXCEPT ![m] = @ + 1]
      /\ UNCHANGED <<up, holder, session, answered, next, memory>>
  BY DEF Acts, ChatInd, Typed
<1>2. /\ req[c] \in Request /\ acted \in [Message -> Nat] BY DEF ChatInd, Typed
<1>3. /\ r \in Request /\ r.at = "run" /\ r.msg = m /\ r.seen = req[c].seen /\ r.tool = TRUE
  BY <1>1, <1>2 DEF Request
<1>. HIDE DEF r
<1>4. /\ up /\ m \in Message /\ r.seen = history' /\ Asked(history', r.msg)
  BY <1>1, <1>3 DEF ChatInd, Gated, Course, session
<1>. HIDE DEF m
<1>5. /\ acted' \in [Message -> Nat] /\ acted'[m] = acted[m] + 1
      /\ \A x \in Message : x # m => acted'[x] = acted[x]
  BY <1>1, <1>2, <1>4
<1>6. c \in ChatClient => acted'[m] <= 1
  <2>1. c \in ChatClient => acted[m] <= 0 BY <1>1 DEF ChatInd, OneRun, m
  <2>2. acted[m] \in Nat BY <1>2, <1>4
  <2>. QED BY <1>5, <2>1, <2>2
<1>7. Continues BY <1>1, <1>4, TalkStays
<1>8. ChatInd'
  <2>1. /\ r.at \notin {"flush", "summarise"} /\ r.at \notin {"idle", "made", "lost"}
        /\ r.at # "index"
    BY <1>3
  <2>2. c \in ChatClient => acted'[r.msg] <= IF r.tool THEN 1 ELSE 0 BY <1>3, <1>6
  <2>3. \A x \in Message : x # r.msg => acted'[x] = acted[x] BY <1>3, <1>5
  <2>4. req[c].at \notin {"idle", "lost"} /\ r.msg = req[c].msg BY <1>1, <1>3 DEF m
  <2>. QED BY <1>1, <1>3, <1>4, <1>5, <1>7, <2>1, <2>2, <2>3, <2>4, Proceeds
<1>9. Pending'
  <2>1. \A d \in Client : d # c => req'[d] = req[d] BY <1>1 DEF ChatInd, Typed
  <2>2. req'[c] = r BY <1>1 DEF ChatInd, Typed
  <2>. QED BY <1>1, <1>3, <2>1, <2>2 DEF Pending, memory
<1>. QED BY <1>8, <1>9

LEMMA RunsFail == ASSUME JarvisInd, NEW c \in Client, RunFails(c) PROVE JarvisInd'
<1>. USE DEF JarvisInd
<1>0. /\ req[c].at = "run" /\ UNCHANGED <<up, session, acted, next, memory>>
  BY DEF RunFails
<1>1. up /\ Continues BY <1>0, TalkStays DEF ChatInd, Gated
<1>2. CASE FallsBack(c)
  <2>. DEFINE r == [req[c] EXCEPT !.again = TRUE, !.tool = FALSE]
  <2>1. /\ req' = [req EXCEPT ![c] = r] /\ UNCHANGED <<holder, answered>>
    BY <1>2 DEF RunFails, ChatInd, Typed
  <2>2. req[c] \in Request BY DEF ChatInd, Typed
  <2>3. /\ r \in Request /\ r.at = "run" /\ r.msg = req[c].msg /\ r.seen = req[c].seen
    BY <1>0, <2>2 DEF Request
  <2>. HIDE DEF r
  <2>4. r.seen = history' /\ Asked(history', r.msg) BY <1>0, <2>3 DEF ChatInd, Course, session
  <2>5. c \notin ChatClient BY <1>2, JarvisAssumption DEF FallsBack
  <2>6. acted' \in [Message -> Nat] BY <1>0 DEF ChatInd, Typed
  <2>7. /\ r.at \notin {"flush", "summarise"} /\ r.at \notin {"idle", "made", "lost"}
        /\ r.at # "index"
    BY <2>3
  <2>8. \A x \in Message : x # r.msg => acted'[x] = acted[x] BY <1>0
  <2>9. ChatInd' BY <1>0, <1>1, <2>1, <2>3, <2>4, <2>5, <2>6, <2>7, <2>8, Proceeds
  <2>10. Pending'
    <3>1. \A d \in Client : d # c => req'[d] = req[d] BY <2>1 DEF ChatInd, Typed
    <3>2. req'[c] = r BY <2>1 DEF ChatInd, Typed
    <3>. QED BY <1>0, <2>3, <3>1, <3>2 DEF Pending, memory
  <2>. QED BY <2>9, <2>10
<1>3. CASE ~FallsBack(c)
  <2>1. Reply(c, "error") BY <1>3 DEF RunFails
  <2>2. ChatInd' BY <1>0, <1>1, <2>1, Replies
  <2>. QED BY <1>0, <2>1, <2>2, RepliesPending
<1>. QED BY <1>2, <1>3

LEMMA RunsFinish == ASSUME JarvisInd, NEW c \in Client, RunEnds(c) PROVE JarvisInd'
<1>. USE DEF JarvisInd
<1>. DEFINE m == req[c].msg
            h == Append(history, Entry({A(m)}))
<1>0. /\ req[c].at = "run" /\ UNCHANGED <<up, acted, next, indexed, blind>>
      /\ \/ Save(h) /\ Captures
         \/ Tears(h) /\ Reply(c, "error") /\ UNCHANGED <<facts, dirty>>
  BY DEF RunEnds
<1>1. /\ up /\ m \in Message /\ m \in Nat /\ req[c] \in Request
      /\ history \in Talk /\ Asked(history, m)
  BY <1>0, JarvisAssumption DEF ChatInd, Gated, Course, Typed, Message
<1>2. h \in Talk /\ Says(h) = Says(history) \cup {A(m)}
  <2>1. {A(m)} \in SUBSET Word BY <1>1 DEF A, Word
  <2>. QED BY <1>1, <2>1, SaysAppend
<1>3. CASE Tears(h) /\ Reply(c, "error") /\ UNCHANGED <<facts, dirty>>
  <2>1. Continues
    <3>1. \A x \in Message : Q(x) # A(m) BY DEF Q, A
    <3>. HIDE DEF h
    <3>. QED BY <1>2, <1>3, <3>1, TalkSaved
  <2>2. ChatInd' BY <1>0, <1>3, <2>1, Replies
  <2>. QED BY <1>0, <1>3, <2>2, RepliesPending DEF memory
<1>. SUFFICES ASSUME Save(h), Captures,
                     IF dirty' THEN /\ req' = [req EXCEPT ![c].at = "index", ![c].seen = <<>>]
                                    /\ UNCHANGED <<holder, answered>>
                               ELSE Reply(c, "ok")
              PROVE  JarvisInd'
  BY <1>3 DEF RunEnds
<1>. HIDE DEF h
<1>4. Continues /\ history' = h
  <2>1. \A x \in Message : Q(x) # A(m) BY DEF Q, A
  <2>. QED BY <1>2, <2>1, TalkSaved
<1>5. Exchange(m) \subseteq Says(history')
  <2>1. Q(m) \in Says(history)
    <3>1. Len(history) \in 1 .. Len(history) BY <1>1 DEF Asked, Talk
    <3>2. Q(m) \in history[Len(history)].says BY <1>1 DEF Asked, Entry
    <3>. QED BY <3>1, <3>2 DEF Says
  <2>. QED BY <1>2, <1>4, <2>1 DEF Exchange
<1>6. CASE dirty'
  <2>. DEFINE r == [req[c] EXCEPT !.at = "index", !.seen = <<>>]
  <2>1. req' = [req EXCEPT ![c] = r] /\ UNCHANGED <<holder, answered>>
    BY <1>6 DEF ChatInd, Typed
  <2>2. r \in Request /\ r.at = "index" /\ r.msg = m /\ r.tool = req[c].tool
    <3>1. <<>> \in Talk BY DEF Talk
    <3>. QED BY <1>1, <3>1 DEF Request, Point
  <2>. HIDE DEF r
  <2>3. c \in ChatClient => acted'[r.msg] <= IF r.tool THEN 1 ELSE 0
    BY <1>0, <2>2 DEF ChatInd, OneRun
  <2>4. acted' \in [Message -> Nat] BY <1>0 DEF ChatInd, Typed
  <2>5. ChatInd'
    <3>1. /\ r.at \notin {"flush", "summarise"} /\ r.at \notin {"idle", "made", "lost"}
          /\ r.at # "run" /\ r.msg = req[c].msg
      BY <2>2
    <3>2. \A x \in Message : x # r.msg => acted'[x] = acted[x] BY <1>0
    <3>3. Exchange(r.msg) \subseteq Says(history') BY <1>5, <2>2
    <3>. QED BY <1>0, <1>4, <2>1, <2>2, <2>3, <2>4, <3>1, <3>2, <3>3, Proceeds
  <2>6. Pending' BY <1>0, <1>6, Captured
  <2>. QED BY <2>5, <2>6
<1>7. CASE ~dirty'
  <2>1. Reply(c, "ok") BY <1>7
  <2>2. ChatInd' BY <1>0, <1>4, <1>5, <2>1, Replies
  <2>3. \A d \in Client : req'[d].at # "index"
    BY <1>0, <2>1 DEF Reply, Answers, ChatInd, Typed, Gated, Idle
  <2>4. Pending' BY <1>0, <2>3, Captured
  <2>. QED BY <2>2, <2>4
<1>. QED BY <1>6, <1>7

LEMMA Indexes == ASSUME JarvisInd, NEW c \in Client, Index(c) PROVE JarvisInd'
<1>. USE DEF JarvisInd
<1>1. /\ req[c].at = "index" /\ Reply(c, "ok")
      /\ UNCHANGED <<up, session, acted, next, facts>>
  BY DEF Index
<1>2. Continues BY <1>1, TalkStays DEF ChatInd, Gated
<1>3. Exchange(req[c].msg) \subseteq Says(history')
  BY <1>1 DEF ChatInd, Course, session
<1>4. ChatInd' BY <1>1, <1>2, <1>3, Replies
<1>5. \A d \in Client : req'[d].at # "index"
  <2>1. req' = [req EXCEPT ![c] = Idle] /\ holder = c BY <1>1 DEF Reply, Answers, ChatInd, Gated
  <2>2. \A d \in Client \ {c} : req[d].at = "idle" BY <2>1 DEF ChatInd, Gated
  <2>3. req'[c] = Idle /\ \A d \in Client \ {c} : req'[d] = req[d] BY <2>1 DEF ChatInd, Typed
  <2>4. Idle.at = "idle" BY DEF Idle
  <2>5. ASSUME NEW d \in Client PROVE req'[d].at = "idle" BY <2>2, <2>3, <2>4
  <2>. QED BY <2>5
<1>6. Pending'
  <2>1. CASE indexed' = facts /\ dirty' = FALSE /\ blind' = FALSE BY <1>1, <1>5, <2>1 DEF Pending
  <2>2. CASE UNCHANGED <<indexed, dirty, blind>> BY <1>1, <1>5, <2>2 DEF Pending
  <2>3. CASE dirty' = FALSE /\ blind' = TRUE BY <1>5, <2>3 DEF Pending
  <2>. QED BY <2>1, <2>2, <2>3 DEF Index
<1>. QED BY <1>4, <1>6

LEMMA RunsLate ==
  ASSUME JarvisInd, NEW c \in Client, ChatTimeout(c) \/ StreamLate(c) PROVE JarvisInd'
<1>. USE DEF JarvisInd
<1>1. /\ req[c].at # "idle" /\ Reply(c, "timeout")
      /\ UNCHANGED <<up, session, acted, next, memory>>
  BY DEF ChatTimeout, StreamLate
<1>2. Continues BY <1>1, TalkStays DEF ChatInd, Gated
<1>3. ChatInd' BY <1>1, <1>2, Replies
<1>. QED BY <1>1, <1>3, RepliesPending

LEMMA Crashes == ASSUME JarvisInd, Crash PROVE JarvisInd'
<1>. USE DEF JarvisInd
<1>1. /\ up' = FALSE /\ history' = <<>> /\ dirty' = FALSE /\ req' = [c \in Client |-> Idle]
      /\ UNCHANGED <<forgot, acted, next, facts, indexed, blind>>
      /\ up
  BY DEF Crash
<1>2. \A d \in Client : req'[d] = Idle /\ req'[d].at = "idle" BY <1>1 DEF Idle
<1>3. /\ answered' \in [Message -> {"nothing", "busy", "ok", "error", "timeout", "gone"}]
      /\ \A x \in Message : answered'[x] # answered[x] =>
           answered'[x] = "gone" /\ \E c \in Client : req[c].msg = x /\ answered[x] = "nothing"
  BY DEF Crash, ChatInd, Typed
<1>11. /\ disk' \in Talk /\ torn' \in BOOLEAN
       /\ ~torn' => disk' = disk /\ ~torn
       /\ \A x \in Message : Q(x) \in Says(disk') => Q(x) \in Says(history) \cup Says(disk)
  <2>1. disk' \in {disk} \cup UNION {Parts(h) : h \in Rewritten} /\ torn' = (torn \/ disk' # disk)
    BY DEF Crash
  <2>2. history \in Talk /\ disk \in Talk BY DEF ChatInd, Typed
  <2>3. ASSUME NEW h \in Rewritten PROVE h \in Talk /\ Says(h) = Says(history)
    <3>1. CASE h = history BY <2>2, <3>1
    <3>2. CASE h # history
      <4>1. PICK c \in Client : req[c].at = "summarise" /\ h = Compacted(req[c].snap)
        BY <2>3, <3>2 DEF Rewritten
      <4>2. req[c].snap = history /\ Asked(history, req[c].msg) BY <4>1 DEF ChatInd, Course
      <4>. QED BY <2>2, <4>1, <4>2, SaysCompacted
    <3>. QED BY <3>1, <3>2
  <2>4. CASE disk' = disk BY <2>1, <2>2, <2>4 DEF ChatInd, Typed
  <2>5. CASE disk' # disk
    <3>1. PICK h \in Rewritten : disk' \in Parts(h) BY <2>1, <2>5
    <3>2. disk' \in Talk /\ Says(disk') \subseteq Says(h) BY <2>3, <3>1, PartsOfTalk
    <3>. QED BY <2>1, <2>3, <2>5, <3>2
  <2>. QED BY <2>4, <2>5
<1>12. Says(<<>>) = {} BY DEF Says
<1>4. Typed'
  <2>1. <<>> \in Talk BY DEF Talk
  <2>2. req' \in [Client -> Request] BY <1>1, IdleIsRequest
  <2>. QED BY <1>1, <1>3, <1>11, <2>1, <2>2 DEF ChatInd, Typed
<1>5. Gated' /\ Course' /\ OneRun' BY <1>2 DEF Gated, Course, OneRun, Client
<1>6. Fresh'
  <2>1. \A d \in Client, x \in Message : x >= next => req[d].msg # x
    BY DEF ChatInd, Numbered, Typed, Message
  <2>. QED BY <1>1, <1>3, <1>11, <1>12, <2>1 DEF ChatInd, Fresh
<1>7. Agrees' BY <1>1 DEF Agrees
<1>8. Kept' BY <1>1, <1>3, <1>11, <1>12 DEF ChatInd, Kept, Talked, Agrees
<1>9. Pending' BY <1>1, <1>2 DEF Pending
<1>10. Numbered' BY <1>1, <1>2, JarvisAssumption DEF ChatInd, Typed, Numbered, Idle
<1>. QED BY <1>4, <1>5, <1>6, <1>7, <1>8, <1>9, <1>10 DEF ChatInd

LEMMA SetsUp == ASSUME JarvisInd, Setup PROVE JarvisInd'
<1>. USE DEF JarvisInd
<1>1. /\ ~up /\ up' = TRUE /\ history' = disk /\ torn' = FALSE
      /\ forgot' = IF torn
                   THEN forgot \cup {m \in Message : answered[m] = "ok" /\ ~(Exchange(m) \subseteq Says(disk))}
                   ELSE forgot
      /\ UNCHANGED <<holder, req, disk, answered, acted, next, facts, dirty>>
      /\ \/ indexed' = facts /\ blind' = FALSE
         \/ blind' = TRUE
  BY DEF Setup
<1>2. \A d \in Client : req[d].at = "idle" BY <1>1 DEF ChatInd, Gated
<1>3. Typed' BY <1>1 DEF ChatInd, Typed
<1>4. Gated' /\ Course' /\ OneRun' BY <1>1, <1>2 DEF Gated, Course, OneRun, Client
<1>5. Fresh' /\ Agrees' /\ Kept' BY <1>1 DEF ChatInd, Fresh, Agrees, Kept, Talked
<1>6. Pending' BY <1>1, <1>2 DEF Pending
<1>7. Numbered' BY <1>1 DEF ChatInd, Numbered
<1>. QED BY <1>3, <1>4, <1>5, <1>6, <1>7 DEF ChatInd

LEMMA JarvisSteps == ASSUME JarvisInd, [JarvisNext]_jarvisVars PROVE JarvisInd'
<1>1. ASSUME UNCHANGED <<up, chat, memory>> PROVE JarvisInd'
  <2>1. ChatInd' BY <1>1, ChatIsQuiet DEF JarvisInd
  <2>2. Pending' BY <1>1 DEF JarvisInd, Pending, memory, chat
  <2>. QED BY <2>1, <2>2 DEF JarvisInd
<1>2. ASSUME NEW c \in Client, Step(c) PROVE JarvisInd'
  BY <1>2, PostsChat, PostsStream, StartsStream, Disconnects, Flushes, Summarises, ActsOnce,
     RunsFail, RunsFinish, Indexes, RunsLate DEF Step
<1>3. ASSUME NEW k \in Checker, Wakes(k) \/ Evaluates(k) \/ Records(k) PROVE JarvisInd'
  BY <1>1, <1>3 DEF Wakes, Evaluates, Records
<1>4. ASSUME NEW a \in Alert, Expires(a) PROVE JarvisInd'
  BY <1>1, <1>4 DEF Expires
<1>5. CASE UNCHANGED jarvisVars BY <1>1, <1>5 DEF jarvisVars
<1>. QED BY <1>2, <1>3, <1>4, <1>5, Crashes, SetsUp DEF JarvisNext

LEMMA WholeContext == ASSUME JarvisInd PROVE ContextIsWhole
<1>. USE DEF JarvisInd, ChatInd
<1>1. WholeTalk
  <2>. SUFFICES ASSUME NEW c \in Client, req[c].at = "run"
                PROVE  LET seen == req[c].seen
                       IN /\ \A m \in Message :
                               answered[m] = "ok" /\ m \notin forgot => Exchange(m) \subseteq Says(seen)
                          /\ seen[Len(seen)] = Entry({Q(req[c].msg)})
                          /\ seen = history
    BY DEF WholeTalk
  <2>1. up /\ req[c].seen = history /\ Asked(history, req[c].msg)
    BY DEF Gated, Course
  <2>. QED BY <2>1 DEF Kept, Talked, Asked
<1>2. RefusedLeavesNoTrace
  <2>2. \A m \in Message : answered[m] = "busy" => acted[m] = 0 /\ Q(m) \notin Says(history)
    BY DEF Kept
  <2>3. ASSUME NEW c \in ChatClient, req[c].at # "idle" PROVE acted[req[c].msg] <= 1
    <3>1. req[c].msg \in Message BY <2>3 DEF Gated, Client
    <3>2. acted[req[c].msg] \in Nat BY <3>1 DEF Typed
    <3>. QED BY <2>3, <3>2 DEF OneRun
  <2>. QED BY <2>2, <2>3 DEF RefusedLeavesNoTrace
<1>3. IndexCurrent BY DEF Pending, IndexCurrent
<1>. QED BY <1>1, <1>2, <1>3 DEF ContextIsWhole

\* What a run of the model is given is the talk as the clients know it, with
\* every exchange that was answered and nothing that was refused, however
\* often it was compacted, streams broke off, waits timed out, saves failed or
\* the server died, but for the exchanges a restart did not find in a torn file;
\* and what memory search shows is the memory, unless its last pass failed or
\* passed over a file (agent.py:279-304, session.py:87-151, state.py:81-132).
THEOREM AssistantSeesTheWholeTalk == JarvisSpec => []ContextIsWhole
<1>1. JarvisInit => JarvisInd BY JarvisInitially
<1>2. JarvisInd /\ [JarvisNext]_jarvisVars => JarvisInd' BY JarvisSteps
<1>3. JarvisInd => ContextIsWhole BY WholeContext
<1>. QED BY <1>1, <1>2, <1>3, PTL DEF JarvisSpec

-----------------------------------------------------------------------------

\* An alert shown today is in the cache, was cut off, or is being shown.
Shown ==
  /\ beat \in [Checker -> Alert \cup {"idle", "asks"}] /\ rung \subseteq Alert
  /\ rung \subseteq sent \cup cut \cup {beat[k] : k \in Checker}

LEMMA ShownAlways == JarvisSpec => []Shown
<1>1. JarvisInit => Shown BY DEF JarvisInit, Shown
<1>2. Shown /\ [JarvisNext]_jarvisVars => Shown'
  <2>. SUFFICES ASSUME Shown, [JarvisNext]_jarvisVars PROVE Shown'
    OBVIOUS
  <2>1. ASSUME UNCHANGED heart PROVE Shown' BY <2>1 DEF Shown, heart
  <2>2. ASSUME NEW c \in Client, Step(c) PROVE Shown'
    BY <2>1, <2>2 DEF Step, PostChat, PostStream, StartStream, Disconnect, Flush, Summarise,
       Acts, RunFails, RunEnds, Index, ChatTimeout, StreamLate
  <2>3. ASSUME NEW k \in Checker, Wakes(k) PROVE Shown'
    <3>1. beat[k] = "idle" /\ beat' = [beat EXCEPT ![k] = "asks"] /\ UNCHANGED <<sent, rung, cut>>
      BY <2>3 DEF Wakes
    <3>2. "idle" \notin rung BY JarvisAssumption DEF Shown
    <3>. QED BY <3>1, <3>2 DEF Shown
  <2>4. ASSUME NEW k \in Checker, Evaluates(k) PROVE Shown'
    BY <2>4, JarvisAssumption DEF Evaluates, Shown
  <2>5. ASSUME NEW k \in Checker, Records(k) PROVE Shown'
    BY <2>5 DEF Records, Shown
  <2>6. ASSUME NEW a \in Alert, Expires(a) PROVE Shown' BY <2>6 DEF Shown, Expires
  <2>7. CASE Crash
    <3>1. /\ cut' = cut \cup {beat[k] : k \in {j \in Checker : beat[j] \in Alert}}
          /\ beat' = [k \in Checker |-> "idle"] /\ UNCHANGED <<sent, rung>>
      BY <2>7 DEF Crash
    <3>2. rung' \subseteq sent' \cup cut' BY <3>1 DEF Shown
    <3>. QED BY <3>1, <3>2 DEF Shown
  <2>8. CASE Setup BY <2>1, <2>8 DEF Setup
  <2>9. CASE UNCHANGED jarvisVars BY <2>1, <2>9 DEF jarvisVars
  <2>. QED BY <2>2, <2>3, <2>4, <2>5, <2>6, <2>7, <2>8, <2>9 DEF JarvisNext
<1>. QED BY <1>1, <1>2, PTL DEF JarvisSpec

\* No alert is shown a second time that day, unless a crash or a failing write
\* prevented its record or another check is showing it, for any number of checks
\* that run beside each other (heartbeat.py:112-119, main.py:145-149).
THEOREM AlertsRingOnce == JarvisSpec => RungOnce
<1>1. Shown /\ [JarvisNext]_jarvisVars =>
        [\A k \in Checker : beat'[k] \in Alert /\ beat[k] \notin Alert
           => \/ beat'[k] \notin rung \/ beat'[k] \in cut
              \/ \E j \in Checker : beat[j] = beat'[k]]_jarvisVars
  <2>. SUFFICES ASSUME Shown, JarvisNext, NEW k \in Checker, beat'[k] \in Alert, beat[k] \notin Alert
                PROVE  \/ beat'[k] \notin rung \/ beat'[k] \in cut
                       \/ \E j \in Checker : beat[j] = beat'[k]
    OBVIOUS
  <2>1. beat'[k] # beat[k] OBVIOUS
  <2>2. ASSUME UNCHANGED heart PROVE FALSE BY <2>1, <2>2 DEF heart
  <2>3. ASSUME NEW c \in Client, Step(c) PROVE FALSE
    BY <2>2, <2>3 DEF Step, PostChat, PostStream, StartStream, Disconnect, Flush, Summarise,
       Acts, RunFails, RunEnds, Index, ChatTimeout, StreamLate
  <2>4. ASSUME NEW j \in Checker, Wakes(j) \/ Records(j) PROVE FALSE
    BY <2>1, <2>4, JarvisAssumption DEF Wakes, Records, Shown
  <2>5. ASSUME NEW j \in Checker, Evaluates(j) PROVE beat'[k] \notin sent
    BY <2>1, <2>5, JarvisAssumption DEF Evaluates, Shown, IsDuplicate
  <2>6. ASSUME NEW a \in Alert, Expires(a) PROVE FALSE BY <2>1, <2>6 DEF Expires
  <2>7. ASSUME Crash PROVE FALSE BY <2>7, JarvisAssumption DEF Crash
  <2>8. ASSUME Setup PROVE FALSE BY <2>2, <2>8 DEF Setup
  <2>9. beat'[k] \notin sent BY <2>3, <2>4, <2>5, <2>6, <2>7, <2>8 DEF JarvisNext
  <2>. QED BY <2>9 DEF Shown
<1>. QED BY <1>1, ShownAlways, PTL DEF JarvisSpec, RungOnce
===============================================================================
