------------------------------- MODULE AgentRuns -------------------------------
(***************************************************************************)
(* The dashboard and the agents it launches.  run_config registers the      *)
(* policies of a configuration, installs its agents and runs its tasks in   *)
(* order, each in a process of its own that the Runner kills when its time  *)
(* is up.  The agent is the invoice bot: a model calls its tools, several   *)
(* at a time, and each tool submits an intent through the Actor and waits   *)
(* for the runtime's answer, for a limited time.                            *)
(*                                                                          *)
(* Killing the process or closing its connection does not reach the         *)
(* runtime: the intent it had sent is decided and executed all the same.    *)
(***************************************************************************)
EXTENDS Naturals, Sequences, SequencesExt

CONSTANTS
  Invoice,     \* the invoices of the workspace
  Tracker,     \* the file their rows are in
  Configs,     \* what is run: [permits |-> invoices within the limits, tasks |-> how many]
  MaxTurns,    \* max_turns of the bot (25 in the code)
  Parallel,    \* tools the model calls in one turn
  Faults       \* bound on executions that fail and on waits that end without an answer

ASSUME RunsAssumption ==
  /\ \A k \in DOMAIN Configs : Configs[k].permits \subseteq Invoice /\ Configs[k].tasks \in Nat \ {0}
  /\ MaxTurns \in Nat /\ Parallel \in Nat \ {0} /\ Faults \in Nat

VARIABLES
  stage,     \* the dashboard: "register", "install", "launch", "running", "over"
  conf,      \* the configuration it is at
  task,      \* the task of it
  policy,    \* the registry: what the bot's slot permits, nothing without a policy
  bot,       \* its process: "off", "greeting" before the handshake, "working"
  turn,      \* turns the model has taken
  hasRead,   \* has it read the tracker?
  saw,       \* the invoices it found there the last time
  told,      \* invoices the tools have dealt with, as the model was told
  declined,  \* invoices the user said to skip, as the model was told
  tally,     \* the counters of AgentContext
  reports,   \* what the Runner reported of each run
  wire,      \* requests sent that the runtime's loop has not read
  lane,      \* handlers in the lane's queue with the policy each resolved: the first is inside
  acting,    \* is the one inside in the executor's call?
  waiting,   \* calls whose client waits for the answer
  late,      \* calls that failed and whose adapter is still at work
  tracker,   \* the calls that wrote a row
  refused,   \* the runtime's audit log: the calls that were blocked
  inDoubt,   \* appends that ended without a word of success or refusal
  consents,  \* questions the user answered with add, as the model was told
  faults

dashVars == <<stage, conf, task>>
botVars == <<bot, turn, hasRead, saw, told, declined, tally>>
laneVars == <<wire, lane, acting>>
worldVars == <<late, tracker, refused, faults>>
answerVars == <<inDoubt, consents>>
vars == <<dashVars, policy, botVars, reports, laneVars, waiting, worldVars, answerVars>>

Op == {"read", "append", "ask"}
Tool == {[op |-> "read", inv |-> Tracker]} \cup [op : {"append", "ask"}, inv : Invoice]
Call == [run : Nat, turn : Nat, op : Op, inv : Invoice \cup {Tracker}]
NoTally == [processed |-> 0, blocked |-> 0]
Status == {"completed", "failed", "timeout"}

Run == Len(reports) + 1

RunsTypeOK ==
  /\ stage \in {"register", "install", "launch", "running", "over"}
  /\ bot \in {"off", "greeting", "working"}
  /\ wire \subseteq Call /\ waiting \subseteq Call /\ late \subseteq Call /\ tracker \subseteq Call
  /\ \A e \in ToSet(lane) : e.call \in Call
  /\ \A r \in ToSet(reports) : r.status \in Status

Init ==
  /\ stage = "register" /\ conf = 1 /\ task = 1
  /\ policy = {}
  /\ bot = "off" /\ turn = 0 /\ hasRead = FALSE /\ saw = {} /\ told = {} /\ declined = {}
  /\ tally = NoTally /\ reports = <<>>
  /\ wire = {} /\ lane = <<>> /\ acting = FALSE
  /\ waiting = {} /\ late = {} /\ tracker = {} /\ refused = {} /\ inDoubt = {} /\ consents = {}
  /\ faults = 0

Rows(i) == {c \in tracker : c.inv = i}
Entered == {i \in Invoice : Rows(i) # {}}

-------------------------------------------------------------------------------
(* run_config *)

\* The next configuration is another run of the program.
EndConfig ==
  /\ conf' = conf + 1
  /\ task' = 1
  /\ stage' = IF conf = Len(Configs) THEN "over" ELSE "register"

\* What the file's allowed_actions and constraints come to.
Permits == Configs[conf].permits

\* The registry's slot of the bot is overwritten, workspaces are registered.
Register ==
  /\ stage = "register"
  /\ policy' = Permits
  /\ stage' = "install"
  /\ UNCHANGED <<conf, task, botVars, reports, laneVars, waiting, worldVars, answerVars>>

Install ==
  /\ stage = "install"
  /\ stage' = "launch"
  /\ UNCHANGED <<conf, task, policy, botVars, reports, laneVars, waiting, worldVars, answerVars>>

\* No such package, or a command of the installation fails: run_config raises
\* after the policies were registered.
InstallFails ==
  /\ stage = "install"
  /\ EndConfig
  /\ UNCHANGED <<policy, botVars, reports, laneVars, waiting, worldVars, answerVars>>

Launch ==
  /\ stage = "launch"
  /\ stage' = "running"
  /\ bot' = "greeting"
  /\ turn' = 0 /\ hasRead' = FALSE /\ saw' = {} /\ told' = {} /\ declined' = {}
  /\ tally' = NoTally
  /\ UNCHANGED <<conf, task, policy, reports, laneVars, waiting, worldVars, answerVars>>

\* The Runner has a result; the loop over the tasks goes on whatever it is.
Report(status, counted) ==
  /\ stage = "running"
  /\ reports' = Append(reports, [status |-> status, tally |-> counted])
  /\ IF task < Configs[conf].tasks
     THEN stage' = "launch" /\ task' = task + 1 /\ UNCHANGED conf
     ELSE EndConfig
  /\ bot' = "off"
  /\ turn' = 0 /\ hasRead' = FALSE /\ saw' = {} /\ told' = {} /\ declined' = {}
  /\ tally' = NoTally
  /\ inDoubt' = inDoubt \cup {c \in waiting : c.op = "append"}
  /\ waiting' = {}
  /\ UNCHANGED <<policy, laneVars, worldVars, consents>>

\* Mutant: subprocess.run without its timeout once the bot has begun to work.
TimeoutOfSetup ==
  /\ bot = "greeting"
  /\ Report("timeout", NoTally)

\* The time of the task is up: the process is killed.
Timeout ==
  /\ bot # "off"
  /\ Report("timeout", NoTally)

-------------------------------------------------------------------------------
(* The bot *)

Thinking == bot = "working" /\ waiting = {}

\* POST /handshake: the runtime answers between two calls of the executor, also
\* for an agent without a policy.
Handshake ==
  /\ bot = "greeting"
  /\ ~acting
  /\ bot' = "working"
  /\ UNCHANGED <<dashVars, policy, turn, hasRead, saw, told, declined, tally, reports, laneVars,
                 waiting, worldVars, answerVars>>

\* The model behind the onboarding engine raises, or there is no runtime.
HandshakeFails ==
  /\ bot = "greeting"
  /\ Report("failed", NoTally)

\* The model's API raises or the turns are used up: the program ends with exit
\* status 1 and without a result.
Dies ==
  /\ Thinking
  /\ Report("failed", NoTally)

\* The model's last word: the counters are the last line of stdout.
Finishes ==
  /\ Thinking
  /\ Report("completed", tally)

\* The invoices the user told this run to add.
Approved == {c.inv : c \in {d \in consents : d.run = Run}}

\* The model does as its instructions say: it reads the tracker before it adds
\* to it, asks about an invoice it finds there until it has an answer, and adds
\* that one only when the user says add.
Sensible(op, i) ==
  \/ op = "read" /\ ~hasRead
  \/ op = "append" /\ hasRead /\ i \notin told \cup declined /\ (i \in saw => i \in Approved)
  \/ op = "ask" /\ hasRead /\ i \in saw \ (told \cup declined \cup Approved)

\* One turn: some tools, run concurrently, each submits an intent.
Turn(choice) ==
  /\ Thinking
  /\ turn < MaxTurns
  /\ turn' = turn + 1
  /\ \A t \in choice : Sensible(t.op, t.inv)
  /\ waiting' = {[run |-> Run, turn |-> turn, op |-> t.op, inv |-> t.inv] : t \in choice}
  /\ wire' = wire \cup waiting'
  /\ UNCHANGED <<dashVars, policy, bot, hasRead, saw, told, declined, tally, reports, lane, acting,
                 worldVars, answerVars>>

\* The user said skip: mark_skipped, which sends no intent.
Skip(i) ==
  /\ Thinking
  /\ turn < MaxTurns
  /\ turn' = turn + 1
  /\ i \in declined \ told
  /\ told' = told \cup {i}
  /\ UNCHANGED <<dashVars, policy, bot, hasRead, saw, declined, tally, reports, laneVars, waiting,
                 worldVars, answerVars>>

Reads(c, answer) ==
  IF c.op = "read" /\ answer = "ok"
  THEN hasRead' = TRUE /\ saw' = Entered
  ELSE UNCHANGED <<hasRead, saw>>

Declines(c, answer) ==
  declined' = IF c.op = "ask" /\ answer = "skip" THEN declined \cup {c.inv} ELSE declined

Tick(happened) == IF happened THEN 1 ELSE 0

\* The counters of the append tool.
Tallied(c, answer) ==
  [processed |-> tally.processed + Tick(c.op = "append" /\ answer = "ok"),
   blocked |-> tally.blocked + Tick(c.op = "append" /\ answer = "blocked")]

\* Mutant: a result is an error unless its data is there.
WantsData(c, answer) ==
  /\ told' = IF c.op = "append" /\ answer = "blocked" THEN told \cup {c.inv} ELSE told
  /\ tally' = Tallied(c, answer)
  /\ Reads(c, answer) /\ Declines(c, answer)

\* What the tool does with the result.  After an error the model may try again.
Learns(c, answer) ==
  /\ told' = IF c.op = "append" /\ answer \in {"ok", "blocked"} THEN told \cup {c.inv} ELSE told
  /\ tally' = Tallied(c, answer)
  /\ Reads(c, answer) /\ Declines(c, answer)

\* The answer reaches a client that still waits for it.
Answer(c, answer) ==
  /\ IF c \in waiting
     THEN /\ Learns(c, answer)
          /\ inDoubt' = IF c.op = "append" /\ answer = "error" THEN inDoubt \cup {c} ELSE inDoubt
          /\ consents' = IF c.op = "ask" /\ answer = "add" THEN consents \cup {c} ELSE consents
     ELSE UNCHANGED <<told, declined, tally, hasRead, saw, answerVars>>
  /\ waiting' = waiting \ {c}
  /\ UNCHANGED <<dashVars, policy, bot, turn, reports>>

\* 120 seconds without an answer: the client raises, which the tool's caller
\* turns into an error message for the model.
GiveUp(c) ==
  /\ c \in waiting
  /\ faults < Faults
  /\ faults' = faults + 1
  /\ Answer(c, "error")
  /\ UNCHANGED <<laneVars, late, tracker, refused>>

-------------------------------------------------------------------------------
(* The runtime *)

\* A handler starts: the policy is resolved, then the lane's lock is asked for.
\* The call of the executor stops the loop, so nothing is read during it.
Arrive(c) ==
  /\ c \in wire
  /\ ~acting
  /\ wire' = wire \ {c}
  /\ lane' = Append(lane, [call |-> c, permits |-> policy])
  /\ UNCHANGED <<dashVars, policy, botVars, reports, acting, waiting, worldVars, answerVars>>

Inside == lane[1].call
Leave == lane' = Tail(lane) /\ acting' = FALSE /\ UNCHANGED wire

\* Guardians and the analysis may block what the policy permits.
Block ==
  /\ lane # <<>> /\ ~acting
  /\ Inside.op = "append"
  /\ Answer(Inside, "blocked")
  /\ Leave
  /\ refused' = refused \cup {Inside}
  /\ UNCHANGED <<late, tracker, faults>>

Allow ==
  /\ lane # <<>> /\ ~acting
  /\ Inside.op = "append" => Inside.inv \in lane[1].permits
  /\ acting' = TRUE
  /\ UNCHANGED <<dashVars, policy, botVars, reports, wire, lane, waiting, worldVars, answerVars>>

\* A dialog was answered, with add or with skip, was cancelled or is taken away
\* after two minutes: the adapter reports success for all of them.
DialogEnds ==
  /\ lane # <<>> /\ acting
  /\ Inside.op = "ask"
  /\ \E says \in {"add", "skip", "ok"} : Answer(Inside, says)
  /\ Leave
  /\ UNCHANGED worldVars

\* The executor is done: the row is written or the file is read.
Executed ==
  /\ lane # <<>> /\ acting
  /\ Inside.op # "ask"
  /\ tracker' = IF Inside.op = "append" THEN tracker \cup {Inside} ELSE tracker
  /\ Answer(Inside, "ok")
  /\ Leave
  /\ UNCHANGED <<late, refused, faults>>

\* The executor reports a failure or its client's timeout passes.  The adapter's
\* thread may still be on its way to the row.
ExecutionFails(goesOn) ==
  /\ lane # <<>> /\ acting
  /\ faults < Faults
  /\ faults' = faults + 1
  /\ goesOn => Inside.op = "append"
  /\ late' = IF goesOn THEN late \cup {Inside} ELSE late
  /\ Answer(Inside, "error")
  /\ Leave
  /\ UNCHANGED <<tracker, refused>>

WrittenLate(c) ==
  /\ c \in late
  /\ late' = late \ {c}
  /\ tracker' = tracker \cup {c}
  /\ UNCHANGED <<dashVars, policy, botVars, reports, laneVars, waiting, answerVars, refused, faults>>

-------------------------------------------------------------------------------
Dashboard == Register \/ Install \/ InstallFails \/ Launch \/ Timeout
Bot ==
  \/ Handshake \/ HandshakeFails \/ Dies \/ Finishes
  \/ \E n \in 1..Parallel : \E choice \in kSubset(n, Tool) : Turn(choice)
  \/ \E i \in Invoice : Skip(i)
  \/ \E c \in waiting : GiveUp(c)
Runtime ==
  \/ \E c \in wire : Arrive(c)
  \/ Block \/ Allow \/ DialogEnds \/ Executed
  \/ \E goesOn \in BOOLEAN : ExecutionFails(goesOn)
  \/ \E c \in late : WrittenLate(c)

Next == Dashboard \/ Bot \/ Runtime

Spec == Init /\ [][Next]_vars

-------------------------------------------------------------------------------
(* The counters a completed run prints are what the runtime did for it: as many
   processed as rows that its calls wrote and as many blocked as it was refused,
   except the calls whose answer the bot never got.  Runner._parse_result hands
   them to the operator as the outcome. *)
TallyIsTrue ==
  \A r \in DOMAIN reports :
    reports[r].status = "completed" =>
      /\ reports[r].tally.processed = Cardinality({c \in tracker \ inDoubt : c.run = r})
      /\ reports[r].tally.blocked = Cardinality({c \in refused \ inDoubt : c.run = r})

(* An invoice is entered once for all runs together, plus once at most for each
   question about it that the user answered with add, and for each append that
   was given up, killed or reported as failed although the runtime or an
   adapter's thread carried it out. *)
TwiceForAReason ==
  \A i \in Invoice :
    Cardinality(Rows(i)) <= 1 + Cardinality({c \in consents : c.inv = i})
                              + Cardinality({c \in inDoubt \cap tracker : c.inv = i})

(* The three together: what the operator is told and what was entered can be
   told apart only by the calls in doubt, and nothing is entered twice on the
   bot's own account. *)
RunsAccounted == RunsTypeOK /\ TallyIsTrue /\ TwiceForAReason

(* Bot, lane, dialog and dashboard wait for one another, and nothing waits for
   ever: all configurations are run and what dead bots had sent is served. *)
RunsEnd == <>[](stage = "over" /\ wire = {} /\ lane = <<>>)
===============================================================================
