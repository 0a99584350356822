----------------------------- MODULE TerminalPath ------------------------------
(***************************************************************************)
(* One RUN_COMMAND intent from the bundle's gates to the process it starts: *)
(* the evidence, the constraints, the fast path, the judgement of the two   *)
(* models (which may go either way), then the executor's adapter with its   *)
(* own floor and the sandbox, then the process, which outlives a timeout.   *)
(***************************************************************************)
EXTENDS CommandShield, Sandbox

CONSTANT Case   \* the intents with the policy and the configuration they meet

(* Any words, any policy: only the shape of a command and the paths of a    *)
(* configuration are given.                                                 *)
ASSUME CaseAssumption ==
  \A k \in Case : IsCommand(k.cmd) /\ IsSetup(k.setup) /\ k.wd \in Location \cup {"/"}

VARIABLES
  cmd, wd,      \* the intent: its command, and the working directory it asks for
  limits,       \* the permission's constraints
  sandbox,      \* the executor's sandbox configuration and its machine
  via,          \* "guardian", or "direct": a request no guardian has seen
  phase,        \* evidence, constraints, gates, judge, adapter, waits, or the outcome
  intel,        \* CommandIntel, once there is any
  how,          \* what permitted the command
  profile,      \* the profile the process runs under: <<>> outside the sandbox
  proc,         \* "none", "runs" or "gone"
  did           \* what the process did last

intent == <<cmd, wd, limits, sandbox, via>>
terminalVars == <<intent, phase, intel, how, profile, proc, did>>

Nothing == [op |-> "none", place |-> "none"]
Outcome == {"blocked", "refused", "floor", "error", "done", "failed", "timeout"}

-----------------------------------------------------------------------------
(* The bundle.                                                              *)

(* _capability_match.matches: a tag, or every tag of a family.              *)
Matches(tag, pattern) ==
  tag = pattern \/ (Len(pattern) = 2 /\ pattern[2] = "*" /\ Len(tag) = 2 /\ tag[1] = pattern[1])

AnyMatches(tags, patterns) == \E t \in tags, p \in patterns : Matches(t, p)

(* run_terminal_pre_pipeline and prepare_evidence.                          *)
PrepareEvidence ==
  /\ phase = "evidence"
  /\ LET report == Inspect(cmd) IN
     IF report.verdict = "CATASTROPHIC"
     THEN phase' = "blocked" /\ UNCHANGED intel
     ELSE phase' = "constraints" /\ intel' = report
  /\ UNCHANGED <<intent, how, profile, proc, did>>

(* _check_constraints: the blocked patterns, the denied tags, the allowed   *)
(* commands, the allowed tags.                                              *)
MeetsConstraints ==
  /\ "wipe" \notin Text(Raw(cmd))
  /\ ~AnyMatches(intel.caps, limits.deny)
  /\ limits.commands # {} => Raw(cmd)[1] \in limits.commands
  /\ limits.allow # {} => \A t \in intel.caps : AnyMatches({t}, limits.allow)

(* enforce_constraints: a permission without constraints is not checked.    *)
EnforceConstraints ==
  /\ phase = "constraints"
  /\ phase' = IF ~limits.constrained \/ MeetsConstraints THEN "gates" ELSE "blocked"
  /\ UNCHANGED <<intent, intel, how, profile, proc, did>>

(* is_read_only_fast_path.                                                  *)
FastPath ==
  /\ intel.verdict = "SAFE"
  /\ \E t \in intel.caps : t[1] = "read_only"
  /\ \A t \in intel.caps : t[1] \notin {"filesystem_write", "stdin_exec", "network_bind",
       "background_exec", "download_and_exec", "process_signal", "spawns_process",
       "network_probe", "data_read", "system_mutate"}
  /\ ~AnyMatches(intel.caps, limits.deny)
  /\ ~intel.edges /\ ~intel.found

AllowGates ==
  /\ phase = "gates"
  /\ IF FastPath THEN phase' = "adapter" /\ how' = "fast path"
                 ELSE phase' = "judge" /\ UNCHANGED how
  /\ UNCHANGED <<intent, intel, profile, proc, did>>

(* The analysis and the guardian model: either answer.                      *)
Judge ==
  /\ phase = "judge"
  /\ \/ phase' = "adapter" /\ how' = "judged"
     \/ phase' = "blocked" /\ UNCHANGED how
  /\ UNCHANGED <<intent, intel, profile, proc, did>>

-----------------------------------------------------------------------------
(* TerminalAdapter.                                                         *)

(* __init__: a required interpreter that is not usable keeps the adapter    *)
(* from loading.                                                            *)
Loads == sandbox.enabled /\ sandbox.available /\ sandbox.required => Venv(sandbox) # "none"

(* wrap raises when the configuration and the machine want sudo and there   *)
(* is none.                                                                 *)
WrapRaises == sandbox.escalate /\ sandbox.armed /\ ~sandbox.sudo

Refuse(outcome) == phase' = outcome /\ UNCHANGED <<profile, proc>>

(* execute, up to the process.                                              *)
Execute ==
  /\ phase = "adapter"
  /\ IF ~Loads THEN Refuse("refused")
     ELSE IF Quick(cmd) THEN Refuse("floor")
     ELSE IF sandbox.enabled /\ ~sandbox.available THEN Refuse("refused")
     ELSE IF sandbox.enabled /\ WrapRaises THEN Refuse("error")
     ELSE /\ phase' = "waits" /\ proc' = "runs"
          /\ profile' = IF sandbox.enabled THEN Profile(Plan(sandbox, wd)) ELSE <<>>
  /\ UNCHANGED <<intent, intel, how, did>>

Wants ==
  LET e == Effects(cmd)
  IN (IF "any" \in e THEN Operation ELSE {})
     \cup (IF e \cap {"read", "secret"} # {} THEN {"read"} ELSE {})
     \cup (IF e \cap {"write", "wipe"} # {} THEN {"write"} ELSE {})
     \cup (IF "net" \in e THEN {"outbound"} ELSE {})
     \cup (IF "signal" \in e THEN {"signal"} ELSE {})

(* The process does one thing its command leads to, if the kernel lets it.  *)
Does ==
  /\ proc = "runs"
  /\ \E op \in Wants, place \in Location :
       /\ profile # <<>> => Permits(profile, op, place)
       /\ did' = [op |-> op, place |-> place]
  /\ UNCHANGED <<intent, phase, intel, how, profile, proc>>

Ends ==
  /\ proc = "runs"
  /\ proc' = "gone"
  /\ phase' \in IF phase = "waits" THEN {"done", "failed"} ELSE {phase}
  /\ UNCHANGED <<intent, intel, how, profile, did>>

(* wait_for gives up; nothing stops the process.                            *)
TimesOut ==
  /\ phase = "waits"
  /\ phase' = "timeout"
  /\ UNCHANGED <<intent, intel, how, profile, proc, did>>

-----------------------------------------------------------------------------
TerminalInit ==
  /\ \E k \in Case : cmd = k.cmd /\ wd = k.wd /\ limits = k.policy /\ sandbox = k.setup
  /\ via \in {"guardian"} \cup (IF limits.constrained THEN {} ELSE {"direct"})   \* no policy applies to it
  /\ phase = IF via = "guardian" THEN "evidence" ELSE "adapter"
  /\ intel = Report("SAFE", {}, FALSE, FALSE)
  /\ how = "nothing" /\ profile = <<>> /\ proc = "none" /\ did = Nothing

TerminalNext ==
  \/ PrepareEvidence \/ EnforceConstraints \/ AllowGates \/ Judge
  \/ Execute \/ Does \/ Ends \/ TimesOut

TerminalSpec == TerminalInit /\ [][TerminalNext]_terminalVars

-----------------------------------------------------------------------------
(* Properties: what the way of a command through the shield, the bundle and *)
(* the sandbox must keep, stated against the effects of the command itself. *)

(* The variables hold what the code can put there.                          *)
TerminalTypeOK ==
  /\ via \in {"guardian", "direct"}
  /\ phase \in {"evidence", "constraints", "gates", "judge", "adapter", "waits"} \cup Outcome
  /\ intel.verdict \in {"SAFE", "NEEDS_REVIEW"} /\ intel.edges \in BOOLEAN /\ intel.found \in BOOLEAN
  /\ how \in {"nothing", "fast path", "judged"}
  /\ proc \in {"none", "runs", "gone"}
  /\ did \in [op : Operation \cup {"none"}, place : Location \cup {"none"}]

(* A command that no model has judged does nothing but read                 *)
(* (_composition_is_all_read_only and is_read_only_fast_path).  The one     *)
(* exception is a redirection glued to its word, which neither the token    *)
(* check (classifier.py:1284) nor the rule of filesystem_write finds.       *)
LicenseIsEarned == how = "fast path" => Effects(cmd) \subseteq {"read"} \/ Glued(cmd)

(* What a policy denies by capability no process it let through does: a     *)
(* denied secret read is not hidden by a joint, a payload, a substitution   *)
(* or a pipe.  Not held to it: a command too long to inspect, which has no  *)
(* capabilities (pipeline.py:154), and one that is quoted within the text   *)
(* it gives an interpreter: the rules see that text as it is                *)
(* (pipeline.py:254, classifier.py:1147).                                   *)
DenialsHold ==
  (/\ via = "guardian" /\ proc # "none" /\ limits.constrained
   /\ cmd.size # "large" /\ ~Veiled(cmd)
   /\ limits.deny \cap {<<"data_read", "credential_material">>, <<"data_read", "*">>} # {})
  => "secret" \notin Effects(cmd)

(* The executor's floor never refuses what the guardian's own inspection    *)
(* let pass: two implementations of one check (quick.py, pipeline.py).      *)
(* They do part where quick_check's tokens reach into a substitution, or    *)
(* where a sub-command has an apostrophe left over (quick.py:90,            *)
(* structural.py:61 and 175).                                               *)
FloorAgrees == via = "guardian" /\ phase = "floor" => Apart(cmd)

(* The interpreter that the planner names can be read under the profile it  *)
(* is started with (planner.py:174: the collision check at start-up).       *)
PythonRuns ==
  profile # <<>> /\ Venv(sandbox) # "none" => Permits(profile, "read", Venv(sandbox))

(* What holds of a command at every step: its licence, the denials of the   *)
(* policy, the agreement of the two inspections and the interpreter.        *)
TerminalSafe == TerminalTypeOK /\ LicenseIsEarned /\ DenialsHold /\ FloorAgrees /\ PythonRuns

(* Whatever a sandboxed process does lies in what its template is for, and  *)
(* never in a place that is denied under every template; also after the     *)
(* executor has given up on it.                                             *)
Scope(d) ==
  LET t == Template(sandbox.allowed) IN
  /\ d.place \in DenyAccess => d.op \notin {"read", "write"}
  /\ d.place \in DenyWrite => d.op # "write"
  /\ d.op \in Grants(t) \/ d.op = "read" \/ d = [op |-> "write", place |-> "/tmp/intentframe"]
  /\ d.op = "write" /\ t # "unrestricted" =>
       d.place = "/tmp/intentframe" \/ \E p \in sandbox.writes \cup {wd} : d.place \in Below(p)
ScopeIsKept == [][sandbox.enabled /\ did' # did => Scope(did')]_terminalVars
===============================================================================
