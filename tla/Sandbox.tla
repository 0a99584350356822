-------------------------------- MODULE Sandbox --------------------------------
(***************************************************************************)
(* The macOS sandbox of RUN_COMMAND: the planner that turns the executor's  *)
(* configuration into a plan, the profile generated from the plan, and how  *)
(* Seatbelt reads a profile: the last rule that matches decides.            *)
(* A path is one of a few places; Below says which lie under which.         *)
(***************************************************************************)
EXTENDS Naturals, Sequences, SequencesExt, FiniteSetsExt

(* TEMPLATE_ORDER, from the narrowest.                                      *)
Order == <<"pure_compute", "file_read_only", "file_read_write",
           "network_outbound", "network_full", "unrestricted">>
Rank(t) == CHOOSE i \in DOMAIN Order : Order[i] = t

(* TEMPLATE_CAPABILITIES: what each template is for.                        *)
Grants(t) ==
  UNION {CASE i = 1 -> {} [] i = 2 -> {"read"} [] i = 3 -> {"write"} [] i = 4 -> {"outbound"}
           [] i = 5 -> {"bind"} [] i = 6 -> {"signal"} : i \in 1..Rank(t)}

(* Places: the sandbox's own temporary directory, the home directory with   *)
(* the runtime's own directory, the login items and the executor's Python   *)
(* environment in it, the system, the device files, the rest.               *)
Location == {"/tmp/intentframe", "~", "~/.intentframe", "~/Library/LaunchAgents", "~/venv", "/usr", "/else"}
InHome == {"~", "~/.intentframe", "~/Library/LaunchAgents", "~/venv"}
Below(p) == CASE p = "~" -> InHome [] p = "/" -> Location [] OTHER -> {p}

DenyWrite == {"/usr", "~/Library/LaunchAgents"}
DenyAccess == {"~/.intentframe"}

-----------------------------------------------------------------------------
(* SandboxPlanner.                                                          *)

(* _resolve_template: the broadest that the configuration allows.           *)
Template(allowed) ==
  IF allowed = {} THEN "file_read_only" ELSE Order[Max({Rank(t) : t \in allowed})]

(* _find_deny_collision.                                                    *)
Collides(venv) == \E d \in DenyAccess : venv \in Below(d)

(* resolve_executor_venv_path: a configured path, or one in the home of the *)
(* owner, whom a bare root process does not know.                           *)
Resolved(cfg) ==
  IF cfg.python = "" THEN IF cfg.owner THEN "~/venv" ELSE "none"
  ELSE IF cfg.python = "relative" \/ (cfg.python \in InHome /\ ~cfg.owner) THEN "none"
  ELSE cfg.python

(* _resolve_executor_venv.                                                  *)
Venv(cfg) ==
  LET path == Resolved(cfg)
  IN IF path # "none" /\ cfg.usable /\ ~Collides(path) THEN path ELSE "none"

(* What a configuration of the executor and its machine may say of the      *)
(* paths; the rest is free.                                                 *)
IsSetup(cfg) ==
  /\ cfg.allowed \subseteq ToSet(Order)
  /\ IsFiniteSet(cfg.writes) /\ cfg.writes \subseteq Location \cup {"/"}
  /\ cfg.python \in Location \cup {"", "relative"}

(* plan: the write paths of the configuration, and the working directory.   *)
Plan(cfg, wd) ==
  [template |-> Template(cfg.allowed), writes |-> cfg.writes \cup {wd}, venv |-> Venv(cfg),
   escalate |-> cfg.escalate]

-----------------------------------------------------------------------------
(* The profile: allow or deny, of some operations, at some places.          *)

Operation == {"read", "write", "outbound", "bind", "signal"}
Rule(allow, ops, places) == [allow |-> allow, ops |-> ops, places |-> places]

Essential == <<Rule(FALSE, Operation, Location),
               Rule(TRUE, {"read"}, Location),
               Rule(TRUE, {"write"}, {"/tmp/intentframe"})>>

TemplateRules(t) ==
  (IF Rank(t) >= 4 THEN <<Rule(TRUE, {"outbound"}, Location)>> ELSE <<>>)
  \o (IF Rank(t) >= 5 THEN <<Rule(TRUE, {"bind"}, Location)>> ELSE <<>>)
  \o (IF Rank(t) >= 6 THEN <<Rule(TRUE, Operation, Location)>> ELSE <<>>)

WriteRules(plan) ==
  IF Rank(plan.template) <= 2 THEN <<>>
  ELSE SetToSeq({Rule(TRUE, {"write"}, Below(p)) : p \in plan.writes})

DenyRules == SetToSeq({Rule(FALSE, {"write"}, Below(p)) : p \in DenyWrite})
             \o SetToSeq({Rule(FALSE, {"read", "write"}, Below(p)) : p \in DenyAccess})

(* Mutant: the rules that must win are not the last.                        *)
DeniesFirst(plan) == Essential \o TemplateRules(plan.template) \o DenyRules \o WriteRules(plan)

(* generate_sandbox_profile: the order is what makes the denials hold.      *)
Profile(plan) == Essential \o TemplateRules(plan.template) \o WriteRules(plan) \o DenyRules

(* Seatbelt.                                                                *)
Covers(rule, op, place) == op \in rule.ops /\ place \in rule.places

Permits(profile, op, place) ==
  \E i \in DOMAIN profile :
    /\ profile[i].allow /\ Covers(profile[i], op, place)
    /\ \A j \in DOMAIN profile : j > i => ~Covers(profile[j], op, place)
===============================================================================
