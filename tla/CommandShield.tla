----------------------------- MODULE CommandShield -----------------------------
(***************************************************************************)
(* command_shield: what inspect_command reports of a shell command, what    *)
(* quick_check does, and the reference both are held to, what /bin/sh would *)
(* do with the command.                                                     *)
(*                                                                          *)
(* A command is one or two parts, each a sequence of words, a joint between *)
(* them and an ending.  A word stands for its class: "cat" for the heads of *)
(* the read-only rules, "kill", "security", "npm" and "xargs" for the words *)
(* that the rules of one capability family match, "wipe" for a text that a  *)
(* CATASTROPHIC pattern matches, "wipe'" for one that matches once a level  *)
(* of quotes is gone, "'cat f'" for a quoted command inside a command,      *)
(* "'it's'" for a quoted word with an apostrophe of its own.  "$(" opens a  *)
(* substitution written with blanks, which takes the rest of its part and   *)
(* ends in ")"; "$(c)" is one without.                                      *)
(***************************************************************************)
EXTENDS Naturals, Sequences, SequencesExt, FiniteSetsExt

Interpreter == {"bash", "python", "node"}
InlineFlag == {"-c"}
Flag == {"-x", "-c"}
ShellToken == {"|", "&", "&&", ";", ">"}
Joiner == {"|", "&&", ";"}

(* A command as the shell reads it: its parts are simple commands, joined   *)
(* by an operator.  bashlex and shlex may both read the text ("parsed"),    *)
(* bashlex only ("remark": an apostrophe in a comment), shlex only ("odd"), *)
(* or neither ("broken": a quote left open).                                *)
IsCommand(c) ==
  /\ c.parts \in Seq(Seq(STRING) \ {<<>>}) /\ Len(c.parts) \in {1, 2}
  /\ c.joint \in {""} \cup ShellToken
  /\ c.ends \in {"", ">", "&"}
  /\ c.grammar \in {"parsed", "remark", "odd", "broken"}
  /\ c.grammar # "broken" => \A i \in DOMAIN c.parts : "it's" \notin ToSet(c.parts[i])

(* One level of quotes taken away.                                          *)
Unquote(w) ==
  CASE w = "wipe''" -> "wipe'" [] w = "wipe'" -> "wipe" [] w = "s'ecurity" -> "security"
    [] w = "'it's'" -> "it's" [] OTHER -> w

(* The words of a quoted command.                                           *)
Inner(w) ==
  CASE w = "'cat f'" -> <<"cat", "f">>
    [] w = "'security f'" -> <<"security", "f">>
    [] w = "'s'ecurity f'" -> <<"s'ecurity", "f">>
    [] w = "'source f'" -> <<"source", "f">>
    [] w = "'eval f'" -> <<"eval", "f">>
    [] OTHER -> <<w>>

(* Every word a regular expression that is not anchored can find.           *)
Text(ws) == UNION {ToSet(Inner(ws[i])) : i \in DOMAIN ws}

Ending(c) == CASE c.ends = ">" -> <<">", "f">> [] c.ends = "&" -> <<"&">> [] OTHER -> <<>>
Raw(c) ==
  (IF Len(c.parts) = 1 THEN c.parts[1] ELSE c.parts[1] \o <<c.joint>> \o c.parts[2]) \o Ending(c)

(* shlex.split, and normalize: the words joined again with one space, or    *)
(* the text as it is if a quote in it is not closed.                        *)
Shlex(ws) == [i \in DOMAIN ws |-> Unquote(ws[i])]
Normalize(ws) == IF "it's" \in ToSet(ws) THEN ws ELSE Shlex(ws)
Normal(c) == IF c.grammar \in {"broken", "remark"} THEN Raw(c) ELSE Shlex(Raw(c))

(* shlex can split the normal form of the command once more.                *)
Splits(c) == c.grammar \notin {"broken", "remark"} /\ "it's" \notin ToSet(Normal(c))

(* bashlex keeps a substitution as one word, with the quotes inside it.     *)
Inside(ws, i) == \E j \in 1..i : ws[j] = "$("
Parsed(ws) == [i \in DOMAIN ws |-> IF Inside(ws, i) THEN ws[i] ELSE Unquote(ws[i])]

-----------------------------------------------------------------------------
(* The patterns and the decomposition.                                      *)

Catastrophic(ws) == "wipe" \in Text(ws)
Rated(ws) == Text(ws) \cap {"wipe", "rated"} # {}

(* _Visitor._check_indirection: an interpreter at the head, an inline flag  *)
(* at any place behind it.                                                  *)
VisitorPayloads(ws) ==
  LET at == {i \in 2..(Len(ws) - 1) : ws[i] \in InlineFlag /\ ~Inside(ws, i)}
  IN IF Len(ws) >= 3 /\ ws[1] \in Interpreter /\ at # {} THEN {ws[Min(at) + 1]} ELSE {}

(* The token scan of _shlex_fallback and quick_check: an interpreter        *)
(* anywhere, the flag right behind it.                                      *)
AdjacentPayloads(ws) ==
  {ws[i + 2] : i \in {j \in 1..(Len(ws) - 2) : ws[j] \in Interpreter /\ ws[j + 1] \in InlineFlag}}

(* decompose: bashlex where it can parse, shlex where it cannot.            *)
Decompose(c) ==
  IF c.grammar \in {"parsed", "remark"}
  THEN LET subs == {Parsed(c.parts[i]) : i \in DOMAIN c.parts} IN
       [subs |-> subs, count |-> Len(c.parts),
        dynamic |-> \E s \in subs : ToSet(s) \cap {"$v", "$(c)", "$("} # {},
        failed |-> FALSE,
        payloads |-> UNION {VisitorPayloads(s) : s \in subs}]
  ELSE [subs |-> {Normal(c)}, count |-> 1, dynamic |-> FALSE, failed |-> TRUE,
        payloads |-> AdjacentPayloads(Normal(c))]

PayloadIsCatastrophic(p) == Catastrophic(<<Unquote(p)>>) \/ Catastrophic(<<p>>)

(* Steps 3 and 4: the whole text, each sub-command, each payload.           *)
FoundCatastrophic(c) ==
  \/ Catastrophic(Normal(c)) \/ Catastrophic(Raw(c))
  \/ \E s \in Decompose(c).subs : Catastrophic(Normalize(s))
  \/ \E p \in Decompose(c).payloads : PayloadIsCatastrophic(p)

(* quick_check, the executor's floor: its tokens are those of the whole     *)
(* text, in a substitution too.                                             *)
Quick(c) ==
  /\ c.size # "large"
  /\ \/ Catastrophic(Normal(c)) \/ Catastrophic(Raw(c))
     \/ \E p \in AdjacentPayloads(Normal(c)) : PayloadIsCatastrophic(p)

-----------------------------------------------------------------------------
(* Capabilities.  A tag is <<family>> or <<family, suffix>>.                *)

WordTag(w) ==
  CASE w = "kill" -> {<<"process_signal">>}
    [] w = "xargs" -> {<<"spawns_process">>}
    [] w = "security" -> {<<"data_read", "credential_material">>}
    [] w = "npm" -> {<<"package_install", "npm">>}
    [] OTHER -> {}

PipedInto(ws) == {ws[i + 1] : i \in {j \in 1..(Len(ws) - 1) : ws[j] = "|"}} \cap Interpreter
PipeTags(ws) ==
  IF PipedInto(ws) = {} THEN {}
  ELSE {<<"stdin_exec">>} \cup {<<"stdin_exec", w>> : w \in PipedInto(ws)}
       \cup (IF "curl" \in Text(ws) THEN {<<"download_and_exec">>} ELSE {})

ScriptTags(ws) ==
  {<<"script_execution", ws[i]>> :
     i \in {j \in DOMAIN ws : /\ ws[j] \in Interpreter
                              /\ \E k \in (j + 1)..Len(ws) :
                                   ws[k] = "f.sh" /\ \A b \in j..k : ws[b] \notin ShellToken}}

EndTags(ws) ==
  (IF ">" \in ToSet(ws) THEN {<<"filesystem_write">>} ELSE {})
  \cup (IF ws # <<>> /\ Last(ws) = "&" THEN {<<"background_exec">>} ELSE {})

RuleTags(ws) ==
  (UNION {WordTag(w) : w \in Text(ws)}) \cup PipeTags(ws) \cup ScriptTags(ws) \cup EndTags(ws)

(* The loop over _RULES: the command, its sub-commands, its payloads.       *)
Emitted(c) ==
  RuleTags(Normal(c))
  \cup (UNION {RuleTags(s) : s \in Decompose(c).subs})
  \cup (UNION {RuleTags(Inner(p)) : p \in Decompose(c).payloads})

(* _normalize_trusted_head.                                                 *)
TrustedHead(ws) == IF ws # <<>> /\ ws[1] = "/bin/cat" THEN <<"cat">> \o Tail(ws) ELSE ws

(* _READ_ONLY_RULES: a reader and at least one argument, of any shape.      *)
ReadOnlyRule(ws) == LET t == TrustedHead(ws) IN Len(t) >= 2 /\ t[1] = "cat"

IsSafeCd(ws) == ws # <<>> /\ ws[1] = "cd" /\ (Len(ws) = 1 \/ (Len(ws) = 2 /\ ws[2] \notin {"*", "$v", "$(c)", "f>g", "it's"}))

SubCommandMatches(ws) ==
  LET t == TrustedHead(ws)
  IN ReadOnlyRule(ws) \/ (t # <<>> /\ t[1] = "cat" /\ \A i \in 2..Len(t) : t[i] \in Flag)

(* _DYNAMIC_STRUCTURAL_IDS.                                                 *)
Undecided(d) == d.dynamic \/ d.failed \/ d.payloads # {}

StructurallyBare(c) ==
  LET d == Decompose(c) IN
  /\ ~Undecided(d) /\ d.count = 1 /\ Splits(c)
  /\ ToSet(Normal(c)) \cap ShellToken = {}

Incompatible(tags) ==
  \E t \in tags :
    t[1] \in {"stdin_exec", "filesystem_write", "spawns_process", "network_bind", "background_exec",
              "download_and_exec", "binary_download", "process_signal", "compilation",
              "package_install", "script_execution", "data_read", "system_mutate", "network_exfil"}

SafeForReadOnly(c) == StructurallyBare(c) /\ ~Incompatible(Emitted(c))

(* Mutant: every segment but one may do what it likes.                      *)
CompositionOfOne(c) ==
  LET d == Decompose(c) IN
  /\ ~Undecided(d) /\ d.count >= 2 /\ Splits(c)
  /\ ~Incompatible(Emitted(c))
  /\ ToSet(Normal(c)) \cap (ShellToken \ Joiner) = {}
  /\ \E s \in d.subs : IsSafeCd(s) \/ SubCommandMatches(s)

CompositionReadOnly(c) ==
  LET d == Decompose(c) IN
  /\ ~Undecided(d) /\ d.count >= 2 /\ Splits(c)
  /\ ~Incompatible(Emitted(c))
  /\ ToSet(Normal(c)) \cap (ShellToken \ Joiner) = {}
  /\ \A s \in d.subs : IsSafeCd(s) \/ SubCommandMatches(s)

ReadOnlyTags(c) ==
  IF SafeForReadOnly(c) THEN IF ReadOnlyRule(Normal(c)) THEN {<<"read_only", "filesystem_read">>} ELSE {}
  ELSE IF CompositionReadOnly(c) THEN {<<"read_only", "composition">>} ELSE {}

(* _safe_for_network_probe: the tags that forbid read_only do not matter.   *)
SafeForProbe(c) == StructurallyBare(c)

ProbeTags(c) ==
  IF SafeForProbe(c) /\ Normal(c)[1] = "curl" THEN {<<"network_probe", "http_get">>} ELSE {}

(* classify_capabilities.                                                   *)
Capabilities(c) == Emitted(c) \cup ReadOnlyTags(c) \cup ProbeTags(c)

-----------------------------------------------------------------------------
(* Edges to other code, and what is inspected of it.                        *)

(* The flag and the body of an interpreter at i, if only flags stand        *)
(* between them.                                                            *)
InlineBody(ws, i) ==
  LET at == {j \in (i + 1)..(Len(ws) - 1) :
               ws[j] \in InlineFlag /\ \A k \in (i + 1)..(j - 1) : ws[k] \in Flag \ InlineFlag}
  IN IF at = {} THEN 0 ELSE Min(at) + 1

Positional(ws, i) ==
  LET at == {j \in (i + 1)..Len(ws) : ws[j] \notin Flag} IN IF at = {} THEN 0 ELSE Min(at)

(* _extract_from_tokens: left to right, past what an edge has used.         *)
Edges(ws) ==
  LET walk[i \in 1..(Len(ws) + 2)] ==
        IF i > Len(ws) THEN {}
        ELSE IF ws[i] = "source" /\ i < Len(ws)
             THEN {[kind |-> IF ws[i + 1] \in {"$v", "$(c)", "$(", "*"} THEN "dynamic" ELSE "referenced",
                    lang |-> "bash", body |-> ""]} \cup walk[i + 2]
        ELSE IF ws[i] \notin Interpreter THEN walk[i + 1]
        ELSE LET b == InlineBody(ws, i) p == Positional(ws, i) IN
             IF b # 0 THEN {[kind |-> "inline", lang |-> ws[i], body |-> ws[b]]} \cup walk[b + 1]
             ELSE IF p = 0 THEN {[kind |-> "interactive", lang |-> ws[i], body |-> ""]} \cup walk[i + 1]
             ELSE {[kind |-> IF ws[p] \in {"$v", "$(c)", "$(", "*"} THEN "dynamic" ELSE "referenced",
                    lang |-> ws[i], body |-> ""]} \cup walk[p + 1]
  IN walk[1]

(* extract_edges: the command's own, its pipes into interpreters, and the   *)
(* edges of each payload.                                                   *)
AllEdges(c) ==
  Edges(Normal(c))
  \cup {[kind |-> "piped_stdin", lang |-> w, body |-> ""] : w \in PipedInto(Raw(c))}
  \cup (UNION {Edges(Shlex(Inner(p))) : p \in Decompose(c).payloads})

(* detect_language and _language_in_scope: {"python", "shell"}.             *)
LanguageInScope(c) == Normal(c)[1] # "node"

(* analyze_shell_code: a regular expression on the text of the body.        *)
ShellFindings(body) == {body} \cap {"'eval f'"}

(* analyze_python_code: a call of a dangerous name, or text that does not   *)
(* parse as Python, which a shell command does not.                         *)
PythonFindings(body) == {body}

(* inspect_code by the language of the edge, if it is one of the two.       *)
InspectCode(e) ==
  CASE e.lang = "bash" -> ShellFindings(e.body)
    [] e.lang = "python" -> PythonFindings(e.body)
    [] OTHER -> {}

(* Step 9: the bodies that stand in the command itself.                     *)
Findings(c) ==
  UNION {InspectCode(e) : e \in {x \in AllEdges(c) : LanguageInScope(c) /\ x.kind = "inline"}}

-----------------------------------------------------------------------------
(* inspect_command.                                                         *)

Report(verdict, caps, edges, found) ==
  [verdict |-> verdict, caps |-> caps, edges |-> edges, found |-> found]

(* _final_verdict: patterns, structure and indirection, nothing else.       *)
FinalVerdict(c) ==
  LET d == Decompose(c) IN
  IF \/ Undecided(d) \/ Rated(Normal(c)) \/ Rated(Raw(c))
     \/ \E s \in d.subs : Rated(Normalize(s)) \/ \E p \in d.payloads : Rated(<<p>>)
  THEN "NEEDS_REVIEW" ELSE "SAFE"

Inspect(c) ==
  IF c.size = "large" THEN Report("SAFE", {}, FALSE, FALSE)
  ELSE IF FoundCatastrophic(c) THEN Report("CATASTROPHIC", {}, FALSE, FALSE)
  ELSE Report(FinalVerdict(c), Capabilities(c), AllEdges(c) # {}, Findings(c) # {})

-----------------------------------------------------------------------------
(* The reference: what the shell does.  "any" is code nobody has read.  A   *)
(* text with a quote left open it does not run.                             *)

Deed(w) ==
  CASE w \in {"cat", "/bin/cat"} -> {"read"} [] w = "cd" -> {}
    [] w = "curl" -> {"net"} [] w = "kill" -> {"signal"}
    [] w = "security" -> {"read", "secret"} [] w = "npm" -> {"net", "write"}
    [] w = "rated" -> {"write"} [] w = "wipe" -> {"write", "wipe"}
    [] OTHER -> {"any"}

(* The simple command at i: what its head does, or what the text does that  *)
(* it hands to a shell.                                                     *)
RunsAt(u, i) ==
  LET body == IF u[i] = "bash" THEN InlineBody(u, i) ELSE 0
  IN IF body # 0 THEN Deed(Unquote(Inner(u[body])[1])) ELSE Deed(u[i])

Runs(ws) ==
  LET u == Shlex(ws)
      opens == {i \in DOMAIN u : u[i] = "$(" /\ i < Len(ws)}
  IN RunsAt(u, 1) \cup (UNION {RunsAt(u, i + 1) : i \in opens})
     \cup (IF "$(c)" \in ToSet(u) THEN {"any"} ELSE {})
     \cup (IF "f>g" \in ToSet(u) THEN {"write"} ELSE {})

Effects(c) ==
  IF c.grammar = "broken" THEN {} ELSE
  (UNION {Runs(c.parts[i]) : i \in DOMAIN c.parts}) \cup (IF c.ends = ">" THEN {"write"} ELSE {})

(* A redirection written without a space before it: to shlex a part of the  *)
(* word, to the shell a redirection.                                        *)
Glued(c) == \E i \in DOMAIN c.parts : "f>g" \in ToSet(c.parts[i])

(* Where quick_check looks into a text that the inspection does not: in a   *)
(* substitution, and in a sub-command whose quotes do not close once a      *)
(* level of them is gone.                                                   *)
Apart(c) == \E i \in DOMAIN c.parts : ToSet(c.parts[i]) \cap {"$(", "'it's'"} # {}

(* A command whose own words the rules do not see: quoted within the text   *)
(* that it hands to an interpreter, or within a substitution in a text that *)
(* shlex cannot split.                                                      *)
Veiled(c) ==
  \E i \in DOMAIN c.parts :
    \/ \E w \in ToSet(c.parts[i]) : \E v \in ToSet(Inner(Unquote(w))) : Unquote(v) # v
    \/ c.grammar = "remark" /\ "$(" \in ToSet(c.parts[i])
===============================================================================
