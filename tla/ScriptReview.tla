----------------------------- MODULE ScriptReview ------------------------------
(***************************************************************************)
(* inspect_command_deep on a command that hands code to an interpreter: the *)
(* code that stands in the command, the script it names, which is read only *)
(* when the caller has given a session, the analysis of either, and the     *)
(* review by a model.                                                       *)
(*                                                                          *)
(* Code stands for what it does: "os_call" calls os.system, "import_parent" *)
(* imports http.server by its parent, "eval" is the shell's.                *)
(***************************************************************************)
EXTENDS Naturals, Sequences, SequencesExt

CONSTANT Inspection   \* the commands, with the files, the sessions and the configurations they meet

VARIABLES
  call,       \* the command: head, inline, script, session, rich, llm
  stage,      \* "edges", "script", "gate" or "done"
  signals,    \* what the report says of the edges
  nodes,      \* the resolved nodes: what stands in the command, what was found
  reviewer    \* "idle", "ran" or "failed"

reviewVars == <<call, stage, signals, nodes, reviewer>>

AllowedLanguages == {"python", "shell"}     \* allowed_languages
NoCode == "none"

PythonCode ==
  {"import", "import_parent", "builtin", "os_call", "os_alias", "signal_call", "bind",
   "open_system", "open_dynamic", "remove", "ref", "harmless"}
ShellCode == {"eval", "source_url", "dot_url", "chown", "redirect", "pipes", "shell_ref", "plain"}

ASSUME InspectionAssumption == \A c \in Inspection : c.script.code \in PythonCode \cup ShellCode

-----------------------------------------------------------------------------
(* What a file is taken for.                                                *)

(* language_from_content: at least two patterns, and no tie.                *)
ByContent(file) == IF file.text = "unclear" THEN "unknown" ELSE file.text

(* sniff_language: the extension, the shebang, the text.                    *)
Sniffed(file) ==
  IF file.ext # "" THEN file.ext ELSE IF file.shebang # "" THEN file.shebang ELSE ByContent(file)

(* detect_binary: a prefix of a known format, or a NUL among the first 8 K. *)
IsBinary(file) == file.binary /\ file.size # "empty"

(* detect_language: the interpreter at the head, corrected by the extension *)
(* of what it is given; anything else is the shell's.                       *)
HeadLanguage(c) ==
  IF c.head \notin {"python", "shell", "javascript"} THEN "shell"
  ELSE IF c.inline = NoCode /\ c.script.ext # "" THEN c.script.ext ELSE c.head

(* resolve_script, up to the read.                                          *)
Failure(c) ==
  LET at == c.script.at IN
  IF c.session = "none" THEN "no-session"
  ELSE IF ~c.script.inside THEN "outside-allow-roots"
  ELSE IF at = "gone" \/ (at = "broken link" /\ c.session = "follow") THEN "stat-failed"
  ELSE IF at \in {"link", "broken link"} /\ c.session # "follow" THEN "symlink"
  ELSE IF at = "directory" THEN "not-regular-file"
  ELSE IF at = "unreadable" THEN "read-failed"
  ELSE "ok"

-----------------------------------------------------------------------------
(* What the analysis finds.                                                 *)

(* _scan_intentframe_refs: on the text, whatever the language.              *)
References(code) == {code} \cap {"ref", "shell_ref"}

(* _check_import: the dotted name or its first part; for a from-import the  *)
(* name of the module that is imported from.                                *)
ListedImport(code) == {code} \cap {"import"}

(* _check_call: the name as it is written, and for open a literal path.     *)
ListedCall(code) ==
  {code} \cap {"builtin", "os_call", "signal_call", "bind", "open_system", "remove"}

(* analyze_python_code: what does not parse is a finding.                   *)
FoundInPython(code) ==
  References(code)
  \cup IF code \in ShellCode THEN {"syntax"} ELSE ListedImport(code) \cup ListedCall(code)

(* analyze_shell_code: the patterns, on any text.                           *)
FoundInShell(code) ==
  References(code) \cup ({code} \cap {"eval", "builtin", "source_url", "chown", "redirect", "pipes"})

(* Mutant: code that is too large is left out without a word.               *)
InspectedQuietly(code, size, binary, language) ==
  IF size \in {"empty", "long", "huge"} THEN [found |-> {}, says |-> {}]
  ELSE IF binary THEN [found |-> {}, says |-> {"resolved:binary"}]
  ELSE IF language \notin AllowedLanguages THEN [found |-> {}, says |-> {"resolved:unsupported-language"}]
  ELSE [found |-> IF language = "python" THEN FoundInPython(code) ELSE FoundInShell(code), says |-> {}]

(* inspect_code: what it found, and the signals of the stages that gave up. *)
Inspected(code, size, binary, language) ==
  IF size = "empty" THEN [found |-> {}, says |-> {}]
  ELSE IF size \in {"long", "huge"} THEN [found |-> {}, says |-> {"CODE_TOO_LARGE"}]
  ELSE IF binary THEN [found |-> {}, says |-> {"resolved:binary"}]
  ELSE IF language \notin AllowedLanguages THEN [found |-> {}, says |-> {"resolved:unsupported-language"}]
  ELSE [found |-> IF language = "python" THEN FoundInPython(code) ELSE FoundInShell(code), says |-> {}]

-----------------------------------------------------------------------------
(* The walk over the edges.                                                 *)

(* _edges_to_signals and the scope; then the body in the command, if there  *)
(* is one (_inspect_inline_edge).                                           *)
InspectInline ==
  /\ stage = "edges"
  /\ LET scoped == HeadLanguage(call) \in AllowedLanguages
         body == Inspected(call.inline, "small", FALSE, call.lang)
     IN /\ signals' =
             {"edge:inline" : x \in {call.inline} \ {NoCode}}
             \cup {"edge:referenced"}
             \cup (IF scoped THEN {} ELSE {"OUT_OF_SCOPE"})
             \cup (IF scoped /\ call.inline # NoCode THEN body.says ELSE {})
        /\ nodes' = IF scoped /\ call.inline # NoCode
                    THEN <<[body |-> call.inline, found |-> body.found]>> ELSE <<>>
        /\ stage' = IF scoped /\ call.auto THEN "script" ELSE "gate"
  /\ UNCHANGED <<call, reviewer>>

(* _inspect_referenced_edge: the script is resolved, read up to a bound,    *)
(* and analysed as what it is taken for; the node keeps no body.            *)
InspectReferenced ==
  /\ stage = "script"
  /\ LET file == call.script
         taken == Sniffed(file)
         language == IF taken = "unknown" THEN call.lang ELSE taken
         code == Inspected(file.code, file.size, IsBinary(file), language)
     IN IF Failure(call) # "ok"
        THEN /\ signals' = signals \cup {Failure(call)}
             /\ nodes' = Append(nodes, [body |-> NoCode, found |-> {}])
        ELSE /\ signals' =
                  signals \cup {"resolved:auto-read"}
                  \cup (IF file.size = "huge" THEN {"resolved:truncated"} ELSE {})
                  \cup (IF language # call.lang /\ ~IsBinary(file) THEN {"resolved:language-mismatch"} ELSE {})
                  \cup (IF IsBinary(file) THEN {"resolved:binary"} ELSE code.says)
             /\ nodes' = Append(nodes, [body |-> NoCode, found |-> IF IsBinary(file) THEN {} ELSE code.found])
  /\ stage' = "gate"
  /\ UNCHANGED <<call, reviewer>>

-----------------------------------------------------------------------------
(* The review by a model.                                                   *)

NodeFindings == UNION {nodes[i].found : i \in DOMAIN nodes}

(* _pick_code: a body in which something was found, or else the first body. *)
PickedCode ==
  LET bodies == {i \in DOMAIN nodes : nodes[i].body # NoCode}
      told == {i \in bodies : nodes[i].found # {}}
      first(S) == CHOOSE i \in S : \A j \in S : i <= j
  IN IF told # {} THEN nodes[first(told)].body
     ELSE IF bodies # {} THEN nodes[first(bodies)].body ELSE NoCode

(* _should_run_llm.                                                         *)
ShouldReview ==
  /\ call.llm /\ HeadLanguage(call) \in AllowedLanguages /\ PickedCode # NoCode
  /\ NodeFindings # {} \/ call.rich

(* review_code: the model answers, or there is none, it is late or it       *)
(* fails; the report is the one of the deterministic pipeline either way.   *)
ReviewCode ==
  /\ stage = "gate" /\ stage' = "done"
  /\ reviewer' \in IF ShouldReview THEN {"ran", "failed"} ELSE {"idle"}
  /\ UNCHANGED <<call, signals, nodes>>

-----------------------------------------------------------------------------
ReviewStarts == stage = "edges" /\ signals = {} /\ nodes = <<>> /\ reviewer = "idle"

ReviewInit == call \in Inspection /\ ReviewStarts

ReviewNext == InspectInline \/ InspectReferenced \/ ReviewCode

ReviewSpec == ReviewInit /\ [][ReviewNext]_reviewVars

-----------------------------------------------------------------------------
(* What the analysis cannot see, because it goes by the names in the text:  *)
(* a name imported by its parent or under another one, a path put together  *)
(* at run time, and the dot for source.                                     *)
Unseen == {"import_parent", "os_alias", "open_dynamic", "dot_url", "harmless", "plain"}

(* A script that was to be read, and does what the analysis is there to     *)
(* find, is never passed over in silence: the report has a finding or says  *)
(* what stood in the way (pipeline.py:514-607, code_inspector.py:115-206).  *)
NoSilentMiss ==
  (/\ stage = "done" /\ call.auto /\ call.script.size # "empty"
   /\ call.script.code \notin Unseen
   /\ (call.lang = "python") = (call.script.code \in PythonCode))
  => NodeFindings # {} \/ signals \ {"edge:inline", "edge:referenced", "resolved:auto-read"} # {}

(* The model is asked about code of the command alone, and never about a    *)
(* call for which it was switched off: a script, with its secrets, does not *)
(* leave the machine (_pick_code, pipeline.py:406-423).                     *)
ScriptsStayHome == reviewer # "idle" => call.llm /\ PickedCode = call.inline /\ call.inline # NoCode

(* The variables hold what the code can put there.                          *)
ReviewTypeOK ==
  /\ stage \in {"edges", "script", "gate", "done"}
  /\ reviewer \in {"idle", "ran", "failed"}
  /\ Len(nodes) <= 2 /\ \A i \in DOMAIN nodes : nodes[i].found \subseteq PythonCode \cup ShellCode \cup {"syntax"}

(* Together, at every step of an inspection.                                *)
ReviewSafe == ReviewTypeOK /\ NoSilentMiss /\ ScriptsStayHome
===============================================================================
