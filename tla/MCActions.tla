------------------------------- MODULE MCActions -------------------------------
(* The four families of actions for TLC, and the inspection of scripts.  They *)
(* share the lane before them and no state, so one run takes them one at a    *)
(* time: part says which, and the others stay where they start.               *)
EXTENDS Outreach, FileActions, PlatformItems, TerminalPath, ScriptReview

VARIABLE part

allVars == <<part, vars, terminalVars, fileVars, itemVars, reviewVars>>

-------------------------------------------------------------------------------
(* Mail and messages: any recipient, or patterns and contacts.                *)

AnyOrContacts ==
  {[c \in {"mail", "messages"} |-> [any |-> TRUE, sources |-> <<>>]],
   [mail |-> [any |-> FALSE, sources |-> <<"contacts_all", "contacts_group">>],
    messages |-> [any |-> FALSE, sources |-> <<"contacts_group">>]]}
FromFriend == [m \in {"m"} |-> "friend"]
ToBoss == [m \in {"m"} |-> {"boss"}]

-------------------------------------------------------------------------------
(* Commands, policies and configurations of the executor.                     *)

Joint == {"|", "&&", "&"}
Simple == {<<"cat", "f">>, <<"/bin/cat", "f">>, <<"./cat", "f">>, <<"cat", "-x">>, <<"cat", "f>g">>,
         <<"cat", "$v">>, <<"cat", "$(c)">>, <<"cd", "f">>, <<"cd", "*">>, <<"curl", "f">>,
         <<"kill", "f">>, <<"security", "f">>, <<"npm", "f">>, <<"xargs", "cat">>, <<"tool">>,
         <<"rated">>, <<"wipe">>, <<"wipe'">>, <<"bash">>, <<"bash", "f.sh">>, <<"source", "f">>,
         <<"bash", "-c", "wipe''">>, <<"bash", "-x", "-c", "'security f'">>,
         <<"bash", "-c", "'cat f'">>, <<"bash", "-c", "'eval f'">>, <<"bash", "-c", "'source f'">>,
         <<"python", "-c", "'cat f'">>, <<"node", "-c", "'cat f'">>, <<"tool", "bash", "-c", "wipe''">>}

(* Substitutions, words with an apostrophe and quotes within quotes.        *)
Knotty == {<<"tool", "$(", "bash", "-c", "wipe''", ")">>, <<"cat", "$(", "security", "f", ")">>,
           <<"cat", "$(", "s'ecurity", "f", ")">>, <<"tool", "$(", "bash", "-c", "'security f'", ")">>,
           <<"tool", "bash", "-c", "wipe''", "'it's'">>, <<"cat", "'it's'">>, <<"cd", "'it's'">>,
           <<"s'ecurity", "f">>, <<"bash", "-c", "'s'ecurity f'">>}

Plain(parts, joint, ends) ==
  [parts |-> parts, joint |-> joint, ends |-> ends, size |-> "small", grammar |-> "parsed"]

Single == {Plain(<<p>>, "", e) : p \in Simple \cup Knotty, e \in {"", ">", "&"}}
Double == {Plain(<<p, q>>, j, "") : p \in Simple, q \in Simple, j \in Joint}
          \cup {Plain(<<p, <<"cat", "f">>>>, j, "") : p \in Knotty, j \in Joint}
Odd == {[c EXCEPT !.grammar = g, !.size = z] :
          c \in Single, g \in {"remark", "odd", "broken"}, z \in {"small", "large"}}
AllCommands == Single \cup Double \cup Odd

Constraints(deny, commands, allow) ==
  [constrained |-> TRUE, deny |-> deny, commands |-> commands, allow |-> allow]
AllPolicies ==
  {[Constraints({}, {}, {}) EXCEPT !.constrained = FALSE],
   Constraints({<<"data_read", "credential_material">>, <<"package_install", "npm">>}, {}, {}),
   Constraints({<<"data_read", "*">>}, {}, {}),
   Constraints({}, {"cat"}, {<<"read_only", "*">>, <<"process_signal">>})}

Usual == [enabled |-> TRUE, available |-> TRUE, required |-> TRUE, usable |-> TRUE, python |-> "", owner |-> TRUE,
            allowed |-> {"pure_compute", "file_read_only", "file_read_write"}, writes |-> {"~"},
            escalate |-> FALSE, armed |-> FALSE, sudo |-> TRUE]

(* Every command under the default configuration, and every configuration   *)
(* with a few commands.                                                     *)
Setups ==
  {[Usual EXCEPT !.enabled = FALSE], [Usual EXCEPT !.available = FALSE],
   [Usual EXCEPT !.usable = FALSE], [Usual EXCEPT !.owner = FALSE],
   [Usual EXCEPT !.escalate = TRUE, !.armed = TRUE, !.sudo = FALSE]}
  \cup {[Usual EXCEPT !.python = p, !.required = r] :
          p \in {"~/venv", "/else", "~/.intentframe", "relative"}, r \in BOOLEAN}
  \cup {[Usual EXCEPT !.allowed = a, !.writes = w] :
          a \in {{}, {"pure_compute"}, {"file_read_only"}, {"file_read_write"}, {"network_outbound"},
                 {"network_full"}, {"pure_compute", "unrestricted"}},
          w \in {{"~"}, {"/else", "~/.intentframe"}}}

AllCases ==
  [cmd : AllCommands, wd : {"~"}, policy : AllPolicies, setup : {Usual}]
  \cup [cmd : {Plain(<<<<"tool">>>>, "", ""), Plain(<<<<"cat", "f">>>>, "", ">")},
        wd : {"~", "/else", "/usr", "/"}, policy : {Constraints({}, {}, {})}, setup : Setups]

FirstCase == CHOOSE k \in AllCases : ~k.policy.constrained

-------------------------------------------------------------------------------
(* Files: two operations, one change of a link; with the floor whole and      *)
(* without its home, a policy and none, a static mount and the registry's.    *)

Scopes == {"docs/a", "docs/link", "docs/hook", "~/.ssh/k"}
Sets(o, s, r, c) ==
  [owner |-> o, static |-> s, registry |-> r, constrained |-> c, allowed |-> {"docs/a", "docs/link"},
   reads |-> {"docs/a", "docs/link", "docs/hook", "docs2/s", "~/.ssh/k"}, writes |-> Scopes]
SomeSetups == {Sets(TRUE, "rw", FALSE, FALSE), Sets(FALSE, "ro", TRUE, TRUE)}
FirstSetup == CHOOSE s \in SomeSetups : TRUE

-------------------------------------------------------------------------------
(* Scripts: every way a file is found, every way its language is told, every  *)
(* kind of code, and a command with code of its own.                          *)

Language == {"python", "shell", "javascript"}
File == [at |-> "file", inside |-> TRUE, size |-> "small", binary |-> FALSE, ext |-> "", shebang |-> "",
         text |-> "unclear", code |-> "import"]
Hands(l, f) ==
  [head |-> l, lang |-> l, inline |-> "none", script |-> f, session |-> "plain", auto |-> TRUE, rich |-> FALSE, llm |-> TRUE]

Found ==
  {[Hands(l, [File EXCEPT !.at = a, !.inside = i, !.size = z, !.binary = b]) EXCEPT !.session = n] :
     l \in Language, a \in {"file", "link", "broken link", "directory", "gone", "unreadable"}, i, b \in BOOLEAN,
     z \in {"empty", "small", "long", "huge"}, n \in {"none", "plain", "follow"}}
Told ==
  {Hands(l, [File EXCEPT !.ext = e, !.shebang = s, !.text = t, !.code = k]) :
     l \in Language, e \in Language \cup {""}, s \in {"", "python", "ruby"}, t \in Language \cup {"unclear"}, k \in PythonCode \cup ShellCode}
Mixed ==
  {[Hands(l, [File EXCEPT !.code = k]) EXCEPT !.inline = b, !.auto = a, !.rich = r, !.llm = m] :
     l \in Language, k \in {"eval", "os_call"}, b \in {"none", "harmless", "builtin", "eval"}, a, r, m \in BOOLEAN}
AllCalls == Found \cup Told \cup Mixed
FirstCall == Hands("shell", File)

-------------------------------------------------------------------------------
FirstPolicies == CHOOSE p \in Policies : TRUE

\* A family that is not taken has one initial state.
ActionsInit ==
  /\ part \in {"outreach", "terminal", "files", "platform", "script"}
  /\ TerminalInit
  /\ part # "terminal" =>
       intent = <<FirstCase.cmd, FirstCase.wd, FirstCase.policy, FirstCase.setup, "direct">>
  /\ IF part = "script" THEN ReviewInit ELSE call = FirstCall /\ ReviewStarts
  /\ Init /\ (part # "outreach" => policy = FirstPolicies)
  /\ FilesInit /\ (part # "files" => setup = FirstSetup /\ link["docs/link"] = "docs/hook")
  /\ ItemsInit

ActionsNext ==
  \/ part = "outreach" /\ Next /\ UNCHANGED <<part, terminalVars, fileVars, itemVars, reviewVars>>
  \/ part = "terminal" /\ TerminalNext /\ UNCHANGED <<part, vars, fileVars, itemVars, reviewVars>>
  \/ part = "files" /\ FilesNext /\ UNCHANGED <<part, vars, terminalVars, itemVars, reviewVars>>
  \/ part = "platform" /\ ItemsNext /\ UNCHANGED <<part, vars, terminalVars, fileVars, reviewVars>>
  \/ part = "script" /\ ReviewNext /\ UNCHANGED <<part, vars, terminalVars, fileVars, itemVars>>

ActionsSpec == ActionsInit /\ [][ActionsNext]_allVars
===============================================================================
