-------------------------------- MODULE Jarvis --------------------------------
(***************************************************************************)
(* The personal assistant behind its API server: the gate that lets one     *)
(* client in, the session and its compaction, the agent's run with its      *)
(* tools, the memory index and the heartbeat that runs beside them.         *)
(* Everything shares one event loop: a step goes from one await to the      *)
(* next.  The model of a reply, the language model and the clock are        *)
(* outside and do as they like, and may also never answer.                  *)
(***************************************************************************)
EXTENDS Naturals, Sequences, FiniteSets

CONSTANTS
  ChatClient,    \* clients of /chat: the Telegram bot
  StreamClient,  \* clients of /chat/stream: the command line client
  Checker,       \* what may run a heartbeat check: the loop, and the REPL's command
  Alert,         \* the texts of alerts
  MaxMessage,    \* bound: messages
  MaxFact,       \* bound: writes to the memory files
  MaxCrash,      \* bound: crashes
  MaxBeat        \* bound: heartbeat checks

(* What is asked of the constants. *)
ASSUME JarvisAssumption ==
  /\ ChatClient \cap StreamClient = {}
  /\ "nobody" \notin ChatClient \cup StreamClient
  /\ {"idle", "asks"} \cap Alert = {}
  /\ {MaxMessage, MaxFact, MaxCrash, MaxBeat} \subseteq Nat

Client == ChatClient \cup StreamClient
Message == 1 .. MaxMessage
Nobody == "nobody"

VARIABLES
  up,        \* the server runs
  holder,    \* the gate: the client that holds it, or Nobody
  req,       \* the request of each client
  history,   \* the session in memory
  disk,      \* current.jsonl
  torn,      \* current.jsonl is not what was last to be saved
  forgot,    \* answered messages that a load did not find in a torn file
  answered,  \* what the client of each message was told
  acted,     \* how often a tool changed the world for each message
  next,      \* the next message
  facts,     \* the version of the memory files
  indexed,   \* the version the index shows
  dirty,     \* files_changed
  blind,     \* the last pass failed at setup, or ended without indexing
  beat,      \* each checker: "idle", "asks", or the alert it is sending
  sent,      \* the alerts in the dedup cache
  rung,      \* the alerts shown in the last day
  cut,       \* alerts shown whose record a crash or a failing write prevented
  crashes,
  beats

session == <<history, disk, torn, forgot>>
chat == <<holder, req, session, answered, acted, next>>
memory == <<facts, indexed, dirty, blind>>
heart == <<beat, sent, rung, cut, beats>>
jarvisVars == <<up, chat, memory, heart, crashes>>

Idle == [at |-> "idle", msg |-> 0, snap |-> <<>>, seen |-> <<>>, tool |-> FALSE, again |-> FALSE]

(* An entry stands for what was said: a question, an answer, or the summary *)
(* of several of them.                                                      *)
Q(m) == <<"question", m>>
A(m) == <<"answer", m>>
Entry(s) == [says |-> s]
Says(h) == UNION {h[i].says : i \in 1 .. Len(h)}

JarvisInit ==
  /\ up = TRUE /\ holder = Nobody /\ req = [c \in Client |-> Idle]
  /\ history = <<>> /\ disk = <<>> /\ torn = FALSE /\ forgot = {}
  /\ answered = [m \in Message |-> "nothing"] /\ acted = [m \in Message |-> 0] /\ next = 1
  /\ facts = 0 /\ indexed = 0 /\ dirty = FALSE /\ blind = FALSE
  /\ beat = [k \in Checker |-> "idle"] /\ sent = {} /\ rung = {} /\ cut = {}
  /\ crashes = 0 /\ beats = 0

-----------------------------------------------------------------------------
(* The session.                                                             *)

(* _save truncates the file and writes it line by line.  A write that fails *)
(* leaves the beginning of the talk in it, a failing open what was there;   *)
(* the talk in memory is h either way.                                      *)
Parts(h) == {SubSeq(h, 1, n) : n \in 0 .. Len(h)}

Save(h) == history' = h /\ disk' = h /\ torn' = FALSE /\ UNCHANGED forgot

Tears(h) ==
  /\ history' = h /\ disk' \in Parts(h) \cup {disk} /\ torn' = (disk' # h)
  /\ UNCHANGED forgot

Half(h) == Len(h) \div 2
(* Mutant: what was kept is forgotten, the summary stands alone.            *)
OnlySummary(h) == <<Entry(Says(SubSeq(h, 1, Half(h))))>>

(* maybe_compact: the old half becomes one entry before what was kept, both *)
(* as they were when the compaction began.                                  *)
Compacted(h) == <<Entry(Says(SubSeq(h, 1, Half(h))))>> \o SubSeq(h, Half(h) + 1, Len(h))

-----------------------------------------------------------------------------
(* The gate and the requests.                                               *)

Free(c) == holder = Nobody

(* The request of c, with message m, ends with what it was told.            *)
Answers(c, m, what) ==
  /\ answered' = [answered EXCEPT ![m] = what]
  /\ req' = [req EXCEPT ![c] = Idle]
  /\ holder' = Nobody

Reply(c, what) == Answers(c, req[c].msg, what)

(* append_user, and maybe_compact up to its first await: a long history is  *)
(* compacted before the model is asked.  A save that fails ends the request.*)
Begin(c, m) ==
  LET h == Append(history, Entry({Q(m)}))
  IN \/ /\ Save(h)
        /\ \/ /\ Len(h) >= 4
              /\ req' = [req EXCEPT ![c] = [Idle EXCEPT !.at = "flush", !.msg = m, !.snap = h]]
           \/ req' = [req EXCEPT ![c] = [Idle EXCEPT !.at = "run", !.msg = m, !.seen = h]]
        /\ holder' = c /\ UNCHANGED answered
     \/ Tears(h) /\ Answers(c, m, "error")

Refused(m) ==
  /\ answered' = [answered EXCEPT ![m] = "busy"]
  /\ UNCHANGED <<holder, req, session>>

(* POST /chat: the gate is asked and taken in one step.                     *)
PostChat(c) ==
  /\ up /\ c \in ChatClient /\ req[c].at = "idle" /\ next <= MaxMessage
  /\ next' = next + 1
  /\ IF Free(c) THEN Begin(c, next) ELSE Refused(next)
  /\ UNCHANGED <<up, acted, memory, heart, crashes>>

(* POST /chat/stream: the gate is taken, the generator not yet started.     *)
PostStream(c) ==
  /\ up /\ c \in StreamClient /\ req[c].at = "idle" /\ next <= MaxMessage
  /\ next' = next + 1
  /\ IF Free(c)
     THEN /\ holder' = c
          /\ req' = [req EXCEPT ![c] = [Idle EXCEPT !.at = "made", !.msg = next]]
          /\ UNCHANGED <<session, answered>>
     ELSE Refused(next)
  /\ UNCHANGED <<up, acted, memory, heart, crashes>>

StartStream(c) ==
  /\ req[c].at = "made"
  /\ Begin(c, req[c].msg)
  /\ UNCHANGED <<up, acted, next, memory, heart, crashes>>

(* The client goes away.  A generator that never ran has no finally to run. *)
Disconnect(c) ==
  /\ c \in StreamClient /\ req[c].at \notin {"idle", "lost"}
  /\ IF req[c].at = "made"
     THEN /\ req' = [req EXCEPT ![c].at = "lost"]
          /\ answered' = [answered EXCEPT ![req[c].msg] = "gone"]
          /\ UNCHANGED holder
     ELSE Reply(c, "gone")
  /\ UNCHANGED <<up, session, acted, next, memory, heart, crashes>>

(* auto_capture and memory_flush: what is worth keeping goes to a memory    *)
(* file.                                                                    *)
Captures ==
  \/ facts < MaxFact /\ facts' = facts + 1 /\ dirty' = TRUE
  \/ UNCHANGED <<facts, dirty>>

(* memory_flush: its failure is only logged.                                *)
Flush(c) ==
  /\ req[c].at = "flush"
  /\ Captures
  /\ req' = [req EXCEPT ![c].at = "summarise"]
  /\ UNCHANGED <<up, holder, session, answered, acted, next, indexed, blind, heart, crashes>>

Summarise(c) ==
  /\ req[c].at = "summarise"
  /\ LET h == Compacted(req[c].snap)
     IN \/ /\ Save(h)
           /\ req' = [req EXCEPT ![c].at = "run", ![c].snap = <<>>, ![c].seen = h]
           /\ UNCHANGED <<holder, answered>>
        \/ Reply(c, "error") /\ (Tears(h) \/ UNCHANGED session)
  /\ UNCHANGED <<up, acted, next, memory, heart, crashes>>

(* A tool of the run, or of its sub-agent, changes the world.               *)
Acts(c) ==
  /\ req[c].at = "run" /\ ~req[c].tool
  /\ req' = [req EXCEPT ![c].tool = TRUE]
  /\ acted' = [acted EXCEPT ![req[c].msg] = @ + 1]
  /\ UNCHANGED <<up, holder, session, answered, next, memory, heart, crashes>>

(* chat_stream runs the messages again from the start; chat does not.       *)
FallsBack(c) == c \in StreamClient /\ ~req[c].again

RunFails(c) ==
  /\ req[c].at = "run"
  /\ IF FallsBack(c)
     THEN /\ req' = [req EXCEPT ![c].again = TRUE, ![c].tool = FALSE]
          /\ UNCHANGED <<holder, answered>>
     ELSE Reply(c, "error")
  /\ UNCHANGED <<up, session, acted, next, memory, heart, crashes>>

(* append_assistant and auto_capture; only a change is indexed.  A save     *)
(* that fails is the end of the request.                                    *)
RunEnds(c) ==
  /\ req[c].at = "run"
  /\ LET h == Append(history, Entry({A(req[c].msg)}))
     IN \/ /\ Save(h)
           /\ Captures
           /\ IF dirty'
              THEN /\ req' = [req EXCEPT ![c].at = "index", ![c].seen = <<>>]
                   /\ UNCHANGED <<holder, answered>>
              ELSE Reply(c, "ok")
        \/ Tears(h) /\ Reply(c, "error") /\ UNCHANGED <<facts, dirty>>
  /\ UNCHANGED <<up, acted, next, indexed, blind, heart, crashes>>

(* index_workspace: a failure leaves files_changed set; a file that cannot  *)
(* be chunked is passed over, and files_changed is cleared.                 *)
Index(c) ==
  /\ req[c].at = "index"
  /\ \/ indexed' = facts /\ dirty' = FALSE /\ blind' = FALSE
     \/ dirty' = FALSE /\ blind' = TRUE /\ UNCHANGED indexed
     \/ UNCHANGED <<indexed, dirty, blind>>
  /\ Reply(c, "ok")
  /\ UNCHANGED <<up, session, acted, next, facts, heart, crashes>>

(* Mutant: only the model's run is timed.                                   *)
TimeoutOfRun(c) ==
  /\ c \in ChatClient /\ req[c].at = "run"
  /\ Reply(c, "timeout")
  /\ UNCHANGED <<up, session, acted, next, memory, heart, crashes>>

(* wait_for: whatever a chat waits for, it is cancelled there.              *)
ChatTimeout(c) ==
  /\ c \in ChatClient /\ req[c].at # "idle"
  /\ Reply(c, "timeout")
  /\ UNCHANGED <<up, session, acted, next, memory, heart, crashes>>

(* A stream looks at the clock when an event arrives.                       *)
StreamLate(c) ==
  /\ c \in StreamClient /\ req[c].at = "run" /\ ~req[c].again
  /\ Reply(c, "timeout")
  /\ UNCHANGED <<up, session, acted, next, memory, heart, crashes>>

-----------------------------------------------------------------------------
(* The heartbeat.                                                           *)

Wakes(k) ==
  /\ up /\ beat[k] = "idle" /\ beats < MaxBeat
  /\ beat' = [beat EXCEPT ![k] = "asks"] /\ beats' = beats + 1
  /\ UNCHANGED <<up, chat, memory, sent, rung, cut, crashes>>

(* Mutant: the cache is not asked.                                          *)
NeverSeen(a) == FALSE

IsDuplicate(a) == a \in sent

(* The answer: all clear, an error, a known alert, or one that goes out.    *)
Evaluates(k) ==
  /\ beat[k] = "asks"
  /\ \/ beat' = [beat EXCEPT ![k] = "idle"] /\ UNCHANGED rung
     \/ \E a \in Alert :
          /\ ~IsDuplicate(a)
          /\ beat' = [beat EXCEPT ![k] = a] /\ rung' = rung \cup {a}
  /\ UNCHANGED <<up, chat, memory, sent, cut, crashes, beats>>

(* The notification was sent or failed; the alert counts as sent, unless    *)
(* the cache cannot be written.                                             *)
Records(k) ==
  /\ beat[k] \in Alert
  /\ \/ sent' = sent \cup {beat[k]} /\ UNCHANGED cut
     \/ cut' = cut \cup {beat[k]} /\ UNCHANGED sent
  /\ beat' = [beat EXCEPT ![k] = "idle"]
  /\ UNCHANGED <<up, chat, memory, rung, crashes, beats>>

(* A day passes.                                                            *)
Expires(a) ==
  /\ a \in sent
  /\ sent' = sent \ {a} /\ rung' = rung \ {a} /\ cut' = cut \ {a}
  /\ UNCHANGED <<up, chat, memory, beat, crashes, beats>>

-----------------------------------------------------------------------------
(* The server.                                                              *)

(* What a crash may find half written: the talk, to which a question or an  *)
(* answer is just being added, or its compaction.  A question that had not  *)
(* reached the file is as if never asked.                                   *)
Rewritten ==
  {Compacted(req[c].snap) : c \in {d \in Client : req[d].at = "summarise"}}
    \cup {history : c \in {d \in Client :
            \/ req[d].at \in {"made", "run"}
            \/ d \in ChatClient /\ req[d].at = "idle" /\ Free(d) /\ next <= MaxMessage}}

Crash ==
  /\ up /\ crashes < MaxCrash
  /\ crashes' = crashes + 1
  /\ up' = FALSE /\ holder' = Nobody /\ history' = <<>>
  /\ req' = [c \in Client |-> Idle]
  /\ answered' = [m \in Message |->
       IF \E c \in Client : req[c].msg = m /\ answered[m] = "nothing" THEN "gone" ELSE answered[m]]
  /\ cut' = cut \cup {beat[k] : k \in {j \in Checker : beat[j] \in Alert}}
  /\ beat' = [k \in Checker |-> "idle"]
  /\ dirty' = FALSE
  /\ disk' \in {disk} \cup UNION {Parts(h) : h \in Rewritten}
  /\ torn' = (torn \/ disk' # disk)
  /\ UNCHANGED <<forgot, acted, next, facts, indexed, blind, sent, rung, beats>>

Exchange(m) == {Q(m), A(m)}

(* _load, and setup's own pass over the memory files, whose failure is not  *)
(* fatal.                                                                   *)
Setup ==
  /\ ~up /\ up' = TRUE
  /\ history' = disk /\ torn' = FALSE
  /\ forgot' = IF torn
               THEN forgot \cup {m \in Message : answered[m] = "ok" /\ ~(Exchange(m) \subseteq Says(disk))}
               ELSE forgot
  /\ \/ indexed' = facts /\ blind' = FALSE
     \/ blind' = TRUE /\ UNCHANGED indexed
  /\ UNCHANGED <<holder, req, disk, answered, acted, next, facts, dirty, heart, crashes>>

Step(c) ==
  \/ PostChat(c) \/ PostStream(c) \/ StartStream(c) \/ Disconnect(c)
  \/ Flush(c) \/ Summarise(c) \/ Acts(c) \/ RunFails(c) \/ RunEnds(c) \/ Index(c)
  \/ ChatTimeout(c) \/ StreamLate(c)

JarvisNext ==
  \/ \E c \in Client : Step(c)
  \/ \E k \in Checker : Wakes(k) \/ Evaluates(k) \/ Records(k)
  \/ \E a \in Alert : Expires(a)
  \/ Crash \/ Setup

JarvisSpec == JarvisInit /\ [][JarvisNext]_jarvisVars

-----------------------------------------------------------------------------
(* Properties.                                                              *)

(* What the model is shown for a message is the whole talk: every exchange  *)
(* whose answer a client was given, in full or in a summary, and the        *)
(* question itself last; no other client's question slips in behind it      *)
(* (agent.py:284-288, session.py:87-110, state.py:81-89).  Lost is only     *)
(* what a restart did not find in a file whose save had broken off: _save   *)
(* truncates what it is about to rewrite (session.py:146-151).              *)
WholeTalk ==
  \A c \in Client : req[c].at = "run" =>
    LET seen == req[c].seen
    IN /\ \A m \in Message : answered[m] = "ok" /\ m \notin forgot => Exchange(m) \subseteq Says(seen)
       /\ seen[Len(seen)] = Entry({Q(req[c].msg)})
       /\ seen = history

(* A message that met a held gate changed nothing and is not in the talk;   *)
(* one whose tools acted twice came by a stream that failed midway          *)
(* (state.py:81-85, agent.py:358-365).                                      *)
RefusedLeavesNoTrace ==
  /\ \A m \in Message : answered[m] = "busy" => acted[m] = 0 /\ Q(m) \notin Says(history)
  /\ \A c \in ChatClient : req[c].at # "idle" => acted[req[c].msg] <= 1

(* When nothing is pending, memory search shows the memory files as they    *)
(* are, unless the pass at start failed or the last one found nothing to    *)
(* index in a changed file: both clear the mark or never set it             *)
(* (agent.py:294-301, 208-216, memory_index.py:152-153).                    *)
IndexCurrent ==
  up /\ ~dirty /\ ~blind /\ (\A c \in Client : req[c].at # "index") => indexed = facts

(* The three together: what a run is given is the talk as the clients know  *)
(* it, as far as the file had it, without refused messages, and a memory    *)
(* that is searched as it is.                                               *)
ContextIsWhole == WholeTalk /\ RefusedLeavesNoTrace /\ IndexCurrent

(* An alert is shown once a day, unless a crash or a failing write kept it  *)
(* from being recorded, or another check is showing it at this moment: the loop's  *)
(* and the one the user asked for do not exclude each other                 *)
(* (heartbeat.py:112-119, main.py:145-149).                                 *)
RungOnce ==
  [][\A k \in Checker : beat'[k] \in Alert /\ beat[k] \notin Alert
       => \/ beat'[k] \notin rung \/ beat'[k] \in cut
          \/ \E j \in Checker : beat[j] = beat'[k]]_jarvisVars

(* A chat that was let in is answered whatever it waits for, also if no     *)
(* model ever answers: there is always a time to come when none is under    *)
(* way (state.py:93-105).                                                   *)
ChatIsAnswered == \A c \in ChatClient : []<>(req[c].at = "idle")
===============================================================================
