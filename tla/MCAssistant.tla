------------------------------ MODULE MCAssistant ------------------------------
(* What sits before the runtime, for TLC: the dashboard and the agents it   *)
(* runs (part = "runs", AgentRuns) and the assistant behind its server      *)
(* (Jarvis), whose heartbeat and conversation share no state but the crash: *)
(* "chat" is the assistant without heartbeat checks, "heart" the one nobody *)
(* talks to.  They meet only in the intents they submit, so one run takes   *)
(* them one at a time; a part that is not taken stays where it starts.      *)
EXTENDS AgentRuns, Jarvis, TLC

CONSTANTS i1, i2

VARIABLE part

allVars == <<part, vars, jarvisVars>>

MCInvoice == {i1, i2}
MCConfigs == <<[permits |-> {i1, i2}, tasks |-> 1], [permits |-> {i1}, tasks |-> 1]>>

AssistantInit == Init /\ JarvisInit /\ part \in {"runs", "chat", "heart"}

AssistantNext ==
  \/ part = "runs" /\ Next /\ UNCHANGED <<part, jarvisVars>>
  \/ part = "chat" /\ JarvisNext /\ UNCHANGED <<part, vars>> /\ beats' = beats
  \/ part = "heart" /\ JarvisNext /\ UNCHANGED <<part, vars>> /\ next' = next

\* The runtime and the dashboard go on, and a tool's waits have deadlines; the
\* assistant's event loop runs its timers.  Nothing is assumed of the models,
\* of the user at a dialog or of the clients.
AssistantSpec ==
  /\ AssistantInit /\ [][AssistantNext]_allVars
  /\ WF_vars(part = "runs" /\ Dashboard)
  /\ WF_vars(part = "runs" /\ \E c \in wire : Arrive(c))
  /\ WF_vars(part = "runs" /\ (Block \/ Allow \/ DialogEnds \/ Executed))
  /\ \A c \in ChatClient : WF_jarvisVars(part = "chat" /\ ChatTimeout(c))

\* All configurations come to an end and what dead bots had sent is served:
\* RunsEnd of AgentRuns.
RunsAreOver == part = "runs" => RunsEnd
===============================================================================
