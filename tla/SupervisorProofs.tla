-------------------------- MODULE SupervisorProofs ---------------------------
(***************************************************************************)
(* The supervisor for every acyclic profile, any restart budget and any     *)
(* number of faults and signals; and, in the second half, the command lines *)
(* and the gateways they start.                                             *)
(*                                                                          *)
(* The supervisor's inductive invariant: the types; the places in the       *)
(* dictionary follow the dependencies; what has answered; a living process  *)
(* is in the table and, while stop_all runs, still on its list; what is     *)
(* left after a stop; how the respawns are counted.                         *)
(***************************************************************************)
EXTENDS SupervisorProperties, Console, TLAPS

Places ==
  /\ \A s \in Svc : slot[s] <= top
  /\ \A s \in Svc : slot[s] > 0 => \A d \in Deps[s] : slot[d] > 0 /\ slot[d] < slot[s]
  /\ \A s \in Svc : proc[s] # "none" <=> slot[s] > 0
  /\ \A s \in table : slot[s] > 0
  /\ toStop \subseteq table

Answers ==
  /\ DependenciesFirst
  /\ \A s \in Svc : wait[s] = "ok" => s \in answered
  /\ \A s \in Svc : slot[s] > 0 /\ slot[s] < top => s \in answered
  /\ pc = "launch" => \A s \in Svc : slot[s] > 0 => s \in answered

Owned ==
  /\ \A s \in Svc : proc[s] \in Alive => s \in table
  /\ stopping => \A s \in Svc : proc[s] \in Alive => s \in toStop

Stopped ==
  /\ ready => pc \notin {"launch", "gather", "failed"}
  /\ ready /\ shutdown /\ ~stopping => \A s \in Svc : proc[s] \notin Alive
  /\ exit = "no" <=> pc # "exited"
  /\ exit = "orderly" => shutdown /\ ~stopping

Counts ==
  /\ RestartBudget
  /\ \A s \in Svc : wait[s] = "failed" => s \in failedStart
  /\ \A s \in Svc : slot[s] = 0 => respawns[s] = 0 /\ proc[s] = "none"
  /\ pc \notin {"restart", "exited"} => cur = {}
  /\ \A s, t \in cur : s = t
  /\ pc # "exited" =>
       \A s \in Svc \ failedStart :
         respawns[s] = IF s \in cur THEN carry ELSE count[s]

SupervisorInd == TypeOK /\ Places /\ Answers /\ Owned /\ Stopped /\ Counts

-----------------------------------------------------------------------------
LEMMA InitInd == Init => SupervisorInd
<1>. SUFFICES ASSUME Init PROVE SupervisorInd
  OBVIOUS
<1>. USE DEF Init
<1>1. TypeOK
  <2>1. MaxRestarts \in Nat /\ MaxFaults \in Nat /\ MaxSignals \in Nat
    BY SupervisorAssumption
  <2>2. 0 \in 0..MaxRestarts /\ faults \in 0..MaxFaults /\ signals \in 0..MaxSignals
    BY <2>1
  <2>3. /\ proc \in [Svc -> {"none", "dead"} \cup Alive]
        /\ wait \in [Svc -> {"idle", "waiting", "ok", "failed", "raised"}]
        /\ slot \in [Svc -> Nat] /\ count \in [Svc -> 0..MaxRestarts]
        /\ respawns \in [Svc -> Nat]
    BY <2>2
  <2>. QED  BY <2>2, <2>3 DEF TypeOK
<1>2. Places /\ Owned
  BY DEF Places, Owned, Alive
<1>3. Answers
  BY DEF Answers, DependenciesFirst
<1>4. Stopped
  BY DEF Stopped
<1>5. Counts
  BY SupervisorAssumption DEF Counts, RestartBudget
<1>. QED  BY <1>1, <1>2, <1>3, <1>4, <1>5 DEF SupervisorInd

LEMMA StepTypes ==
  ASSUME TypeOK, [Next]_vars
  PROVE  TypeOK'
<1>. USE SupervisorAssumption DEF TypeOK, Alive, Runs, Ends, stops, env, history, children, main
<1>1. CASE LaunchLayer
  BY <1>1 DEF LaunchLayer, Spawn, NextLayer, Launched
<1>2. CASE LayerStarted \/ LayerFailed \/ LayerRaised
  BY ZenonT(30), <1>2 DEF LayerStarted, LayerFailed, LayerRaised
<1>3. CASE EndSweep \/ Wake
  BY <1>3 DEF EndSweep, Wake
<1>4. CASE BeginStop \/ EndStop
  BY ZenonT(30), <1>4 DEF BeginStop, EndStop
<1>5. CASE Signal \/ GatewayKills
  <2>1. CASE Signal
    BY <2>1 DEF Signal
  <2>2. CASE GatewayKills
    BY <2>2 DEF GatewayKills
  <2>. QED  BY <1>5, <2>1, <2>2
<1>6. ASSUME NEW s \in Svc, ProbeAnswers(s) \/ ProbeTimesOut(s) \/ ProbeRaises(s)
      PROVE TypeOK'
  BY <1>6 DEF ProbeAnswers, ProbeTimesOut, ProbeRaises
<1>7. ASSUME NEW s \in Svc, Restart(s) PROVE TypeOK'
  BY <1>7 DEF Restart, MayRestart, Spawn
<1>8. ASSUME NEW s \in Svc, Skip(s) \/ Restarted(s) \/ RestartFailed(s) \/ RestartRaised(s)
      PROVE TypeOK'
  BY <1>8 DEF Skip, Restarted, RestartFailed, RestartRaised
<1>9. ASSUME NEW s \in Svc, StopOne(s) \/ Serve(s) \/ Crash(s) \/ Terminates(s)
      PROVE TypeOK'
  BY <1>9 DEF StopOne, LastInserted, Serve, Crash, Terminates
<1>10. CASE UNCHANGED vars
  BY <1>10 DEF vars
<1>. QED
  BY <1>1, <1>2, <1>3, <1>4, <1>5, <1>6, <1>7, <1>8, <1>9, <1>10 DEF Next, ServiceNext

-----------------------------------------------------------------------------
LEMMA StepPlaces ==
  ASSUME TypeOK, Places, [Next]_vars
  PROVE  Places'
<1>. USE SupervisorAssumption
     DEF TypeOK, Places, Alive, Runs, Ends, stops, env, history, children, main
<1>1. CASE LaunchLayer
  <2>1. \A s \in NextLayer : slot[s] = 0 /\ \A d \in Deps[s] : slot[d] > 0 /\ d \notin NextLayer
    BY DEF NextLayer, Launched
  <2>2. \A s \in Svc : slot'[s] = IF s \in NextLayer THEN top + 1 ELSE slot[s]
    BY <1>1 DEF LaunchLayer
  <2>3. /\ \A s \in Svc : proc'[s] = IF s \in NextLayer THEN "booting" ELSE proc[s]
        /\ table' = table \cup NextLayer /\ top' = top + 1
        /\ NextLayer \subseteq Svc
    BY <1>1 DEF LaunchLayer, Spawn, NextLayer
  <2>4. \A s \in Svc : slot'[s] <= top' /\ (slot[s] > 0 => slot'[s] = slot[s])
    BY <2>1, <2>2, <2>3
  <2>5. \A s \in Svc : slot'[s] > 0 => \A d \in Deps[s] : slot'[d] > 0 /\ slot'[d] < slot'[s]
    <3>1. ASSUME NEW s \in Svc, slot'[s] > 0, NEW d \in Deps[s]
          PROVE  slot'[d] > 0 /\ slot'[d] < slot'[s]
      <4>1. d \in Svc
        OBVIOUS
      <4>2. CASE s \in NextLayer
        BY <4>1, <4>2, <2>1, <2>2
      <4>3. CASE s \notin NextLayer
        <5>1. slot[d] > 0 /\ slot[d] < slot[s]
          BY <4>3, <3>1, <2>2
        <5>. QED  BY <4>1, <4>3, <5>1, <2>2, <2>4
      <4>. QED  BY <4>2, <4>3
    <3>. QED  BY <3>1
  <2>6. \A s \in Svc : proc'[s] # "none" <=> slot'[s] > 0
    BY <2>2, <2>3
  <2>7. (\A s \in table' : slot'[s] > 0) /\ toStop' \subseteq table'
    BY <1>1, <2>2, <2>3, <2>4 DEF LaunchLayer
  <2>. QED  BY <2>3, <2>4, <2>5, <2>6, <2>7
<1>2. CASE LayerStarted \/ LayerFailed \/ LayerRaised \/ EndSweep \/ Wake
  BY <1>2 DEF LayerStarted, LayerFailed, LayerRaised, EndSweep, Wake
<1>3. CASE BeginStop \/ EndStop \/ Signal \/ GatewayKills
  BY <1>3 DEF BeginStop, EndStop, Signal, GatewayKills
<1>4. ASSUME NEW s \in Svc, ProbeAnswers(s) \/ ProbeTimesOut(s) \/ ProbeRaises(s)
      PROVE Places'
  BY <1>4 DEF ProbeAnswers, ProbeTimesOut, ProbeRaises
<1>5. ASSUME NEW s \in Svc, Restart(s) PROVE Places'
  BY <1>5 DEF Restart, MayRestart, Spawn
<1>6. ASSUME NEW s \in Svc, Skip(s) \/ Restarted(s) \/ RestartFailed(s) \/ RestartRaised(s)
      PROVE Places'
  BY <1>6 DEF Skip, Restarted, RestartFailed, RestartRaised
<1>7. ASSUME NEW s \in Svc, StopOne(s) \/ Serve(s) \/ Crash(s) \/ Terminates(s)
      PROVE Places'
  BY <1>7 DEF StopOne, LastInserted, Serve, Crash, Terminates
<1>8. CASE UNCHANGED vars
  BY <1>8 DEF vars
<1>. QED
  BY <1>1, <1>2, <1>3, <1>4, <1>5, <1>6, <1>7, <1>8 DEF Next, ServiceNext

LEMMA StepAnswers ==
  ASSUME TypeOK, Places, Answers, [Next]_vars
  PROVE  Answers'
<1>. USE SupervisorAssumption
     DEF TypeOK, Answers, DependenciesFirst, Alive, Runs, Ends, stops, env, history, children, main
<1>1. CASE LaunchLayer
  <2>1. \A s \in NextLayer : s \in Svc /\ slot[s] = 0 /\ \A d \in Deps[s] : d \in Svc /\ slot[d] > 0
    BY DEF NextLayer, Launched
  <2>2. \A s \in NextLayer : Deps[s] \subseteq answered
    BY <1>1, <2>1 DEF LaunchLayer
  <2>3. \A s \in Svc : /\ slot'[s] = (IF s \in NextLayer THEN top + 1 ELSE slot[s])
                       /\ proc'[s] = (IF s \in NextLayer THEN "booting" ELSE proc[s])
                       /\ wait'[s] = (IF s \in NextLayer THEN "waiting" ELSE wait[s])
    BY <1>1 DEF LaunchLayer, Spawn
  <2>4. answered' = answered /\ pc' = "gather" /\ top' = top + 1
    BY <1>1 DEF LaunchLayer
  <2>5. \A s \in Svc : slot[s] > 0 => s \in answered
    BY <1>1 DEF LaunchLayer
  <2>. QED  BY <2>2, <2>3, <2>4, <2>5
<1>2. CASE LayerStarted
  <2>1. \A s \in Svc : slot[s] > 0 => s \in answered
    BY <1>2 DEF LayerStarted, Layer, Places
  <2>. QED  BY <1>2, <2>1 DEF LayerStarted
<1>3. CASE LayerFailed \/ LayerRaised \/ EndSweep \/ Wake
  BY <1>3 DEF LayerFailed, LayerRaised, EndSweep, Wake
<1>4. CASE BeginStop \/ EndStop \/ Signal \/ GatewayKills
  BY <1>4 DEF BeginStop, EndStop, Signal, GatewayKills
<1>5. ASSUME NEW s \in Svc, ProbeAnswers(s) \/ ProbeTimesOut(s) \/ ProbeRaises(s)
      PROVE Answers'
  BY <1>5 DEF ProbeAnswers, ProbeTimesOut, ProbeRaises
<1>6. ASSUME NEW s \in Svc, Restart(s) PROVE Answers'
  BY <1>6 DEF Restart, MayRestart, Spawn
<1>7. ASSUME NEW s \in Svc, Skip(s) \/ Restarted(s) \/ RestartFailed(s) \/ RestartRaised(s)
      PROVE Answers'
  BY <1>7 DEF Skip, Restarted, RestartFailed, RestartRaised
<1>8. ASSUME NEW s \in Svc, StopOne(s) PROVE Answers'
  <2>1. slot[s] > 0 => Deps[s] \subseteq answered
    BY <1>8 DEF Places
  <2>2. slot[s] > 0
    BY <1>8 DEF Places, StopOne, LastInserted
  <2>. QED  BY <1>8, <2>1, <2>2 DEF StopOne, LastInserted
<1>9. ASSUME NEW s \in Svc, Serve(s) \/ Crash(s) \/ Terminates(s)
      PROVE Answers'
  BY <1>9 DEF Serve, Crash, Terminates
<1>10. CASE UNCHANGED vars
  BY <1>10 DEF vars
<1>. QED
  BY <1>1, <1>2, <1>3, <1>4, <1>5, <1>6, <1>7, <1>8, <1>9, <1>10 DEF Next, ServiceNext

LEMMA StepOwned ==
  ASSUME TypeOK, Places, Owned, [Next]_vars
  PROVE  Owned'
<1>. USE SupervisorAssumption
     DEF TypeOK, Owned, Alive, Runs, Ends, stops, env, history, children, main
<1>1. CASE LaunchLayer
  BY <1>1 DEF LaunchLayer, Spawn, NextLayer
<1>2. CASE LayerStarted \/ LayerFailed \/ LayerRaised \/ EndSweep \/ Wake
  BY <1>2 DEF LayerStarted, LayerFailed, LayerRaised, EndSweep, Wake
<1>3. CASE BeginStop \/ EndStop \/ Signal \/ GatewayKills
  BY <1>3 DEF BeginStop, EndStop, Signal, GatewayKills
<1>4. ASSUME NEW s \in Svc, ProbeAnswers(s) \/ ProbeTimesOut(s) \/ ProbeRaises(s)
      PROVE Owned'
  BY <1>4 DEF ProbeAnswers, ProbeTimesOut, ProbeRaises
<1>5. ASSUME NEW s \in Svc, Restart(s) PROVE Owned'
  BY <1>5 DEF Restart, MayRestart, Spawn
<1>6. ASSUME NEW s \in Svc, Skip(s) \/ Restarted(s) \/ RestartFailed(s) \/ RestartRaised(s)
      PROVE Owned'
  BY <1>6 DEF Skip, Restarted, RestartFailed, RestartRaised
<1>7. ASSUME NEW s \in Svc, StopOne(s) \/ Serve(s) \/ Crash(s) \/ Terminates(s)
      PROVE Owned'
  BY <1>7 DEF StopOne, LastInserted, Serve, Crash, Terminates
<1>8. CASE UNCHANGED vars
  BY <1>8 DEF vars
<1>. QED
  BY <1>1, <1>2, <1>3, <1>4, <1>5, <1>6, <1>7, <1>8 DEF Next, ServiceNext

LEMMA StepStopped ==
  ASSUME TypeOK, Owned, Stopped, [Next]_vars
  PROVE  Stopped'
<1>. USE SupervisorAssumption
     DEF TypeOK, Stopped, Alive, Runs, Ends, stops, env, history, children, main
<1>1. CASE LaunchLayer
  BY <1>1 DEF LaunchLayer, Spawn
<1>2. CASE LayerStarted \/ LayerFailed \/ LayerRaised \/ EndSweep \/ Wake
  BY <1>2 DEF LayerStarted, LayerFailed, LayerRaised, EndSweep, Wake
<1>3. CASE BeginStop \/ Signal \/ GatewayKills
  BY <1>3 DEF BeginStop, Signal, GatewayKills
<1>4. CASE EndStop
  <2>1. \A s \in Svc : proc'[s] \notin Alive
    BY <1>4 DEF EndStop, Owned
  <2>. QED  BY <1>4, <2>1 DEF EndStop
<1>5. ASSUME NEW s \in Svc, ProbeAnswers(s) \/ ProbeTimesOut(s) \/ ProbeRaises(s)
      PROVE Stopped'
  BY <1>5 DEF ProbeAnswers, ProbeTimesOut, ProbeRaises
<1>6. ASSUME NEW s \in Svc, Restart(s) PROVE Stopped'
  BY <1>6 DEF Restart, MayRestart, Spawn
<1>7. ASSUME NEW s \in Svc, Skip(s) \/ Restarted(s) \/ RestartFailed(s) \/ RestartRaised(s)
      PROVE Stopped'
  BY <1>7 DEF Skip, Restarted, RestartFailed, RestartRaised
<1>8. ASSUME NEW s \in Svc, StopOne(s) \/ Serve(s) \/ Crash(s) \/ Terminates(s)
      PROVE Stopped'
  BY <1>8 DEF StopOne, LastInserted, Serve, Crash, Terminates
<1>9. CASE UNCHANGED vars
  BY <1>9 DEF vars
<1>. QED
  BY <1>1, <1>2, <1>3, <1>4, <1>5, <1>6, <1>7, <1>8, <1>9 DEF Next, ServiceNext

LEMMA StepCounts ==
  ASSUME TypeOK, Places, Counts, [Next]_vars
  PROVE  Counts'
<1>. USE SupervisorAssumption
     DEF TypeOK, Counts, RestartBudget, Runs, Ends, stops, env, history, children, main
<1>1. CASE LaunchLayer
  <2>1. \A s \in NextLayer : s \in Svc /\ slot[s] = 0
    BY DEF NextLayer, Launched
  <2>2. \A s \in Svc : /\ count'[s] = (IF s \in NextLayer THEN 0 ELSE count[s])
                       /\ wait'[s] = (IF s \in NextLayer THEN "waiting" ELSE wait[s])
                       /\ slot'[s] = (IF s \in NextLayer THEN top + 1 ELSE slot[s])
                       /\ proc'[s] = (IF s \in NextLayer THEN "booting" ELSE proc[s])
    BY <1>1 DEF LaunchLayer, Spawn
  <2>3. /\ UNCHANGED <<respawns, failedStart, carry, cur>> /\ cur = {}
        /\ pc = "launch" /\ pc' = "gather"
    BY <1>1 DEF LaunchLayer
  <2>. QED  BY <2>1, <2>2, <2>3
<1>2. CASE LayerStarted \/ LayerFailed \/ LayerRaised \/ EndSweep \/ Wake
  BY <1>2 DEF LayerStarted, LayerFailed, LayerRaised, EndSweep, Wake
<1>3. CASE BeginStop \/ EndStop \/ Signal \/ GatewayKills
  BY <1>3 DEF BeginStop, EndStop, Signal, GatewayKills
<1>4. ASSUME NEW s \in Svc, ProbeAnswers(s) \/ ProbeTimesOut(s) \/ ProbeRaises(s)
      PROVE Counts'
  BY <1>4 DEF ProbeAnswers, ProbeTimesOut, ProbeRaises, Alive
<1>5. ASSUME NEW s \in Svc, Restart(s) PROVE Counts'
  BY <1>5 DEF Restart, MayRestart, Spawn, Places
<1>6. ASSUME NEW s \in Svc, Restarted(s) PROVE Counts'
  BY <1>6 DEF Restarted
<1>7. ASSUME NEW s \in Svc, Skip(s) \/ RestartFailed(s) \/ RestartRaised(s)
      PROVE Counts'
  BY <1>7 DEF Skip, RestartFailed, RestartRaised
<1>8. ASSUME NEW s \in Svc, StopOne(s) \/ Serve(s) \/ Crash(s) \/ Terminates(s)
      PROVE Counts'
  BY <1>8 DEF StopOne, LastInserted, Serve, Crash, Terminates, Places
<1>9. CASE UNCHANGED vars
  BY <1>9 DEF vars
<1>. QED
  BY <1>1, <1>2, <1>3, <1>4, <1>5, <1>6, <1>7, <1>8, <1>9 DEF Next, ServiceNext

-----------------------------------------------------------------------------
\* The invariant is preserved, whatever the steps.
THEOREM SupervisorInductive == Spec => []SupervisorInd
<1>1. SupervisorInd /\ [Next]_vars => SupervisorInd'
  BY StepTypes, StepPlaces, StepAnswers, StepOwned, StepStopped, StepCounts
     DEF SupervisorInd
<1>. QED  BY <1>1, InitInd, PTL DEF Spec

\* Every variable keeps its type (start_all, monitor, stop_all), in
\* particular no ServiceProcess counts more than max_restarts.
THEOREM SupervisorTypeCorrect == Spec => []TypeOK
<1>1. SupervisorInd => TypeOK
  BY DEF SupervisorInd
<1>. QED  BY <1>1, SupervisorInductive, PTL

\* start_all: a process exists only after everything it depends on answered.
THEOREM StartsInOrder == Spec => []DependenciesFirst
<1>1. SupervisorInd => DependenciesFirst
  BY DEF SupervisorInd, Answers
<1>. QED  BY <1>1, SupervisorInductive, PTL

\* stop_all: a service is ended only after everything that depends on it.
THEOREM StopsDependentsFirst == Spec => StopsInReverse
<1>1. ASSUME SupervisorInd, [Next]_vars, NEW d \in Svc, stopping,
             d \in toStop, d \notin toStop',
             NEW s \in Svc, d \in Deps[s], proc[s] \in Alive
      PROVE  FALSE
  <2>. USE <1>1, SupervisorAssumption DEF SupervisorInd, TypeOK, Runs, Ends,
           stops, env, history, children, main
  <2>1. LastInserted(d)
    <3>1. CASE LaunchLayer \/ LayerStarted \/ LayerFailed \/ LayerRaised \/ EndSweep \/ Wake
      BY <3>1 DEF LaunchLayer, LayerStarted, LayerFailed, LayerRaised, EndSweep, Wake
    <3>2. CASE BeginStop \/ EndStop \/ Signal \/ GatewayKills
      BY <3>2 DEF BeginStop, EndStop, Signal, GatewayKills
    <3>3. ASSUME NEW t \in Svc, ServiceNext(t), ~StopOne(t) PROVE LastInserted(d)
      BY <3>3 DEF ServiceNext, ProbeAnswers, ProbeTimesOut, ProbeRaises, Restart, Skip,
                  Restarted, RestartFailed, RestartRaised, Serve, Crash, Terminates
    <3>4. ASSUME NEW t \in Svc, StopOne(t) PROVE LastInserted(d)
      BY <3>4 DEF StopOne
    <3>5. CASE UNCHANGED vars
      BY <3>5 DEF vars
    <3>. QED  BY <3>1, <3>2, <3>3, <3>4, <3>5 DEF Next
  <2>2. s \in toStop /\ slot[s] > 0
    BY DEF Owned, Places
  <2>3. slot[s] <= slot[d]
    BY <2>1, <2>2 DEF LastInserted
  <2>4. slot[d] < slot[s]
    BY <2>2 DEF Places
  <2>. QED  BY <2>3, <2>4
<1>2. SupervisorInd /\ [Next]_vars =>
        [\A d \in Svc :
           stopping /\ d \in toStop /\ d \notin toStop' /\ proc[d] \in Alive =>
             \A s \in Svc : d \in Deps[s] => proc[s] \notin Alive]_vars
  BY <1>1
<1>. QED  BY <1>2, SupervisorInductive, PTL DEF Spec, StopsInReverse

\* monitor and stop_all: a supervisor that came up and leaves in order leaves
\* no process behind.
THEOREM LeavesNothingBehind == Spec => []CleanExit
<1>1. SupervisorInd => CleanExit
  BY DEF SupervisorInd, Stopped, CleanExit
<1>. QED  BY <1>1, SupervisorInductive, PTL

\* monitor: max_restarts bounds the respawns while no start fails.
THEOREM RestartsAreBudgeted == Spec => []RestartBudget
<1>1. SupervisorInd => RestartBudget
  BY DEF SupervisorInd, Counts
<1>. QED  BY <1>1, SupervisorInductive, PTL

\* Together: what start_all, monitor and stop_all keep at every moment.
THEOREM SupervisorIsSafe == Spec => []SupervisorSafe
BY SupervisorTypeCorrect, StartsInOrder, LeavesNothingBehind, RestartsAreBudgeted, PTL
   DEF SupervisorSafe

-----------------------------------------------------------------------------
(***************************************************************************)
(* Command lines and their gateways, for every number of terminals, starts, *)
(* edits and faults.  What makes it work is that a gateway which was not    *)
(* started beside another is the only one there is: so it has both files,   *)
(* and every edit before its end was made through it.                       *)
(***************************************************************************)
GwRec == [at : At, by : Terminal \cup {NoConsole}, partial : BOOLEAN,
          env : 0..MaxEdits, raced : BOOLEAN]
ConRec == [at : Mode, target : 0..MaxStarts, mine : 0..MaxEdits, before : 0..MaxEdits]

(* A console waits for a process, and what it edited is counted.            *)
Waiting ==
  \A c \in Terminal :
    /\ con[c].at \in {"leaving", "stopping"} => con[c].target \in Gateway
    /\ con[c].mine <= edits /\ con[c].before <= edits

(* Two gateways at a time were started one beside the other.                *)
Alone == \A g, h \in Gateway : g # h /\ Lives(g) /\ Lives(h) => gw[g].raced

(* One that is by itself has the PID file as soon as it has announced       *)
(* itself, and the socket once it is open.                                  *)
Named ==
  \A g \in Gateway : ~gw[g].raced =>
    /\ gw[g].at \in {"booting", "read", "open", "closing"} => pidFile = g
    /\ gw[g].at = "open" => sock = g

(* Nobody has edited anything since such a gateway read it but through that *)
(* gateway, and whoever did so and quit has stopped it.                     *)
Fresh ==
  \A g \in Gateway, c \in Terminal : ~gw[g].raced =>
    /\ gw[g].at = "read" => con[c].mine <= gw[g].env
    /\ gw[g].at \in {"read", "open"} => con[c].before <= gw[g].env

ConsoleInd == ConsoleTypeOK /\ Waiting /\ Alone /\ Named /\ Fresh

(* Gateways were told to close, or ended, and nothing else.                 *)
FadesTo(gs) ==
  /\ gs \in [Gateway -> GwRec]
  /\ \A g \in Gateway :
       \/ gs[g].at \in {"zombie", "gone"}
       \/ /\ gs[g].raced = gw[g].raced /\ gs[g].env = gw[g].env
          /\ \/ gs[g].at = gw[g].at
             \/ gw[g].at = "open" /\ gs[g].at = "closing"

(* This keeps what is said of the gateways.                                 *)
LEMMA FadingKeeps ==
  ASSUME ConsoleInd, FadesTo(gw'), UNCHANGED <<pidFile, sock>>
  PROVE  Alone' /\ Named'
<1>1. \A g \in Gateway : Lives(g)' => Lives(g) /\ gw'[g].raced = gw[g].raced
  BY DEF FadesTo, Lives
<1>2. Alone'
  BY <1>1 DEF Alone, ConsoleInd
<1>3. Named'
  BY DEF Named, ConsoleInd, FadesTo
<1> QED BY <1>2, <1>3

(* And what is said of the edits, if no console remembers more than before. *)
LEMMA FadingForgets ==
  ASSUME ConsoleInd, FadesTo(gw'), con' \in [Terminal -> ConRec],
         \A c \in Terminal : /\ con'[c].mine <= con[c].mine
                             /\ con'[c].before = con[c].before
  PROVE  Fresh'
<1> SUFFICES ASSUME NEW g \in Gateway, NEW c \in Terminal, ~gw'[g].raced
             PROVE  /\ gw'[g].at = "read" => con'[c].mine <= gw'[g].env
                    /\ gw'[g].at \in {"read", "open"} => con'[c].before <= gw'[g].env
  BY DEF Fresh
<1>1. CASE gw'[g].at \notin {"read", "open"}
  BY <1>1
<1>2. CASE gw'[g].at \in {"read", "open"}
  <2>1. gw[g].at = gw'[g].at /\ gw'[g].env = gw[g].env /\ ~gw[g].raced
    BY <1>2 DEF FadesTo
  <2>2. /\ gw[g].env \in Nat /\ con[c].mine \in Nat /\ con[c].before \in Nat
        /\ con'[c].mine \in Nat
    BY ConsoleAssumption DEF ConsoleInd, ConsoleTypeOK, ConRec
  <2> QED BY <1>2, <2>1, <2>2 DEF ConsoleInd, Fresh
<1> QED BY <1>1, <1>2

(* The ways gateways fade: not at all, told to close over the socket, ended, *)
(* or left without a parent.                                                *)
LEMMA WaysToFade ==
  ASSUME ConsoleInd
  PROVE  /\ FadesTo(gw)
         /\ Served => FadesTo([gw EXCEPT ![sock].at = "closing"])
         /\ \A g \in Gateway : /\ FadesTo([gw EXCEPT ![g] = Process("gone", NoConsole)])
                               /\ FadesTo([gw EXCEPT ![g] = Ended(g)])
<1> USE ConsoleAssumption
<1>0. gw \in [Gateway -> GwRec] /\ sock \in 0..MaxStarts
  BY DEF ConsoleInd, ConsoleTypeOK, GwRec
<1>1. FadesTo(gw)
  BY <1>0 DEF FadesTo
<1>2. ASSUME Served
      PROVE  FadesTo([gw EXCEPT ![sock].at = "closing"])
  <2>1. sock \in Gateway /\ gw[sock].at = "open"
    BY <1>0, <1>2 DEF Served, Gateway
  <2> QED BY <1>0, <2>1 DEF FadesTo, GwRec, At
<1>3. \A at \in {"zombie", "gone"}, by \in Terminal \cup {NoConsole} :
        Process(at, by) \in GwRec /\ Process(at, by).at = at
  BY DEF Process, GwRec, At
<1>4. ASSUME NEW g \in Gateway
      PROVE  /\ FadesTo([gw EXCEPT ![g] = Process("gone", NoConsole)])
             /\ FadesTo([gw EXCEPT ![g] = Ended(g)])
  <2>1. gw[g].by \in Terminal \cup {NoConsole}
    BY <1>0 DEF GwRec
  <2>2. PICK r \in GwRec : r = Ended(g) /\ r.at \in {"zombie", "gone"}
    BY <1>3, <2>1 DEF Ended
  <2>3. PICK q \in GwRec : q = Process("gone", NoConsole) /\ q.at = "gone"
    BY <1>3
  <2>4. ASSUME NEW x \in GwRec, x.at \in {"zombie", "gone"}
        PROVE  FadesTo([gw EXCEPT ![g] = x])
    BY <1>0, <2>4 DEF FadesTo
  <2> QED BY <2>2, <2>3, <2>4
<1> QED BY <1>1, <1>2, <1>4

LEMMA OrphansFade ==
  ASSUME ConsoleInd, NEW c \in Terminal, NEW gs, FadesTo(gs)
  PROVE  /\ FadesTo(Orphaned(c, gs))
         /\ \A g \in Gateway : Orphaned(c, gs)[g].at \in {gs[g].at, "gone"}
<1>1. \A g \in Gateway :
        /\ Orphaned(c, gs)[g] \in GwRec
        /\ \/ Orphaned(c, gs)[g].at = "gone"
           \/ /\ Orphaned(c, gs)[g].at = gs[g].at /\ Orphaned(c, gs)[g].env = gs[g].env
              /\ Orphaned(c, gs)[g].raced = gs[g].raced
  <2> SUFFICES ASSUME NEW g \in Gateway, NEW o, o = Orphaned(c, gs)[g]
               PROVE  /\ o \in GwRec
                      /\ \/ o.at = "gone"
                         \/ o.at = gs[g].at /\ o.env = gs[g].env /\ o.raced = gs[g].raced
    OBVIOUS
  <2>1. gs[g] \in GwRec
    BY DEF FadesTo
  <2>2. o = IF gs[g].by # c THEN gs[g]
            ELSE IF gs[g].at = "zombie" THEN Process("gone", NoConsole)
            ELSE [gs[g] EXCEPT !.by = NoConsole]
    BY DEF Orphaned
  <2>3. CASE gs[g].by # c
    BY <2>1, <2>2, <2>3
  <2>4. CASE gs[g].by = c /\ gs[g].at = "zombie"
    BY <2>2, <2>4, ConsoleAssumption DEF GwRec, Process, At
  <2>5. CASE gs[g].by = c /\ gs[g].at # "zombie"
    BY <2>1, <2>2, <2>5 DEF GwRec, NoConsole
  <2> QED BY <2>3, <2>4, <2>5
<1>2. Orphaned(c, gs) \in [Gateway -> GwRec]
  BY <1>1 DEF Orphaned
<1> HIDE DEF Orphaned
<1>3. PICK os : os = Orphaned(c, gs)
  OBVIOUS
<1> QED BY <1>1, <1>2, <1>3 DEF FadesTo

-----------------------------------------------------------------------------
(* What the steps of a console do to its own record.                        *)
LEMMA RecordTypes ==
  ASSUME ConsoleInd, NEW c \in Terminal, NEW r \in ConRec, con' = [con EXCEPT ![c] = r],
         edits' \in 0..MaxEdits, edits <= edits',
         r.at \in {"leaving", "stopping"} => r.target \in Gateway,
         r.mine <= edits', r.before <= edits'
  PROVE  con' \in [Terminal -> ConRec] /\ Waiting'
<1>1. con \in [Terminal -> ConRec] /\ edits \in Nat /\ edits' \in Nat
  BY ConsoleAssumption DEF ConsoleInd, ConsoleTypeOK, ConRec
<1>2. con' \in [Terminal -> ConRec]
  BY <1>1
<1>3. ASSUME NEW d \in Terminal
      PROVE  /\ con'[d].at \in {"leaving", "stopping"} => con'[d].target \in Gateway
             /\ con'[d].mine <= edits' /\ con'[d].before <= edits'
  <2>1. CASE d = c
    BY <1>1, <2>1
  <2>2. CASE d # c
    <3>1. con'[d] = con[d] /\ con[d].mine \in Nat /\ con[d].before \in Nat
      BY <1>1, <2>2 DEF ConRec
    <3> QED BY <1>1, <3>1 DEF ConsoleInd, Waiting
  <2> QED BY <2>1, <2>2
<1> QED BY <1>2, <1>3 DEF Waiting

(* A step that starts no gateway and edits nothing.  A console remembers    *)
(* what it edited when it quits, and stops the gateway that serves it.      *)
LEMMA FadingStep ==
  ASSUME ConsoleInd, FadesTo(gw'), UNCHANGED <<pidFile, sock, key, edits>>,
         troubles' \in 0..Faults,
         NEW c \in Terminal, NEW r \in ConRec, con' = [con EXCEPT ![c] = r],
         r.at \in {"leaving", "stopping"} => r.target \in Gateway,
         r.mine <= con[c].mine,
         \/ r.before = con[c].before
         \/ r.before = con[c].mine /\ (Served => gw'[sock].at \notin {"read", "open"})
  PROVE  ConsoleInd'
<1> USE ConsoleAssumption
<1>1. /\ con \in [Terminal -> ConRec] /\ edits \in 0..MaxEdits
      /\ con[c].mine \in Nat /\ con[c].before \in Nat /\ r.mine \in Nat /\ r.before \in Nat
      /\ con[c].mine <= edits /\ con[c].before <= edits
  BY DEF ConsoleInd, ConsoleTypeOK, ConRec, Waiting
<1>2. con' \in [Terminal -> ConRec] /\ Waiting'
  <2>1. r.mine <= edits' /\ r.before <= edits' /\ edits' \in 0..MaxEdits /\ edits <= edits'
    BY <1>1
  <2> QED BY <2>1, RecordTypes
<1>3. gw' \in [Gateway -> GwRec]
  BY DEF FadesTo
<1>4. ConsoleTypeOK'
  BY <1>2, <1>3 DEF ConsoleTypeOK, ConsoleInd, ConRec, GwRec
<1>5. Alone' /\ Named'
  BY FadingKeeps
<1>6. Fresh'
  <2> SUFFICES ASSUME NEW g \in Gateway, NEW d \in Terminal, ~gw'[g].raced,
                      gw'[g].at \in {"read", "open"}
               PROVE  /\ gw'[g].at = "read" => con'[d].mine <= gw'[g].env
                      /\ con'[d].before <= gw'[g].env
    BY DEF Fresh
  <2>1. gw[g].at = gw'[g].at /\ gw'[g].env = gw[g].env /\ ~gw[g].raced
    BY DEF FadesTo
  <2>2. gw[g].env \in Nat
    BY DEF ConsoleInd, ConsoleTypeOK
  <2>3. \A e \in Terminal : /\ gw[g].at = "read" => con[e].mine <= gw[g].env
                            /\ con[e].before <= gw[g].env
    BY <2>1 DEF ConsoleInd, Fresh
  <2>4. CASE d # c
    <3>1. con'[d] = con[d]
      BY <1>1, <2>4
    <3> QED BY <2>1, <2>3, <3>1
  <2>5. CASE d = c
    <3>1. con'[d] = r
      BY <1>1, <2>5
    <3>2. CASE r.before = con[c].before
      BY <1>1, <2>1, <2>2, <2>3, <3>1, <3>2
    <3>3. CASE r.before = con[c].mine /\ (Served => gw'[sock].at \notin {"read", "open"})
      <4>1. CASE gw[g].at = "read"
        BY <1>1, <2>1, <2>2, <2>3, <3>1, <3>3, <4>1
      <4>2. CASE gw[g].at = "open"
        <5>1. sock = g
          BY <2>1, <4>2 DEF ConsoleInd, Named
        <5> QED BY <3>3, <4>2, <5>1 DEF Served, Gateway
      <4> QED BY <2>1, <4>1, <4>2
    <3> QED BY <3>2, <3>3
  <2> QED BY <2>4, <2>5
<1> QED BY <1>2, <1>4, <1>5, <1>6 DEF ConsoleInd

(* An edit goes through the gateway that serves, and no other is alone.     *)
LEMMA EditStep ==
  ASSUME ConsoleInd, Served, UNCHANGED <<gw, pidFile, sock, troubles>>,
         key' \in BOOLEAN, edits < MaxEdits, edits' = edits + 1,
         NEW c \in Terminal, NEW r \in ConRec, con' = [con EXCEPT ![c] = r],
         r.at \notin {"leaving", "stopping"},
         r.mine = edits + 1, r.before = con[c].before
  PROVE  ConsoleInd'
<1> USE ConsoleAssumption
<1>1. /\ con \in [Terminal -> ConRec] /\ edits \in 0..MaxEdits
      /\ con[c].before \in Nat /\ con[c].before <= edits
  BY DEF ConsoleInd, ConsoleTypeOK, ConRec, Waiting
<1>2. con' \in [Terminal -> ConRec] /\ Waiting'
  <2>1. r.mine <= edits' /\ r.before <= edits' /\ edits' \in 0..MaxEdits /\ edits <= edits'
    BY <1>1
  <2> QED BY <2>1, RecordTypes
<1>3. ConsoleTypeOK'
  <2>1. edits' \in 0..MaxEdits
    BY <1>1
  <2> QED BY <1>2, <2>1 DEF ConsoleTypeOK, ConsoleInd, ConRec
<1>4. Alone' /\ Named'
  BY DEF ConsoleInd, Alone, Named, Lives
<1>5. Fresh'
  <2> SUFFICES ASSUME NEW g \in Gateway, NEW d \in Terminal, ~gw[g].raced,
                      gw[g].at \in {"read", "open"}
               PROVE  /\ gw[g].at = "read" => con'[d].mine <= gw[g].env
                      /\ con'[d].before <= gw[g].env
    BY DEF Fresh
  <2>1. gw[g].at # "read"
    <3> SUFFICES ASSUME gw[g].at = "read" PROVE FALSE
      OBVIOUS
    <3>1. sock \in Gateway /\ sock # g /\ Lives(sock) /\ Lives(g)
      BY DEF Served, Lives, ConsoleInd, ConsoleTypeOK, Gateway
    <3> QED BY <3>1 DEF ConsoleInd, Alone
  <2>2. con[d].before <= gw[g].env
    BY DEF ConsoleInd, Fresh
  <2>3. con'[d].before = con[d].before
    BY <1>1
  <2> QED BY <2>1, <2>2, <2>3
<1> QED BY <1>2, <1>3, <1>4, <1>5 DEF ConsoleInd

(* A gateway is started beside every other that lives: one that were by     *)
(* itself would have the PID file.                                          *)
LEMMA StartStep ==
  ASSUME ConsoleInd, ~IsRunning, UNCHANGED <<pidFile, sock, key, edits, troubles>>,
         NEW c \in Terminal, StartGateway(c),
         NEW r \in ConRec, con' = [con EXCEPT ![c] = r],
         r.at \notin {"leaving", "stopping"},
         r.mine = con[c].mine, r.before = con[c].before
  PROVE  ConsoleInd'
<1> USE ConsoleAssumption
<1>1. PICK g \in Unused :
        gw' = [h \in Gateway |->
                IF h = g THEN [gw[h] EXCEPT !.at = "spawned", !.by = c, !.raced = Beside # {}]
                ELSE IF h \in Beside THEN [gw[h] EXCEPT !.raced = TRUE]
                ELSE gw[h]]
  BY DEF StartGateway
<1>2. /\ gw \in [Gateway -> GwRec] /\ con \in [Terminal -> ConRec] /\ edits \in 0..MaxEdits
      /\ con[c].mine <= edits /\ con[c].before <= edits
  BY DEF ConsoleInd, ConsoleTypeOK, GwRec, ConRec, Waiting
<1>3. g \in Gateway /\ gw[g].at = "unborn"
  BY <1>1 DEF Unused
<1>4. \A h \in Gateway \ {g} :
        /\ gw'[h].at = gw[h].at /\ gw'[h].env = gw[h].env
        /\ gw'[h].raced = IF h \in Beside THEN TRUE ELSE gw[h].raced
  <2> SUFFICES ASSUME NEW h \in Gateway \ {g}
               PROVE  /\ gw'[h].at = gw[h].at /\ gw'[h].env = gw[h].env
                      /\ gw'[h].raced = IF h \in Beside THEN TRUE ELSE gw[h].raced
    OBVIOUS
  <2>1. gw'[h] = IF h \in Beside THEN [gw[h] EXCEPT !.raced = TRUE] ELSE gw[h]
    BY <1>1
  <2>2. gw[h] \in GwRec
    BY <1>2
  <2>3. CASE h \in Beside
    BY <2>1, <2>2, <2>3 DEF GwRec
  <2>4. CASE h \notin Beside
    BY <2>1, <2>4
  <2> QED BY <2>3, <2>4
<1>5. gw'[g].at = "spawned" /\ gw'[g].raced = (Beside # {})
  <2>1. gw'[g] = [gw[g] EXCEPT !.at = "spawned", !.by = c, !.raced = Beside # {}]
    BY <1>1, <1>3
  <2>2. gw[g] \in GwRec
    BY <1>2, <1>3
  <2> QED BY <2>1, <2>2 DEF GwRec
<1>6. gw' \in [Gateway -> GwRec]
  <2>1. \A h \in Gateway : gw[h] \in GwRec
    BY <1>2
  <2>2. \A x \in GwRec, b \in BOOLEAN : /\ [x EXCEPT !.raced = TRUE] \in GwRec
                                        /\ [x EXCEPT !.at = "spawned", !.by = c, !.raced = b] \in GwRec
    BY DEF GwRec, At
  <2> QED BY <1>1, <2>1, <2>2
<1>7. con' \in [Terminal -> ConRec] /\ Waiting'
  <2>1. r.mine <= edits' /\ r.before <= edits' /\ edits' \in 0..MaxEdits /\ edits <= edits'
    BY <1>2
  <2> QED BY <2>1, RecordTypes
<1>8. ConsoleTypeOK'
  BY <1>6, <1>7 DEF ConsoleTypeOK, ConsoleInd, GwRec, ConRec
<1>9. \A h \in Gateway : Lives(h) => h \in Beside
  <2> SUFFICES ASSUME NEW h \in Gateway, Lives(h), h \notin Beside
               PROVE  FALSE
    OBVIOUS
  <2>1. gw[h].at \in {"booting", "read", "open", "closing"} /\ ~gw[h].raced
    BY DEF Beside, Lives
  <2>2. pidFile = h
    BY <2>1 DEF ConsoleInd, Named
  <2> QED BY <2>2 DEF IsRunning, Exists, Gateway
<1>10. Alone'
  <2> SUFFICES ASSUME NEW h \in Gateway, NEW k \in Gateway, h # k, Lives(h)', Lives(k)'
               PROVE  gw'[h].raced
    BY DEF Alone
  <2>1. CASE h # g
    BY <1>4, <1>9, <2>1 DEF Lives
  <2>2. CASE h = g
    <3>1. k \in Beside
      BY <1>4, <1>9, <2>2 DEF Lives
    <3> QED BY <1>5, <2>2, <3>1
  <2> QED BY <2>1, <2>2
<1>11. Named'
  <2> SUFFICES ASSUME NEW h \in Gateway, ~gw'[h].raced
               PROVE  /\ gw'[h].at \in {"booting", "read", "open", "closing"} => pidFile = h
                      /\ gw'[h].at = "open" => sock = h
    BY DEF Named
  <2>1. CASE h # g
    BY <1>4, <2>1 DEF ConsoleInd, Named
  <2>2. CASE h = g
    BY <1>5, <2>2
  <2> QED BY <2>1, <2>2
<1>12. Fresh'
  <2> SUFFICES ASSUME NEW h \in Gateway, NEW d \in Terminal, ~gw'[h].raced
               PROVE  /\ gw'[h].at = "read" => con'[d].mine <= gw'[h].env
                      /\ gw'[h].at \in {"read", "open"} => con'[d].before <= gw'[h].env
    BY DEF Fresh
  <2>1. con'[d].mine = con[d].mine /\ con'[d].before = con[d].before
    BY <1>2
  <2>2. CASE h # g
    BY <1>4, <2>1, <2>2 DEF ConsoleInd, Fresh
  <2>3. CASE h = g
    BY <1>5, <2>3
  <2> QED BY <2>2, <2>3
<1> QED BY <1>7, <1>8, <1>10, <1>11, <1>12 DEF ConsoleInd

(* A gateway reads what there is, all edits so far.                         *)
LEMMA ReadStep ==
  ASSUME ConsoleInd, NEW g \in Gateway, gw[g].at = "booting", NEW b \in BOOLEAN,
         gw' = [gw EXCEPT ![g].at = "read", ![g].partial = b, ![g].env = edits],
         UNCHANGED <<pidFile, sock, key, edits, con>>, troubles' \in 0..Faults
  PROVE  ConsoleInd'
<1> USE ConsoleAssumption
<1>1. /\ gw \in [Gateway -> GwRec] /\ edits \in 0..MaxEdits
  BY DEF ConsoleInd, ConsoleTypeOK, GwRec
<1>2. PICK x \in GwRec : /\ gw' = [gw EXCEPT ![g] = x]
                         /\ x.at = "read" /\ x.env = edits /\ x.raced = gw[g].raced
  <2>1. PICK y : y = [gw[g] EXCEPT !.at = "read", !.partial = b, !.env = edits]
    OBVIOUS
  <2>2. gw[g] \in GwRec
    BY <1>1
  <2>3. y \in GwRec /\ y.at = "read" /\ y.env = edits /\ y.raced = gw[g].raced
    BY <1>1, <2>1, <2>2 DEF GwRec, At
  <2>4. gw' = [gw EXCEPT ![g] = y]
    BY <2>1
  <2> QED BY <2>3, <2>4
<1>3. gw' \in [Gateway -> GwRec] /\ gw'[g] = x /\ \A h \in Gateway \ {g} : gw'[h] = gw[h]
  BY ZenonT(30), <1>1, <1>2
<1>4. ConsoleTypeOK' /\ Waiting'
  BY <1>3 DEF ConsoleInd, ConsoleTypeOK, GwRec, Waiting
<1>5. \A h \in Gateway : /\ Lives(h)' => Lives(h)
                         /\ gw'[h].raced = gw[h].raced
  BY <1>2, <1>3 DEF Lives
<1>6. Alone'
  BY <1>5 DEF ConsoleInd, Alone
<1>7. Named'
  <2> SUFFICES ASSUME NEW h \in Gateway, ~gw'[h].raced
               PROVE  /\ gw'[h].at \in {"booting", "read", "open", "closing"} => pidFile = h
                      /\ gw'[h].at = "open" => sock = h
    BY DEF Named
  <2>1. CASE h # g
    BY <1>3, <2>1 DEF ConsoleInd, Named
  <2>2. CASE h = g
    BY <1>2, <1>3, <2>2 DEF ConsoleInd, Named
  <2> QED BY <2>1, <2>2
<1>8. Fresh'
  <2> SUFFICES ASSUME NEW h \in Gateway, NEW d \in Terminal, ~gw'[h].raced
               PROVE  /\ gw'[h].at = "read" => con[d].mine <= gw'[h].env
                      /\ gw'[h].at \in {"read", "open"} => con[d].before <= gw'[h].env
    BY DEF Fresh
  <2>1. CASE h # g
    BY <1>3, <2>1 DEF ConsoleInd, Fresh
  <2>2. CASE h = g
    BY <1>2, <1>3, <2>2 DEF ConsoleInd, Waiting
  <2> QED BY <2>1, <2>2
<1> QED BY <1>4, <1>6, <1>7, <1>8 DEF ConsoleInd

(* A gateway takes the PID file, or the socket: one that has to be alone    *)
(* is this one.                                                             *)
LEMMA TakingStep ==
  ASSUME ConsoleInd, NEW g \in Gateway, NEW p \in At,
         \/ gw[g].at = "spawned" /\ p = "booting" /\ pidFile' = g /\ sock' = sock
         \/ gw[g].at = "read" /\ p = "open" /\ pidFile' = pidFile /\ sock' = g,
         gw' = [gw EXCEPT ![g].at = p],
         UNCHANGED <<key, edits, con, troubles>>
  PROVE  ConsoleInd'
<1> USE ConsoleAssumption
<1>1. gw \in [Gateway -> GwRec]
  BY DEF ConsoleInd, ConsoleTypeOK, GwRec
<1>2. /\ gw' \in [Gateway -> GwRec] /\ gw'[g].at = p
      /\ gw'[g].raced = gw[g].raced /\ gw'[g].env = gw[g].env
      /\ \A h \in Gateway \ {g} : gw'[h] = gw[h]
  <2>1. gw[g] \in GwRec
    BY <1>1
  <2>2. [gw[g] EXCEPT !.at = p] \in GwRec
    BY <2>1 DEF GwRec
  <2> QED BY <1>1, <2>1, <2>2 DEF GwRec
<1>3. ConsoleTypeOK' /\ Waiting'
  BY SMTT(30), <1>2 DEF ConsoleInd, ConsoleTypeOK, GwRec, Waiting, Gateway
<1>4. \A h \in Gateway : /\ Lives(h)' => Lives(h)
                         /\ gw'[h].raced = gw[h].raced
  BY <1>2 DEF Lives
<1>5. Alone'
  BY <1>4 DEF ConsoleInd, Alone
<1>6. Named'
  <2> SUFFICES ASSUME NEW h \in Gateway, ~gw'[h].raced
               PROVE  /\ gw'[h].at \in {"booting", "read", "open", "closing"} => pidFile' = h
                      /\ gw'[h].at = "open" => sock' = h
    BY DEF Named
  <2>1. CASE h # g
    <3>1. ~Lives(h)
      BY <1>4, <2>1 DEF ConsoleInd, Alone, Lives
    <3> QED BY <1>2, <2>1, <3>1 DEF Lives
  <2>2. CASE h = g
    BY <1>2, <2>2 DEF ConsoleInd, Named
  <2> QED BY <2>1, <2>2
<1>7. Fresh'
  BY <1>2 DEF ConsoleInd, Fresh
<1> QED BY <1>3, <1>5, <1>6, <1>7 DEF ConsoleInd

(* Its teardown removes both files, which are its own if it was alone.      *)
LEMMA ExitStep ==
  ASSUME ConsoleInd, NEW g \in Gateway, Exit(g)
  PROVE  ConsoleInd'
<1> USE ConsoleAssumption
<1>1. gw[g].at = "closing" /\ gw' = [gw EXCEPT ![g] = Ended(g)] /\ pidFile' = 0 /\ sock' = 0
  BY DEF Exit
<1>2. FadesTo(gw')
  BY <1>1, WaysToFade
<1>3. gw \in [Gateway -> GwRec] /\ gw' \in [Gateway -> GwRec] /\ con \in [Terminal -> ConRec]
  BY <1>2 DEF FadesTo, ConsoleInd, ConsoleTypeOK, GwRec, ConRec
<1>4. ConsoleTypeOK' /\ Waiting'
  BY <1>1, <1>3 DEF Exit, ConsoleInd, ConsoleTypeOK, GwRec, Waiting
<1>5. \A h \in Gateway : Lives(h)' => Lives(h) /\ gw'[h].raced = gw[h].raced
  BY <1>2 DEF FadesTo, Lives
<1>6. ~Lives(g)'
  <2>1. gw'[g] = Ended(g)
    BY <1>1, <1>3
  <2> QED BY <2>1 DEF Ended, Process, Lives
<1>7. Alone'
  BY <1>5 DEF ConsoleInd, Alone
<1>8. \A h \in Gateway : Lives(h)' => gw'[h].raced
  BY <1>1, <1>5, <1>6 DEF ConsoleInd, Alone, Lives
<1>9. Named'
  BY <1>8 DEF Named, Lives
<1>10. Fresh'
  BY <1>8 DEF Fresh, Lives
<1> QED BY <1>4, <1>7, <1>9, <1>10 DEF ConsoleInd

LEMMA CrashStep ==
  ASSUME ConsoleInd, NEW g \in Gateway, CrashGateway(g)
  PROVE  ConsoleInd'
<1> USE ConsoleAssumption
<1>1. FadesTo(gw')
  BY WaysToFade DEF CrashGateway
<1>2. con' = con /\ UNCHANGED <<pidFile, sock, key, edits>> /\ troubles' \in 0..Faults
  BY DEF CrashGateway, ConsoleInd, ConsoleTypeOK
<1>3. gw' \in [Gateway -> GwRec] /\ con' \in [Terminal -> ConRec]
  BY <1>1, <1>2 DEF FadesTo, ConsoleInd, ConsoleTypeOK, ConRec
<1>4. ConsoleTypeOK' /\ Waiting'
  BY <1>2, <1>3 DEF ConsoleInd, ConsoleTypeOK, GwRec, Waiting
<1>5. Alone' /\ Named'
  BY <1>1, <1>2, FadingKeeps
<1>6. Fresh'
  <2>1. \A c \in Terminal : con'[c].mine <= con[c].mine /\ con'[c].before = con[c].before
    BY <1>2 DEF ConsoleInd, ConsoleTypeOK
  <2> QED BY <1>1, <1>3, <2>1, FadingForgets
<1> QED BY <1>4, <1>5, <1>6 DEF ConsoleInd

(* The end of a console, and what comes after it waited.                    *)
LEMMA LeaveStep ==
  ASSUME ConsoleInd, UNCHANGED <<pidFile, sock, key, edits>>, troubles' \in 0..Faults,
         NEW c \in Terminal, NEW gs, FadesTo(gs), Leave(c, gs)
  PROVE  ConsoleInd'
<1> USE ConsoleAssumption
<1>1. con[c] \in ConRec
  BY DEF ConsoleInd, ConsoleTypeOK, ConRec
<1>2. PICK r : r = [at |-> "off", target |-> 0, mine |-> 0, before |-> con[c].before]
  OBVIOUS
<1>3. /\ r \in ConRec /\ r.at \notin {"leaving", "stopping"}
      /\ r.mine <= con[c].mine /\ r.before = con[c].before
  BY <1>1, <1>2 DEF ConRec, Mode
<1>4. con' = [con EXCEPT ![c] = r]
  BY <1>2 DEF Leave
<1>5. FadesTo(gw')
  BY OrphansFade DEF Leave
<1> QED BY <1>3, <1>4, <1>5, FadingStep

LEMMA WaitedStep ==
  ASSUME ConsoleInd, UNCHANGED <<pidFile, sock, key, edits, troubles>>,
         NEW c \in Terminal, NEW gs, FadesTo(gs), Waited(c, gs)
  PROVE  ConsoleInd'
<1> USE ConsoleAssumption
<1>1. con[c] \in ConRec /\ troubles' \in 0..Faults
  BY DEF ConsoleInd, ConsoleTypeOK, ConRec
<1>2. CASE con[c].at = "leaving"
  BY <1>1, <1>2, LeaveStep DEF Waited
<1>3. CASE con[c].at # "leaving"
  <2>1. PICK r : r = [con[c] EXCEPT !.at = "respawn", !.target = 0]
    OBVIOUS
  <2>2. /\ r \in ConRec /\ r.at \notin {"leaving", "stopping"}
        /\ r.mine <= con[c].mine /\ r.before = con[c].before
    <3>1. 0 \in 0..MaxStarts /\ "respawn" \in Mode /\ con[c].mine \in Nat
      BY <1>1 DEF ConRec, Mode
    <3>2. r \in ConRec
      BY <1>1, <2>1, <3>1 DEF ConRec
    <3>3. r.at = "respawn" /\ r.mine = con[c].mine /\ r.before = con[c].before
      BY <1>1, <2>1 DEF ConRec
    <3> QED BY <3>1, <3>2, <3>3
  <2>3. con' = [con EXCEPT ![c] = r] /\ gw' = gs
    BY <1>3, <2>1 DEF Waited
  <2>4. FadesTo(gw')
    BY <2>3
  <2> QED BY <1>1, <2>2, <2>3, <2>4, FadingStep
<1> QED BY <1>2, <1>3

(* A console moves on by itself.                                            *)
LEMMA MoveStep ==
  ASSUME ConsoleInd, UNCHANGED <<gw, pidFile, sock, key, edits, troubles>>,
         NEW c \in Terminal, NEW p \in Mode \ {"leaving", "stopping"},
         con' = [con EXCEPT ![c].at = p]
  PROVE  ConsoleInd'
<1> USE ConsoleAssumption
<1>1. con[c] \in ConRec /\ troubles' \in 0..Faults
  BY DEF ConsoleInd, ConsoleTypeOK, ConRec
<1>2. PICK r : r = [con[c] EXCEPT !.at = p]
  OBVIOUS
<1>3. /\ r \in ConRec /\ r.at \notin {"leaving", "stopping"}
      /\ r.mine <= con[c].mine /\ r.before = con[c].before
  BY <1>1, <1>2 DEF ConRec
<1>4. con' = [con EXCEPT ![c] = r]
  BY <1>2
<1>5. FadesTo(gw')
  BY WaysToFade
<1> QED BY <1>1, <1>3, <1>4, <1>5, FadingStep

(* A console that starts a gateway.                                         *)
LEMMA MoveAndStart ==
  ASSUME ConsoleInd, ~IsRunning, UNCHANGED <<pidFile, sock, key, edits, troubles>>,
         NEW c \in Terminal, NEW p \in Mode \ {"leaving", "stopping"}, StartGateway(c),
         con' = [con EXCEPT ![c].at = p]
  PROVE  ConsoleInd'
<1>1. con[c] \in ConRec
  BY DEF ConsoleInd, ConsoleTypeOK, ConRec
<1>2. PICK r : r = [con[c] EXCEPT !.at = p]
  OBVIOUS
<1>3. /\ r \in ConRec /\ r.at \notin {"leaving", "stopping"}
      /\ r.mine = con[c].mine /\ r.before = con[c].before
  BY <1>1, <1>2 DEF ConRec
<1>4. con' = [con EXCEPT ![c] = r]
  BY <1>2
<1> QED BY <1>3, <1>4, StartStep

(* A console edits, and stays in its mode or has stored the key.            *)
LEMMA MoveAndEdit ==
  ASSUME ConsoleInd, Served, UNCHANGED <<gw, pidFile, sock, troubles>>,
         key' \in BOOLEAN, edits < MaxEdits, edits' = edits + 1,
         NEW c \in Terminal, NEW p \in {"setup", "normal", "stored"},
         con' = [con EXCEPT ![c].mine = edits + 1, ![c].at = p]
  PROVE  ConsoleInd'
<1> USE ConsoleAssumption
<1>1. con[c] \in ConRec /\ edits \in 0..MaxEdits
  BY DEF ConsoleInd, ConsoleTypeOK, ConRec
<1>2. PICK r : r = [con[c] EXCEPT !.mine = edits + 1, !.at = p]
  OBVIOUS
<1>3. edits + 1 \in 0..MaxEdits
  BY <1>1
<1>4. /\ r \in ConRec /\ r.at \notin {"leaving", "stopping"}
      /\ r.mine = edits + 1 /\ r.before = con[c].before
  BY <1>1, <1>2, <1>3 DEF ConRec, Mode
<1>5. con' = [con EXCEPT ![c] = r]
  BY <1>2
<1> QED BY <1>4, <1>5, EditStep

(* Whoever quits has told the gateway that serves it to stop.               *)
LEMMA QuitStep ==
  ASSUME ConsoleInd, NEW c \in Terminal, Quit(c)
  PROVE  ConsoleInd'
<1> USE ConsoleAssumption
<1>1. /\ con[c] \in ConRec /\ troubles \in 0..Faults /\ pidFile \in 0..MaxStarts
      /\ sock \in 0..MaxStarts /\ gw \in [Gateway -> GwRec]
  BY DEF ConsoleInd, ConsoleTypeOK, ConRec, GwRec
<1>2. PICK gs : gs = IF Served THEN [gw EXCEPT ![sock].at = "closing"] ELSE gw
  OBVIOUS
<1>3. FadesTo(gs)
  BY <1>2, WaysToFade
<1>4. Served => gs[sock].at = "closing" /\ sock \in Gateway
  <2> SUFFICES ASSUME Served PROVE gs[sock].at = "closing" /\ sock \in Gateway
    OBVIOUS
  <2>1. sock \in Gateway
    BY <1>1 DEF Served, Gateway
  <2>2. gw[sock] \in GwRec
    BY <1>1, <2>1
  <2> QED BY <1>1, <1>2, <2>1, <2>2 DEF GwRec
<1>5. CASE pidFile = 0
  <2>1. PICK r : r = [at |-> "off", target |-> 0, mine |-> 0, before |-> con[c].mine]
    OBVIOUS
  <2>2. con' = [con EXCEPT ![c] = r] /\ gw' = Orphaned(c, gs)
    BY <1>2, <1>5, <2>1 DEF Quit
  <2>3. /\ r \in ConRec /\ r.at \notin {"leaving", "stopping"}
        /\ r.mine <= con[c].mine /\ r.before = con[c].mine
    BY <1>1, <2>1 DEF ConRec, Mode
  <2>4. FadesTo(gw') /\ \A g \in Gateway : gw'[g].at \in {gs[g].at, "gone"}
    BY <1>3, <2>2, OrphansFade
  <2>5. Served => gw'[sock].at \notin {"read", "open"}
    BY <1>4, <2>4
  <2> QED BY <1>1, <2>2, <2>3, <2>4, <2>5, FadingStep DEF Quit
<1>6. CASE pidFile # 0
  <2>1. PICK r : r = [con[c] EXCEPT !.at = "leaving", !.target = pidFile, !.before = con[c].mine]
    OBVIOUS
  <2>2. con' = [con EXCEPT ![c] = r] /\ gw' = gs
    BY <1>2, <1>6, <2>1 DEF Quit
  <2>3. r \in ConRec /\ r.target \in Gateway
    <3>1. "leaving" \in Mode /\ con[c].mine \in 0..MaxEdits /\ pidFile \in 1..MaxStarts
      BY <1>1, <1>6 DEF ConRec, Mode
    <3>2. r.target = pidFile
      BY <1>1, <2>1 DEF ConRec
    <3>3. r \in ConRec
      BY <1>1, <2>1, <3>1 DEF ConRec
    <3> QED BY <3>1, <3>2, <3>3 DEF Gateway
  <2>4. r.mine = con[c].mine /\ r.before = con[c].mine /\ con[c].mine \in Nat
    BY <1>1, <2>1 DEF ConRec
  <2>5. FadesTo(gw')
    BY <1>3, <2>2
  <2>6. Served => gw'[sock].at \notin {"read", "open"}
    BY <1>4, <2>2
  <2>7. r.mine <= con[c].mine
    BY <2>4
  <2> QED BY <1>1, <2>2, <2>3, <2>4, <2>5, <2>6, <2>7, FadingStep DEF Quit
<1> QED BY <1>5, <1>6

LEMMA RestartStep ==
  ASSUME ConsoleInd, NEW c \in Terminal, RestartGateway(c)
  PROVE  ConsoleInd'
<1> USE ConsoleAssumption
<1>1. /\ con[c] \in ConRec /\ troubles \in 0..Faults /\ pidFile \in 0..MaxStarts
  BY DEF ConsoleInd, ConsoleTypeOK, ConRec
<1>2. PICK p \in Mode : p = IF pidFile = 0 THEN "respawn" ELSE "stopping"
  BY DEF Mode
<1>3. PICK r : r = [con[c] EXCEPT !.target = pidFile, !.at = p]
  OBVIOUS
<1>4. con' = [con EXCEPT ![c] = r]
  BY <1>2, <1>3 DEF RestartGateway, Stop
<1>5. r \in ConRec /\ (r.at \in {"leaving", "stopping"} => r.target \in Gateway)
  <2>1. r \in ConRec
    BY <1>1, <1>3 DEF ConRec
  <2>2. r.target = pidFile /\ r.at = p
    BY <1>1, <1>3 DEF ConRec
  <2>3. pidFile # 0 => pidFile \in Gateway
    BY <1>1 DEF Gateway
  <2> QED BY <1>2, <2>1, <2>2, <2>3
<1>6. r.mine = con[c].mine /\ r.before = con[c].before /\ con[c].mine \in Nat
  BY <1>1, <1>3 DEF ConRec
<1>7. FadesTo(gw')
  BY WaysToFade DEF RestartGateway, Stop
<1>8. r.mine <= con[c].mine
  BY <1>6
<1> QED BY <1>1, <1>4, <1>5, <1>6, <1>7, <1>8, FadingStep DEF RestartGateway

LEMMA ConsoleStartsSo == ConsoleInit => ConsoleInd
<1> SUFFICES ASSUME ConsoleInit PROVE ConsoleInd
  OBVIOUS
<1> USE ConsoleAssumption DEF ConsoleInit
<1>1. \A g \in Gateway : gw[g] = Process("unborn", NoConsole) /\ gw[g].at = "unborn"
  BY DEF Process
<1>2. Process("unborn", NoConsole) \in GwRec
  BY DEF Process, GwRec, At
<1>3. [at |-> "off", target |-> 0, mine |-> 0, before |-> 0] \in ConRec
  BY DEF ConRec, Mode
<1>4. gw \in [Gateway -> GwRec] /\ con \in [Terminal -> ConRec]
  BY <1>2, <1>3
<1>5. ConsoleTypeOK
  BY <1>4 DEF ConsoleTypeOK, GwRec, ConRec
<1>6. Waiting
  BY DEF Waiting
<1>7. Alone /\ Named /\ Fresh
  BY <1>1 DEF Alone, Named, Fresh, Lives
<1> QED BY <1>5, <1>6, <1>7 DEF ConsoleInd

LEMMA ConsoleMoves ==
  ASSUME ConsoleInd, NEW c \in Terminal, ConsoleStep(c)
  PROVE  ConsoleInd'
<1> USE ConsoleAssumption
<1>0. /\ con[c] \in ConRec /\ con \in [Terminal -> ConRec] /\ key \in BOOLEAN
      /\ gw \in [Gateway -> GwRec] /\ sock \in 0..MaxStarts /\ troubles \in 0..Faults
  BY DEF ConsoleInd, ConsoleTypeOK, ConRec, GwRec
<1>1. CASE Launch(c)
  <2>1. {"connect", "await"} \subseteq Mode \ {"leaving", "stopping"}
    BY DEF Mode
  <2>2. CASE IsRunning
    BY <1>1, <2>1, <2>2, MoveStep DEF Launch
  <2>3. CASE ~IsRunning
    BY <1>1, <2>1, <2>3, MoveAndStart DEF Launch
  <2> QED BY <2>2, <2>3
<1>2. CASE Healthy(c)
  BY <1>2, MoveStep DEF Healthy, Mode
<1>3. CASE NotHealthy(c)
  <2>1. FadesTo(gw)
    BY WaysToFade
  <2> QED BY <1>0, <1>3, <2>1, LeaveStep DEF NotHealthy
<1>4. CASE Connect(c)
  <2>1. CASE Served
    <3>1. ModeFor(sock) \in Mode \ {"leaving", "stopping"}
      BY DEF ModeFor, Mode
    <3> QED BY <1>4, <2>1, <3>1, MoveStep DEF Connect
  <2>2. CASE ~Served
    <3>1. FadesTo(gw)
      BY WaysToFade
    <3> QED BY <1>0, <1>4, <2>2, <3>1, LeaveStep DEF Connect
  <2> QED BY <2>1, <2>2
<1>5. CASE EditVault(c) \/ EditEnv(c) \/ EditAccounts(c)
  <2>1. /\ con[c].at \in {"setup", "normal"} /\ Served /\ Edited(c)
        /\ key' \in BOOLEAN /\ UNCHANGED <<gw, pidFile, sock, troubles>>
    BY <1>0, <1>5 DEF EditVault, EditEnv, EditAccounts, WriteYaml, WriteAccounts
  <2>2. con' = [con EXCEPT ![c].mine = edits + 1, ![c].at = con[c].at]
    <3>1. con' = [con EXCEPT ![c] = [con[c] EXCEPT !.mine = edits + 1]]
      BY <2>1 DEF Edited
    <3>2. [con[c] EXCEPT !.mine = edits + 1] = [con[c] EXCEPT !.mine = edits + 1, !.at = con[c].at]
      BY <1>0 DEF ConRec
    <3> QED BY <3>1, <3>2
  <2> QED BY <2>1, <2>2, MoveAndEdit DEF Edited
<1>6. CASE StoreKey(c)
  BY <1>6, MoveAndEdit DEF StoreKey
<1>7. CASE RestartGateway(c)
  BY <1>7, RestartStep
<1>8. CASE Quit(c)
  BY <1>8, QuitStep
<1>9. CASE StopSeen(c)
  <2>1. con[c].target \in Gateway
    BY <1>9 DEF StopSeen, ConsoleInd, Waiting
  <2>2. PICK gs : gs = [gw EXCEPT ![con[c].target] = Process("gone", NoConsole)]
    OBVIOUS
  <2>3. FadesTo(gs)
    BY <2>1, <2>2, WaysToFade
  <2>4. Waited(c, gs)
    BY <1>9, <2>2 DEF StopSeen
  <2> QED BY <1>9, <2>3, <2>4, WaitedStep DEF StopSeen
<1>10. CASE ForceKill(c)
  <2>1. con[c].target \in Gateway
    BY <1>10 DEF ForceKill, ConsoleInd, Waiting
  <2>2. PICK gs : gs = [gw EXCEPT ![con[c].target] =
                          IF Lives(con[c].target) THEN Ended(con[c].target) ELSE @]
    OBVIOUS
  <2>3. FadesTo(gs)
    <3>1. CASE Lives(con[c].target)
      BY <2>1, <2>2, <3>1, WaysToFade
    <3>2. CASE ~Lives(con[c].target)
      <4>1. gs = gw
        BY <1>0, <2>1, <2>2, <3>2
      <4> QED BY <4>1, WaysToFade
    <3> QED BY <3>1, <3>2
  <2>4. Waited(c, gs)
    BY <1>10, <2>2 DEF ForceKill
  <2> QED BY <1>10, <2>3, <2>4, WaitedStep DEF ForceKill
<1>11. CASE Respawn(c)
  <2>1. "rewait" \in Mode \ {"leaving", "stopping"}
    BY DEF Mode
  <2>2. CASE IsRunning
    BY <1>11, <2>1, <2>2, MoveStep DEF Respawn
  <2>3. CASE ~IsRunning
    BY <1>11, <2>1, <2>3, MoveAndStart DEF Respawn
  <2> QED BY <2>2, <2>3
<1>12. CASE Rewait(c)
  <2>1. (IF Served THEN ModeFor(sock) ELSE "setup") \in Mode \ {"leaving", "stopping"}
    BY DEF ModeFor, Mode
  <2> QED BY <1>12, <2>1, MoveStep DEF Rewait
<1>13. CASE Vanish(c)
  <2>1. FadesTo(gw) /\ troubles' \in 0..Faults
    BY <1>0, <1>13, WaysToFade DEF Vanish
  <2> QED BY <1>13, <2>1, LeaveStep DEF Vanish
<1> QED BY <1>1, <1>2, <1>3, <1>4, <1>5, <1>6, <1>7, <1>8, <1>9, <1>10, <1>11, <1>12, <1>13
        DEF ConsoleStep

LEMMA GatewayMoves ==
  ASSUME ConsoleInd, NEW g \in Gateway, GatewayStep(g)
  PROVE  ConsoleInd'
<1> USE ConsoleAssumption
<1>1. CASE Announce(g)
  BY <1>1, TakingStep DEF Announce, At
<1>2. CASE ReadEnv(g)
  <2>1. troubles' \in 0..Faults /\ (~key) \in BOOLEAN
    BY <1>2 DEF ReadEnv, ConsoleInd, ConsoleTypeOK
  <2> QED BY <1>2, <2>1, ReadStep DEF ReadEnv
<1>3. CASE StartupFails(g)
  <2>1. troubles' \in 0..Faults
    BY <1>3 DEF StartupFails, ConsoleInd, ConsoleTypeOK
  <2> QED BY <1>3, <2>1, ReadStep DEF StartupFails
<1>4. CASE Open(g)
  BY <1>4, TakingStep DEF Open, At
<1>5. CASE Exit(g)
  BY <1>5, ExitStep
<1>6. CASE CrashGateway(g)
  BY <1>6, CrashStep
<1> QED BY <1>1, <1>2, <1>3, <1>4, <1>5, <1>6 DEF GatewayStep

(* A gateway is found by its PID or its socket unless it was started beside *)
(* another, and whoever quits and launches again meets its own edits: for   *)
(* every number of terminals, gateways, edits and faults.                   *)
THEOREM HintsHold == ConsoleInit /\ [][ConsoleNext]_consoleVars => []HintHolds
<1>1. ConsoleInit => ConsoleInd
  BY ConsoleStartsSo
<1>2. ConsoleInd /\ [ConsoleNext]_consoleVars => ConsoleInd'
  <2> SUFFICES ASSUME ConsoleInd, [ConsoleNext]_consoleVars PROVE ConsoleInd'
    OBVIOUS
  <2>1. CASE ConsoleNext
    BY <2>1, ConsoleMoves, GatewayMoves DEF ConsoleNext
  <2>2. CASE UNCHANGED consoleVars
    BY <2>2 DEF consoleVars, ConsoleInd, ConsoleTypeOK, Waiting, Alone, Named, Fresh, Lives
  <2> QED BY <2>1, <2>2
<1>3. ConsoleInd => HintHolds
  <2> SUFFICES ASSUME ConsoleInd PROVE HintHolds
    OBVIOUS
  <2>1. StraysRaced
    BY DEF ConsoleInd, Named, StraysRaced
  <2>2. EditsArrive
    BY ConsoleAssumption DEF ConsoleInd, ConsoleTypeOK, Fresh, EditsArrive, Served, Gateway
  <2> QED BY <2>1, <2>2 DEF ConsoleInd, HintHolds
<1> QED BY <1>1, <1>2, <1>3, PTL
=============================================================================
