----------------------------- MODULE Supervisor -----------------------------
(***************************************************************************)
(* One supervisor process and the service processes it owns.  The          *)
(* supervisor is one event loop: start_all launches the services layer by  *)
(* layer, monitor respawns those that exited, and every SIGINT or SIGTERM  *)
(* schedules a stop_all, which never awaits and so freezes the other       *)
(* coroutines until it returns.  The children outlive their parent.        *)
(***************************************************************************)
EXTENDS Naturals

CONSTANTS
  Svc,          \* the services of the profile
  Deps,         \* depends_on
  Probes,       \* the services a service asks for their health while it boots
  Restartable,  \* the services with restart_on_crash
  MaxRestarts,  \* max_restarts
  MaxFaults,    \* bound: exits, slow starts and probes that raise
  MaxSignals,   \* bound: signals sent to the supervisor
  Impatient     \* whether the gateway's 15 s for the supervisor may run out

(* _resolve_startup_order raises before anything is spawned when the        *)
(* dependencies have a cycle or name no service.                            *)
ASSUME SupervisorAssumption ==
  /\ Deps \in [Svc -> SUBSET Svc] /\ Probes \in [Svc -> SUBSET Svc]
  /\ \A S \in SUBSET Svc : S # {} => \E s \in S : Deps[s] \cap S = {}
  /\ MaxRestarts \in Nat /\ MaxFaults \in Nat /\ MaxSignals \in Nat
  /\ Impatient \in BOOLEAN

VARIABLES
  pc,        \* where start_all, then monitor, is
  exit,      \* how the supervisor ended
  proc,      \* the latest process of each service
  wait,      \* the _start_service coroutine of each service
  table,     \* the keys of _services
  slot,      \* their place in the dictionary: the layer that inserted them
  count,     \* restart_count of the ServiceProcess in the table
  top,       \* the layer being started
  todo,      \* the services the monitor's sweep has still to look at
  cur,       \* the service the monitor is restarting
  carry,     \* restart_count of the ServiceProcess it replaces
  shutdown,  \* _shutdown_event
  pending,   \* a signal whose stop_all has not begun
  stopping,  \* stop_all is running
  toStop,    \* the services it has still to stop
  faults, signals,                        \* what is left of the bounds
  ready, answered, failedStart,           \* history
  respawns   \* history: how often each was, until a start of it failed

main == <<pc, exit, top, todo, cur, carry, ready>>
children == <<proc, wait, table, slot, count>>
stops == <<shutdown, pending, stopping, toStop>>
env == <<faults, signals>>
history == <<answered, respawns, failedStart>>
vars == <<main, children, stops, env, history>>

Alive == {"booting", "serving", "dying"}

Init ==
  /\ pc = "launch" /\ exit = "no" /\ top = 0 /\ ready = FALSE
  /\ todo = {} /\ cur = {} /\ carry = 0
  /\ proc = [s \in Svc |-> "none"] /\ wait = [s \in Svc |-> "idle"]
  /\ table = {} /\ slot = [s \in Svc |-> 0] /\ count = [s \in Svc |-> 0]
  /\ shutdown = FALSE /\ pending = FALSE /\ stopping = FALSE /\ toStop = {}
  /\ faults = MaxFaults /\ signals = MaxSignals
  /\ answered = {} /\ respawns = [s \in Svc |-> 0] /\ failedStart = {}

(* A coroutine other than stop_all can take a step.                         *)
Runs(p) == pc = p /\ ~stopping

Ends(how) == pc' = "exited" /\ exit' = how

-----------------------------------------------------------------------------
(* start_all.                                                               *)

Launched == {s \in Svc : slot[s] > 0}

NextLayer == {s \in Svc \ Launched : Deps[s] \subseteq Launched}

(* The synchronous part of _start_service for the services of S: a new      *)
(* process, a new ServiceProcess under the service's key, the probe begun.  *)
Spawn(S) ==
  /\ proc' = [s \in Svc |-> IF s \in S THEN "booting" ELSE proc[s]]
  /\ wait' = [s \in Svc |-> IF s \in S THEN "waiting" ELSE wait[s]]
  /\ count' = [s \in Svc |-> IF s \in S THEN 0 ELSE count[s]]
  /\ table' = table \cup S

LaunchLayer ==
  /\ Runs("launch")
  /\ Spawn(NextLayer)
  /\ slot' = [s \in Svc |-> IF s \in NextLayer THEN top + 1 ELSE slot[s]]
  /\ top' = top + 1
  /\ pc' = "gather"
  /\ UNCHANGED <<exit, todo, cur, carry, ready, stops, env, history>>

Layer == {s \in Svc : slot[s] = top}

(* gather returned: on to the next layer; out of layers, into the monitor,  *)
(* which looks at the event first; or a failure, which ends in stop_all.    *)
LayerStarted ==
  /\ Runs("gather") /\ \A s \in Layer : wait[s] = "ok"
  /\ \/ /\ Launched # Svc
        /\ pc' = "launch"
        /\ UNCHANGED <<exit, todo, ready>>
     \/ /\ Launched = Svc
        /\ IF shutdown THEN Ends("orderly") ELSE pc' = "sweep" /\ exit' = exit
        /\ ready' = ~shutdown
        /\ todo' = table
  /\ UNCHANGED <<top, cur, carry, children, stops, env, history>>

LayerFailed ==
  /\ Runs("gather")
  /\ \A s \in Layer : wait[s] \in {"ok", "failed"}
  /\ \E s \in Layer : wait[s] = "failed"
  /\ pc' = "failed"
  /\ UNCHANGED <<exit, top, todo, cur, carry, ready, children, stops, env, history>>

(* An exception of a probe passes through gather, start_all and the main    *)
(* coroutine; nothing stops the services.                                   *)
LayerRaised ==
  /\ Runs("gather") /\ \E s \in Layer : wait[s] = "raised"
  /\ Ends("raised")
  /\ UNCHANGED <<top, todo, cur, carry, ready, children, stops, env, history>>

-----------------------------------------------------------------------------
(* wait_for_health and the rest of _start_service.                          *)

ProbeAnswers(s) ==
  /\ ~stopping /\ pc # "exited"
  /\ wait[s] = "waiting" /\ proc[s] = "serving"
  /\ wait' = [wait EXCEPT ![s] = "ok"]
  /\ answered' = answered \cup {s}
  /\ UNCHANGED <<main, proc, table, slot, count, stops, env, respawns, failedStart>>

(* The timeout: the process is told to terminate, nobody waits for it.      *)
ProbeTimesOut(s) ==
  /\ ~stopping /\ pc # "exited"
  /\ wait[s] = "waiting"
  /\ \/ proc[s] \notin {"booting", "serving"} /\ faults' = faults
     \/ proc[s] = "booting" /\ faults > 0 /\ faults' = faults - 1
  /\ wait' = [wait EXCEPT ![s] = "failed"]
  /\ proc' = [proc EXCEPT ![s] = IF @ \in Alive THEN "dying" ELSE @]
  /\ failedStart' = failedStart \cup {s}
  /\ UNCHANGED <<main, table, slot, count, stops, signals, answered, respawns>>

(* The service accepts and does not answer within 5 s, or exits while the   *)
(* request is open: httpx raises what wait_for_health does not catch.       *)
ProbeRaises(s) ==
  /\ ~stopping /\ pc # "exited"
  /\ wait[s] = "waiting" /\ proc[s] = "serving"
  /\ faults > 0 /\ faults' = faults - 1
  /\ wait' = [wait EXCEPT ![s] = "raised"]
  /\ UNCHANGED <<main, proc, table, slot, count, stops, signals, history>>

-----------------------------------------------------------------------------
(* monitor.                                                                 *)

(* Mutant: the event is not looked at before a restart.                    *)
MayRestartAnyway(s) ==
  proc[s] = "dead" /\ s \in Restartable /\ count[s] < MaxRestarts

MayRestart(s) ==
  /\ proc[s] = "dead"
  /\ s \in Restartable
  /\ count[s] < MaxRestarts
  /\ ~shutdown

Restart(s) ==
  /\ Runs("sweep") /\ s \in todo /\ MayRestart(s)
  /\ Spawn({s})
  /\ carry' = count[s] + 1
  /\ cur' = {s}
  /\ todo' = todo \ {s}
  /\ respawns' = [respawns EXCEPT ![s] = IF s \in failedStart THEN @ ELSE @ + 1]
  /\ pc' = "restart"
  /\ UNCHANGED <<exit, top, ready, slot, stops, env, answered, failedStart>>

Skip(s) ==
  /\ Runs("sweep") /\ s \in todo /\ ~MayRestart(s)
  /\ todo' = todo \ {s}
  /\ UNCHANGED <<pc, exit, top, cur, carry, ready, children, stops, env, history>>

(* The count is carried over to the new ServiceProcess, which is looked up  *)
(* by name, after a start that succeeded.                                   *)
Restarted(s) ==
  /\ Runs("restart") /\ s \in cur /\ wait[s] = "ok"
  /\ IF s \in table
       THEN count' = [count EXCEPT ![s] = carry] /\ pc' = "sweep" /\ exit' = exit
       ELSE Ends("raised") /\ count' = count
  /\ cur' = {}
  /\ UNCHANGED <<top, todo, carry, ready, proc, wait, table, slot, stops, env, history>>

RestartFailed(s) ==
  /\ Runs("restart") /\ s \in cur /\ wait[s] = "failed"
  /\ pc' = "sweep"
  /\ cur' = {}
  /\ UNCHANGED <<exit, top, todo, carry, ready, children, stops, env, history>>

RestartRaised(s) ==
  /\ Runs("restart") /\ s \in cur /\ wait[s] = "raised"
  /\ Ends("raised")
  /\ cur' = {}
  /\ UNCHANGED <<top, todo, carry, ready, children, stops, env, history>>

EndSweep ==
  /\ Runs("sweep") /\ todo = {}
  /\ pc' = "sleep"
  /\ UNCHANGED <<exit, top, todo, cur, carry, ready, children, stops, env, history>>

(* Mutant: the loop looks at a copy of the services taken before there were *)
(* any.                                                                     *)
WakeBlind ==
  /\ Runs("sleep")
  /\ IF shutdown THEN Ends("orderly") ELSE pc' = "sweep" /\ exit' = exit
  /\ todo' = {}
  /\ UNCHANGED <<top, cur, carry, ready, children, stops, env, history>>

(* The wait for the event ends: it is set, or health_interval is over.      *)
Wake ==
  /\ Runs("sleep")
  /\ IF shutdown THEN Ends("orderly") ELSE pc' = "sweep" /\ exit' = exit
  /\ todo' = table
  /\ UNCHANGED <<top, cur, carry, ready, children, stops, env, history>>

-----------------------------------------------------------------------------
(* stop_all, for a signal or for a failed start.                            *)

BeginStop ==
  /\ ~stopping /\ pc # "exited"
  /\ \/ pc = "failed" /\ pending' = pending
     \/ top > 0 /\ pending /\ pc # "failed" /\ pending' = FALSE
  /\ shutdown' = TRUE /\ stopping' = TRUE
  /\ toStop' = table
  /\ UNCHANGED <<main, children, env, history>>

(* Mutant: in the order of the dictionary.                                  *)
FirstInserted(s) == s \in toStop /\ \A t \in toStop : slot[s] <= slot[t]

LastInserted(s) == s \in toStop /\ \A t \in toStop : slot[t] <= slot[s]

(* terminate, wait, and kill when the wait is over: it returns once the     *)
(* process is dead.                                                         *)
StopOne(s) ==
  /\ stopping /\ pc # "exited" /\ LastInserted(s)
  /\ proc' = [proc EXCEPT ![s] = "dead"]
  /\ toStop' = toStop \ {s}
  /\ UNCHANGED <<main, wait, table, slot, count, shutdown, pending, stopping, env, history>>

EndStop ==
  /\ stopping /\ pc # "exited" /\ toStop = {}
  /\ table' = {}
  /\ stopping' = FALSE
  /\ IF pc = "failed" THEN Ends("failed") ELSE UNCHANGED <<pc, exit>>
  /\ UNCHANGED <<top, todo, cur, carry, ready, proc, wait, slot, count,
                 shutdown, pending, toStop, env, history>>

-----------------------------------------------------------------------------
(* The service processes and whoever started the supervisor.                *)

(* A service comes up, or exits when one that it probes does not answer: in *)
(* mode real the server asks the executor, once.                            *)
Serve(s) ==
  /\ proc[s] = "booting"
  /\ proc' = [proc EXCEPT ![s] =
       IF \A t \in Probes[s] : proc[t] = "serving" THEN "serving" ELSE "dead"]
  /\ UNCHANGED <<main, wait, table, slot, count, stops, env, history>>

Crash(s) ==
  /\ proc[s] \in {"booting", "serving"} /\ faults > 0 /\ pc # "exited"
  /\ proc' = [proc EXCEPT ![s] = "dead"]
  /\ faults' = faults - 1
  /\ UNCHANGED <<main, wait, table, slot, count, stops, signals, history>>

Terminates(s) ==
  /\ proc[s] = "dying"
  /\ proc' = [proc EXCEPT ![s] = "dead"]
  /\ UNCHANGED <<main, wait, table, slot, count, stops, env, history>>

Signal ==
  /\ signals > 0 /\ pc # "exited"
  /\ signals' = signals - 1
  /\ pending' = TRUE
  /\ UNCHANGED <<main, children, shutdown, stopping, toStop, faults, history>>

(* The gateway waits 15 s for the supervisor it told to terminate.          *)
GatewayKills ==
  /\ Impatient /\ pc # "exited" /\ (pending \/ shutdown)
  /\ Ends("killed")
  /\ UNCHANGED <<top, todo, cur, carry, ready, children, stops, env, history>>

-----------------------------------------------------------------------------
ServiceNext(s) ==
  \/ ProbeAnswers(s) \/ ProbeTimesOut(s) \/ ProbeRaises(s)
  \/ Restart(s) \/ Skip(s)
  \/ Restarted(s) \/ RestartFailed(s) \/ RestartRaised(s)
  \/ StopOne(s)
  \/ Serve(s) \/ Crash(s) \/ Terminates(s)

Next ==
  \/ LaunchLayer \/ LayerStarted \/ LayerFailed \/ LayerRaised
  \/ EndSweep \/ Wake
  \/ BeginStop \/ EndStop
  \/ Signal \/ GatewayKills
  \/ \E s \in Svc : ServiceNext(s)

Spec == Init /\ [][Next]_vars
=============================================================================
