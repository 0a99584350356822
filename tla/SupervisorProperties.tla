------------------------ MODULE SupervisorProperties ------------------------
(* What the supervisor promises about the processes it owns.                *)
EXTENDS Supervisor

TypeOK ==
  /\ pc \in {"launch", "gather", "failed", "sweep", "restart", "sleep", "exited"}
  /\ exit \in {"no", "orderly", "failed", "raised", "killed"}
  /\ proc \in [Svc -> {"none", "dead"} \cup Alive]
  /\ wait \in [Svc -> {"idle", "waiting", "ok", "failed", "raised"}]
  /\ table \subseteq Svc /\ todo \subseteq Svc /\ cur \subseteq Svc
  /\ toStop \subseteq Svc
  /\ slot \in [Svc -> Nat] /\ top \in Nat
  /\ count \in [Svc -> 0..MaxRestarts] /\ carry \in 0..MaxRestarts
  /\ shutdown \in BOOLEAN /\ pending \in BOOLEAN
  /\ stopping \in BOOLEAN /\ ready \in BOOLEAN
  /\ faults \in 0..MaxFaults /\ signals \in 0..MaxSignals
  /\ answered \subseteq Svc /\ failedStart \subseteq Svc
  /\ respawns \in [Svc -> Nat]

(* No process of a service exists before each service it depends on has     *)
(* answered a probe (start_all's layers), whatever fails, stops or restarts *)
(* in between.                                                              *)
DependenciesFirst ==
  \A s \in Svc : proc[s] # "none" => Deps[s] \subseteq answered

(* stop_all ends a service only when no process that depends on it is       *)
(* alive.  It walks the dictionary backwards, so a restart must not change  *)
(* a service's place in it.                                                 *)
StopsInReverse ==
  [][\A d \in Svc :
       stopping /\ d \in toStop /\ d \notin toStop' /\ proc[d] \in Alive =>
         \A s \in Svc : d \in Deps[s] => proc[s] \notin Alive]_vars

(* A supervisor that came up and then leaves in order leaves no process     *)
(* behind, even when the signal meets a restart half way.                   *)
CleanExit ==
  ready /\ exit = "orderly" => \A s \in Svc : proc[s] \notin Alive

(* max_restarts bounds the respawns of a service none of whose starts       *)
(* failed.                                                                  *)
RestartBudget ==
  \A s \in Svc : s \notin failedStart => respawns[s] <= MaxRestarts

(* Together, wherever signals and exits fall.                               *)
SupervisorSafe == TypeOK /\ DependenciesFirst /\ CleanExit /\ RestartBudget

(* A signal ends the supervisor (the handler schedules stop_all, and every  *)
(* wait of start_all and monitor is bounded).                               *)
SignalEnds == pending ~> pc = "exited"

(* The monitor respawns a service that exited, unless its restarts are used *)
(* up or the supervisor leaves.                                             *)
CrashIsNoticed ==
  \A s \in Restartable :
    pc \in {"sweep", "restart", "sleep"} /\ proc[s] = "dead"
      ~> proc[s] # "dead" \/ count[s] = MaxRestarts \/ pc = "exited"

(* A supervisor that leaves leaves no service running: wait_for_health      *)
(* "returns True if the service became healthy, False on timeout"           *)
(* (health.py:38), and a start that is False ends in stop_all               *)
(* (main.py:324-327), as monitor ends after one.  Only the gateway's kill,  *)
(* whatever it interrupts, is left out.                                     *)
NoOrphans ==
  exit \in {"orderly", "failed", "raised"} => \A s \in Svc : proc[s] # "serving"
=============================================================================
