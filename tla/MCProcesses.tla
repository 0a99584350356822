------------------------------ MODULE MCProcesses ------------------------------
(* The processes and who starts and stops them, for TLC: a supervisor and   *)
(* its services (part = "services") and the command lines with the gateways *)
(* they start (part = "consoles", Console).  A gateway is the parent of the *)
(* supervisor and hands it only signals, which the supervisor's module      *)
(* takes as they come; so one run takes the two one at a time.              *)
EXTENDS MCSupervisor, Console

VARIABLE part

allVars == <<part, vars, consoleVars>>

ProcessesInit ==
  /\ part \in {"services", "consoles"}
  /\ Init
  /\ ConsoleInit /\ (part = "services" => ~key)

ProcessesNext ==
  \/ part = "services" /\ Next /\ UNCHANGED <<part, consoleVars>>
  \/ part = "consoles" /\ ConsoleNext /\ UNCHANGED <<part, vars>>

\* The supervisor's event loop runs what is ready, every probe has a timeout and
\* a service that is not killed comes up or exits; nothing obliges a process to crash, a
\* probe to raise, a dying process to go or anybody to send a signal.  A console
\* that waits goes on at last, since its waits have deadlines.
ProcessesSpec ==
  /\ ProcessesInit /\ [][ProcessesNext]_allVars
  /\ WF_vars(/\ part = "services"
             /\ LaunchLayer \/ LayerStarted \/ LayerFailed \/ LayerRaised \/ EndSweep \/ Wake)
  /\ WF_vars(part = "services" /\ (BeginStop \/ EndStop))
  /\ \A s \in Svc :
       /\ WF_vars(part = "services" /\ (ProbeAnswers(s) \/ ProbeTimesOut(s)))
       /\ WF_vars(/\ part = "services"
                  /\ Restart(s) \/ Skip(s) \/ Restarted(s) \/ RestartFailed(s) \/ RestartRaised(s))
       /\ WF_vars(part = "services" /\ StopOne(s)) /\ WF_vars(part = "services" /\ Serve(s))
  /\ \A c \in Terminal :
       WF_consoleVars(part = "consoles" /\ (StopSeen(c) \/ ForceKill(c)))

\* A signal ends the supervisor, and the monitor sees that a service has exited:
\* SignalEnds and CrashIsNoticed of SupervisorProperties.
SupervisorReacts == part = "services" => SignalEnds /\ CrashIsNoticed
===============================================================================
