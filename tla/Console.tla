-------------------------------- MODULE Console --------------------------------
(***************************************************************************)
(* Command lines and the gateways they start.  A console starts a gateway   *)
(* unless the PID file names one, waits until the socket answers, and works *)
(* in setup mode or in normal mode until it quits, which stops the gateway  *)
(* for everybody.  Storing the mandatory key in setup mode restarts it.     *)
(*                                                                          *)
(* A gateway is a child of the console that started it.  A child that ends  *)
(* is a process still, for whoever asks with kill(pid, 0), until its parent *)
(* waits for it or ends.  Credentials, gateway.yaml and the mail accounts   *)
(* reach the services through what a gateway read when it started.          *)
(***************************************************************************)
EXTENDS Naturals, FiniteSets

CONSTANTS
  Terminal,    \* where consoles run, one at a time each
  MaxStarts,   \* gateways started in all
  MaxEdits,    \* edits of credentials, configuration and accounts
  Faults       \* consoles that vanish, gateways that crash, startups that fail

ASSUME ConsoleAssumption ==
  MaxStarts \in Nat /\ MaxEdits \in Nat /\ Faults \in Nat /\ 0 \notin Terminal

VARIABLES
  gw,        \* the gateways, numbered as they are started
  pidFile,   \* the one gateway.pid names; 0: no file
  sock,      \* the one that made the socket gateway.sock; 0: no socket
  key,       \* is openai/api_key in the vault?
  edits,     \* edits so far
  con,       \* the console of each terminal
  troubles

consoleVars == <<gw, pidFile, sock, key, edits, con, troubles>>

Gateway == 1..MaxStarts
NoConsole == 0      \* the parent of a process whose own has ended

At == {"unborn", "spawned", "booting", "read", "open", "closing", "zombie", "gone"}
Lives(g) == gw[g].at \in {"spawned", "booting", "read", "open", "closing"}
Unused == {g \in Gateway : gw[g].at = "unborn"}

Process(at, by) == [at |-> at, by |-> by, partial |-> FALSE, env |-> 0, raced |-> FALSE]

Mode == {"off", "await", "connect", "setup", "stored", "normal",
         "leaving", "stopping", "respawn", "rewait"}

ConsoleTypeOK ==
  /\ gw \in [Gateway -> [at : At, by : Terminal \cup {NoConsole}, partial : BOOLEAN,
                         env : 0..MaxEdits, raced : BOOLEAN]]
  /\ pidFile \in 0..MaxStarts /\ sock \in 0..MaxStarts
  /\ key \in BOOLEAN /\ edits \in 0..MaxEdits /\ troubles \in 0..Faults
  /\ con \in [Terminal -> [at : Mode, target : 0..MaxStarts,
                           mine : 0..MaxEdits, before : 0..MaxEdits]]

ConsoleInit ==
  /\ gw = [g \in Gateway |-> Process("unborn", NoConsole)]
  /\ pidFile = 0 /\ sock = 0
  /\ key \in BOOLEAN /\ edits = 0 /\ troubles = 0
  /\ con = [c \in Terminal |-> [at |-> "off", target |-> 0, mine |-> 0, before |-> 0]]

-------------------------------------------------------------------------------
(* Processes *)

\* kill(pid, 0) succeeds for a process that has ended and was not waited for.
Exists(g) == Lives(g) \/ gw[g].at = "zombie"

IsRunning == pidFile # 0 /\ Exists(pidFile)

\* A request over the socket is answered.
Served == sock # 0 /\ gw[sock].at = "open"

\* What a process is once it has ended.
Ended(g) ==
  IF gw[g].by = NoConsole THEN Process("gone", NoConsole) ELSE Process("zombie", gw[g].by)

\* The gateways when the console of terminal c has ended: its children are
\* init's, which waits for them.
Orphaned(c, gs) ==
  [g \in Gateway |->
     IF gs[g].by # c THEN gs[g]
     ELSE IF gs[g].at = "zombie" THEN Process("gone", NoConsole)
     ELSE [gs[g] EXCEPT !.by = NoConsole]]

\* started while one that is not in the PID file yet was, or beside one that was
Beside == {h \in Gateway : Lives(h) /\ (gw[h].at = "spawned" \/ gw[h].raced)}

\* start_gateway in the background: the least unused number is the PID.
StartGateway(c) ==
  \E g \in Unused :
    /\ \A m \in Unused : g <= m
    /\ gw' = [h \in Gateway |->
                IF h = g THEN [gw[h] EXCEPT !.at = "spawned", !.by = c, !.raced = Beside # {}]
                ELSE IF h \in Beside THEN [gw[h] EXCEPT !.raced = TRUE]
                ELSE gw[h]]

-------------------------------------------------------------------------------
(* The console *)

\* main: start one unless one runs.
Launch(c) ==
  /\ con[c].at = "off"
  /\ IF IsRunning
     THEN con' = [con EXCEPT ![c].at = "connect"] /\ UNCHANGED gw
     ELSE StartGateway(c) /\ con' = [con EXCEPT ![c].at = "await"]
  /\ UNCHANGED <<pidFile, sock, key, edits, troubles>>

\* wait_for_gateway: whoever answers on the socket will do.
Healthy(c) ==
  /\ con[c].at = "await" /\ Served
  /\ con' = [con EXCEPT ![c].at = "connect"]
  /\ UNCHANGED <<gw, pidFile, sock, key, edits, troubles>>

\* The process of the console of c ends; its gateway runs on.
Leave(c, gs) ==
  /\ con' = [con EXCEPT ![c] = [at |-> "off", target |-> 0, mine |-> 0, before |-> @.before]]
  /\ gw' = Orphaned(c, gs)

\* It did not answer in time.
NotHealthy(c) ==
  /\ con[c].at = "await" /\ ~Served
  /\ Leave(c, gw)
  /\ UNCHANGED <<pidFile, sock, key, edits, troubles>>

\* Of a gateway that starts up in part only the vault is there.
ModeFor(g) == IF gw[g].partial THEN "setup" ELSE "normal"

Connect(c) ==
  /\ con[c].at = "connect"
  /\ IF Served
     THEN con' = [con EXCEPT ![c].at = ModeFor(sock)] /\ UNCHANGED gw
     ELSE Leave(c, gw)
  /\ UNCHANGED <<pidFile, sock, key, edits, troubles>>

\* A PUT or a DELETE that the gateway answers.
Edited(c) ==
  /\ edits < MaxEdits
  /\ edits' = edits + 1
  /\ con' = [con EXCEPT ![c].mine = edits + 1]

WriteYaml(c) == Edited(c) /\ UNCHANGED key

WriteAccounts(c) == Edited(c) /\ UNCHANGED key

\* vault set and vault delete, in both modes: the hint is to quit and relaunch.
\* In normal mode the mandatory key is stored like any other.
EditVault(c) ==
  /\ con[c].at \in {"setup", "normal"} /\ Served
  /\ Edited(c)
  /\ key' \in IF con[c].at = "setup" THEN {key, FALSE} ELSE BOOLEAN
  /\ UNCHANGED <<gw, pidFile, sock, troubles>>

\* env set and env delete write gateway.yaml.
EditEnv(c) ==
  /\ con[c].at = "normal" /\ Served
  /\ WriteYaml(c)
  /\ UNCHANGED <<gw, pidFile, sock, troubles>>

\* edi add and edi remove write the list of accounts.
EditAccounts(c) ==
  /\ con[c].at = "normal" /\ Served
  /\ WriteAccounts(c)
  /\ UNCHANGED <<gw, pidFile, sock, troubles>>

\* vault set openai api_key in setup mode: the console restarts the gateway.
StoreKey(c) ==
  /\ con[c].at = "setup" /\ Served
  /\ edits < MaxEdits
  /\ key' = TRUE
  /\ edits' = edits + 1
  /\ con' = [con EXCEPT ![c].mine = edits + 1, ![c].at = "stored"]
  /\ UNCHANGED <<gw, pidFile, sock, troubles>>

\* stop_gateway: the PID is read first, then the shutdown is posted to whoever
\* answers on the socket; nobody to wait for without a PID.
Stop(c, waiting, done) ==
  /\ gw' = IF Served THEN [gw EXCEPT ![sock].at = "closing"] ELSE gw
  /\ con' = [con EXCEPT ![c].target = pidFile,
                        ![c].at = IF pidFile = 0 THEN done ELSE waiting]

RestartGateway(c) ==
  /\ con[c].at = "stored"
  /\ Stop(c, "stopping", "respawn")
  /\ UNCHANGED <<pidFile, sock, key, edits, troubles>>

\* Mutant: quit leaves the gateway to the other consoles.
QuitDetaches(c) ==
  /\ con[c].at \in {"setup", "normal"}
  /\ con' = [con EXCEPT ![c] = [at |-> "off", target |-> 0, mine |-> 0, before |-> @.mine]]
  /\ gw' = Orphaned(c, gw)
  /\ UNCHANGED <<pidFile, sock, key, edits, troubles>>

\* quit, Ctrl+C or end of input: _shutdown, then the console ends.
Quit(c) ==
  /\ con[c].at \in {"setup", "normal"}
  /\ LET gs == IF Served THEN [gw EXCEPT ![sock].at = "closing"] ELSE gw IN
     IF pidFile = 0
     THEN /\ con' = [con EXCEPT ![c] = [at |-> "off", target |-> 0, mine |-> 0, before |-> @.mine]]
          /\ gw' = Orphaned(c, gs)
     ELSE /\ con' = [con EXCEPT ![c].at = "leaving", ![c].target = pidFile, ![c].before = con[c].mine]
          /\ gw' = gs
  /\ UNCHANGED <<pidFile, sock, key, edits, troubles>>

\* After the wait: the console ends, or restart_gateway goes on.
Waited(c, gs) ==
  IF con[c].at = "leaving" THEN Leave(c, gs)
  ELSE con' = [con EXCEPT ![c].at = "respawn", ![c].target = 0] /\ gw' = gs

\* _wait_for_pid_exit: waitpid answers for a child of one's own, kill(pid, 0)
\* for the others.
StopSeen(c) ==
  /\ con[c].at \in {"leaving", "stopping"}
  /\ LET t == con[c].target IN
     /\ gw[t].at = "gone" \/ (gw[t].at = "zombie" /\ gw[t].by = c)
     /\ Waited(c, [gw EXCEPT ![t] = Process("gone", NoConsole)])
  /\ UNCHANGED <<pidFile, sock, key, edits, troubles>>

\* Mutant: only a child of one's own is killed.
KillOwn(c) ==
  /\ con[c].at \in {"leaving", "stopping"}
  /\ LET t == con[c].target IN
     /\ Exists(t) /\ gw[t].by = c /\ Lives(t)
     /\ Waited(c, [gw EXCEPT ![t] = Ended(t)])
  /\ UNCHANGED <<pidFile, sock, key, edits, troubles>>

\* Ninety seconds have passed, or Ctrl+C: SIGKILL to the group, and no wait for
\* the process that ends of it.
ForceKill(c) ==
  /\ con[c].at \in {"leaving", "stopping"}
  /\ LET t == con[c].target IN
     /\ Exists(t)
     /\ Waited(c, [gw EXCEPT ![t] = IF Lives(t) THEN Ended(t) ELSE @])
  /\ UNCHANGED <<pidFile, sock, key, edits, troubles>>

\* restart_gateway starts a new one, unless start_gateway finds one running.
Respawn(c) ==
  /\ con[c].at = "respawn"
  /\ con' = [con EXCEPT ![c].at = "rewait"]
  /\ IF IsRunning THEN UNCHANGED gw ELSE StartGateway(c)
  /\ UNCHANGED <<pidFile, sock, key, edits, troubles>>

\* The restarted gateway answers, or two minutes have passed: setup mode again.
Rewait(c) ==
  /\ con[c].at = "rewait"
  /\ con' = [con EXCEPT ![c].at = IF Served THEN ModeFor(sock) ELSE "setup"]
  /\ UNCHANGED <<gw, pidFile, sock, key, edits, troubles>>

\* The terminal is closed: the gateway is in a session of its own.
Vanish(c) ==
  /\ con[c].at # "off" /\ troubles < Faults
  /\ troubles' = troubles + 1
  /\ Leave(c, gw)
  /\ UNCHANGED <<pidFile, sock, key, edits>>

-------------------------------------------------------------------------------
(* The gateway *)

Announce(g) ==
  /\ gw[g].at = "spawned"
  /\ gw' = [gw EXCEPT ![g].at = "booting"]
  /\ pidFile' = g
  /\ UNCHANGED <<sock, key, edits, con, troubles>>

\* The gate looks for the key; the environment of the services is read.
ReadEnv(g) ==
  /\ gw[g].at = "booting"
  /\ gw' = [gw EXCEPT ![g].at = "read", ![g].partial = ~key, ![g].env = edits]
  /\ UNCHANGED <<pidFile, sock, key, edits, con, troubles>>

\* The vault or the supervisor fails: a partial startup with the key stored.
StartupFails(g) ==
  /\ gw[g].at = "booting" /\ troubles < Faults
  /\ troubles' = troubles + 1
  /\ gw' = [gw EXCEPT ![g].at = "read", ![g].partial = TRUE, ![g].env = edits]
  /\ UNCHANGED <<pidFile, sock, key, edits, con>>

\* uvicorn makes the socket after the lifespan's startup, in the place of
\* whatever socket is there.
Open(g) ==
  /\ gw[g].at = "read"
  /\ gw' = [gw EXCEPT ![g].at = "open"]
  /\ sock' = g
  /\ UNCHANGED <<pidFile, key, edits, con, troubles>>

\* The teardown removes the PID file, uvicorn the socket, whosever they are.
Exit(g) ==
  /\ gw[g].at = "closing"
  /\ gw' = [gw EXCEPT ![g] = Ended(g)]
  /\ pidFile' = 0 /\ sock' = 0
  /\ UNCHANGED <<key, edits, con, troubles>>

CrashGateway(g) ==
  /\ Lives(g) /\ troubles < Faults
  /\ troubles' = troubles + 1
  /\ gw' = [gw EXCEPT ![g] = Ended(g)]
  /\ UNCHANGED <<pidFile, sock, key, edits, con>>

-------------------------------------------------------------------------------

ConsoleStep(c) ==
  \/ Launch(c) \/ Healthy(c) \/ NotHealthy(c) \/ Connect(c)
  \/ EditVault(c) \/ EditEnv(c) \/ EditAccounts(c) \/ StoreKey(c) \/ RestartGateway(c)
  \/ Quit(c) \/ StopSeen(c) \/ ForceKill(c) \/ Respawn(c) \/ Rewait(c) \/ Vanish(c)

GatewayStep(g) ==
  Announce(g) \/ ReadEnv(g) \/ StartupFails(g) \/ Open(g) \/ Exit(g) \/ CrashGateway(g)

ConsoleNext == (\E c \in Terminal : ConsoleStep(c)) \/ (\E g \in Gateway : GatewayStep(g))

-------------------------------------------------------------------------------
(* Properties *)

\* A gateway that serves, or is about to, can be found by the PID file or by the
\* socket, and so be stopped, unless it was started beside one that had not
\* written its PID yet: is_running sees the file only.
StraysRaced ==
  \A g \in Gateway :
    gw[g].at \in {"booting", "read", "open"} => pidFile = g \/ sock = g \/ gw[g].raced

\* "Restart the CLI (quit then relaunch) for changes to take effect": a console
\* that was quit and launched again works with a gateway that started after the
\* edits made before, whatever other consoles did in between.
EditsArrive ==
  \A c \in Terminal :
    con[c].at \in {"setup", "normal"} /\ Served /\ ~gw[sock].raced
      => gw[sock].env >= con[c].before

\* Together, at every moment: nothing is out of reach and no hint is wrong.
HintHolds == ConsoleTypeOK /\ StraysRaced /\ EditsArrive

\* A console that stops a gateway is not held by it: neither by one that hangs
\* nor by one that is another console's child.
StopEnds ==
  \A c \in Terminal :
    con[c].at \in {"leaving", "stopping"} ~> con[c].at \notin {"leaving", "stopping"}
===============================================================================
