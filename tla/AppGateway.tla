------------------------------ MODULE AppGateway ------------------------------
(***************************************************************************)
(* The application gateway: its lifespan, the table of the processes it     *)
(* manages, the routes that start and stop them, the bootstrap of Jarvis's  *)
(* policy, and the command line that starts, stops and kills the gateway.   *)
(* A process is a pair of a name and a number; the supervisor with its      *)
(* services is one process, "runtime".                                      *)
(***************************************************************************)
EXTENDS Naturals, Sequences, SequencesExt, FiniteSets

CONSTANTS
  Identity,    \* values of identity.user_id in gateway.yaml
  Copies,      \* bound: processes of one name
  MaxFaults,   \* bound: faults, and interventions from outside
  MaxRoutes,   \* bound: starts, calls of the routes, edits of the configuration
  Hasty        \* may the gateway be told to stop while it starts?

ASSUME GatewayAssumption ==
  /\ Identity # {} /\ Copies \in Nat \ {0}
  /\ MaxFaults \in Nat /\ MaxRoutes \in Nat /\ Hasty \in BOOLEAN

Managed == {"vault", "edi", "jarvis", "telegram"}
Name == Managed \cup {"runtime", "platform"}
Process == Name \X (1 .. Copies)
Platform == <<"platform", 1>>
None == <<"none", 0>>

VARIABLES
  alive,     \* the processes that run
  table,     \* ProcessManager._processes, in insertion order
  sup,       \* supervisor_proc
  earlier,   \* those that are not of this gateway's process group
  daemon,    \* the process daemon.pid names
  syncing,   \* EDI processes that have not written it yet
  gw,        \* where the gateway's lifespan is
  todo,      \* what the teardown has still to stop
  told,      \* SIGTERM has arrived
  env,       \* combined_env: the identity the children get
  check,     \* the bootstrap's GET: for whom, and was there a policy
  config,    \* identity.user_id
  seeded,    \* the policies of the registry
  speaks,    \* the identity the running Jarvis has
  telegram,  \* optional["telegram"]
  faults, routes,   \* what is left of the bounds
  excused,   \* history: processes the code lets go
  vaultLost, \* history: the vault died, or never answered
  strayed,   \* history: the gateway ended without a teardown
  edited     \* history: identity.user_id changed while the gateway ran

machine == <<alive, earlier, daemon, syncing>>
manager == <<table, sup>>
lifespan == <<gw, todo, told, env, check, telegram>>
identity == <<config, seeded, speaks>>
budget == <<faults, routes>>
history == <<excused, vaultLost, strayed, edited>>
gatewayVars == <<machine, manager, lifespan, identity, budget, history>>

Anyone == CHOOSE i \in Identity : TRUE
Unchecked == [for |-> Anyone, found |-> FALSE]
Starting == {"vault", "checks", "runtime", "bootstrap", "seed", "jarvis", "answer"}
Yielded == {"partial", "ready"}

-----------------------------------------------------------------------------
(* ProcessManager.                                                          *)

Entry(n) == {i \in DOMAIN table : table[i][1] = n}
Position(n) == CHOOSE i \in Entry(n) : TRUE
Tracked(n) == IF Entry(n) = {} THEN None ELSE table[Position(n)]
Fresh(n) == {<<n, k>> : k \in 1 .. Copies} \ (alive \cup Range(table) \cup {sup})
Running(n) == {p \in alive : p[1] = n}
Spawned(n) == {p \in Fresh(n) : \A q \in Fresh(n) : p[2] <= q[2]}

(* self._processes[name] = managed: an entry keeps its place.               *)
Registered(p) ==
  IF Entry(p[1]) = {} THEN Append(table, p) ELSE [table EXCEPT ![Position(p[1])] = p]

(* Popen of p.  An EDI leaves when daemon.pid names one that runs, and       *)
(* writes the file itself only after its first sync.                        *)
Popen(p) ==
  LET stays == IF p[1] = "edi" /\ daemon \in alive THEN {} ELSE {p}
  IN /\ alive' = alive \cup stays
     /\ syncing' = IF p[1] = "edi" THEN syncing \cup stays ELSE syncing

(* The process the entry named before is nobody's; an EDI that runs is      *)
(* taken over by its PID file.                                              *)
Adopted(p) == IF p[1] = "edi" THEN {p, daemon} ELSE {p}

Launch(n) ==
  \E p \in Spawned(n) :
    /\ Popen(p)
    /\ table' = Registered(p)
    /\ excused' = (excused \cup ({Tracked(n)} \cap alive)) \ Adopted(p)
    /\ earlier' = earlier \ {p}

(* stop: EDI by its PID file, the others by their Popen, first asked and    *)
(* then killed.                                                             *)
(* Mutant: EDI too by its Popen, which may have been the wrapper's.         *)
VictimsByPopen(n) == {Tracked(n)}

Victims(n) == IF n = "edi" THEN {daemon} ELSE {Tracked(n)}

Popped(n) == IF Entry(n) = {} THEN table ELSE RemoveAt(table, Position(n))

Stop(n) ==
  /\ alive' = alive \ Victims(n)
  /\ table' = Popped(n)
  /\ daemon' = IF n = "edi" THEN None ELSE daemon
  /\ syncing' = syncing \ Victims(n)
  /\ excused' = excused \cup IF n = "edi" THEN Running(n) \ {daemon} ELSE {}

(* stop_all: the names, last inserted first.                                *)
Reversed == Reverse([i \in DOMAIN table |-> table[i][1]])

-----------------------------------------------------------------------------
(* The lifespan.                                                            *)

(* The end of the gateway's process: what it knew is gone.                  *)
Ends ==
  /\ gw' = "off" /\ told' = FALSE /\ todo' = <<>>
  /\ table' = <<>> /\ sup' = None
  /\ env' = Anyone /\ check' = Unchecked /\ telegram' = FALSE
  /\ speaks' = Anyone /\ seeded' = {}
  /\ vaultLost' = FALSE /\ edited' = FALSE
  /\ UNCHANGED <<config, routes>>

(* After the yield: uvicorn leaves without the teardown when it was told to *)
(* stop while it started.                                                   *)
Yield(to) == gw' = IF told THEN "quit" ELSE to

(* start_gateway and the begin of the lifespan: the vault is spawned.       *)
CliStart ==
  /\ gw = "off" /\ routes > 0 /\ routes' = routes - 1
  /\ \A n \in Managed \cup {"runtime"} : Cardinality(Running(n)) < Copies
  /\ gw' = "vault"
  /\ \E p \in {<<"vault", k>> : k \in 1 .. Copies} \ alive :
       /\ alive' = alive \cup {p}
       /\ table' = <<p>>
  /\ earlier' = alive
  /\ excused' = alive /\ strayed' = FALSE
  /\ UNCHANGED <<daemon, syncing, sup, todo, told, env, check, telegram, identity, faults,
                 vaultLost, edited>>

(* A wait for a process fails when it is dead, and may fail when it is slow. *)
Blamed(p) ==
  IF p \in alive THEN faults > 0 /\ faults' = faults - 1 ELSE faults' = faults

VaultUp ==
  /\ gw = "vault" /\ Tracked("vault") \in alive
  /\ gw' = "checks"
  /\ UNCHANGED <<machine, manager, todo, told, env, check, telegram, identity, budget, history>>

(* _start_uvicorn gives up on a service that does not answer.               *)
VaultFails ==
  /\ gw = "vault"
  /\ Blamed(Tracked("vault"))
  /\ alive' = alive \ {Tracked("vault")}
  /\ vaultLost' = TRUE
  /\ Yield("partial")
  /\ UNCHANGED <<earlier, daemon, syncing, manager, todo, told, env, check, telegram, identity, routes,
                 excused, strayed, edited>>

(* start_platform_server: it runs already, or its app is found and opened,  *)
(* or it does not come to run; the gateway goes on either way.              *)
PlatformMayRun == {{}, {Platform}}

(* _start_supervisor: a new process, the child of this gateway, with the    *)
(* services it will start.                                                  *)
StartSupervisor(p) == p \in Fresh("runtime") /\ sup' = p

(* Steps 2 to 6: the credentials decide what is started; the identity for   *)
(* the children is read from the configuration.                             *)
Checks(mandatory, edi, bot) ==
  /\ gw = "checks"
  /\ IF ~mandatory
     THEN /\ Yield("partial")
          /\ UNCHANGED <<machine, manager, env, telegram, excused>>
     ELSE /\ gw' = "runtime"
          /\ \E platform \in PlatformMayRun, p \in {<<"runtime", k>> : k \in 1 .. Copies},
                e \in IF edi THEN Spawned("edi") ELSE {None} :
               LET mail == IF edi /\ daemon \notin alive THEN {e} ELSE {}
                   adopted == IF edi THEN Adopted(e) ELSE {}
               IN /\ StartSupervisor(p)
                  /\ alive' = alive \cup platform \cup {p} \cup mail
                  /\ syncing' = syncing \cup mail
                  /\ table' = IF edi THEN Registered(e) ELSE table
                  /\ excused' = excused \ ({Platform, p} \cup adopted)
                  /\ earlier' = earlier \ ({p} \cup mail)
          /\ env' = config
          /\ telegram' = bot
          /\ UNCHANGED daemon
  /\ UNCHANGED <<todo, told, check, identity, budget, vaultLost, strayed, edited>>

RuntimeUp ==
  /\ gw = "runtime" /\ sup \in alive
  /\ gw' = "bootstrap"
  /\ UNCHANGED <<machine, manager, todo, told, env, check, telegram, identity, budget, history>>

RuntimeFails ==
  /\ gw = "runtime"
  /\ Blamed(sup)
  /\ Yield("partial")
  /\ UNCHANGED <<machine, manager, todo, told, env, check, telegram, identity, routes, history>>

(* _ensure_policies: the identity is read again, and asked for.             *)
BootstrapReads ==
  /\ gw = "bootstrap"
  /\ check' = [for |-> config, found |-> config \in seeded]
  /\ gw' = "seed"
  /\ UNCHANGED <<machine, manager, todo, told, env, telegram, identity, budget, history>>

(* ... the seed is posted when there is none; a refusal is only logged.     *)
BootstrapSeeds ==
  /\ gw = "seed"
  /\ gw' = "jarvis" /\ check' = Unchecked
  /\ \/ seeded' = seeded \cup {check.for} /\ faults' = faults
     \/ ~check.found /\ faults > 0 /\ seeded' = seeded /\ faults' = faults - 1
  /\ UNCHANGED <<machine, manager, todo, told, env, telegram, config, speaks, routes, history>>

SpawnJarvis ==
  /\ gw = "jarvis" /\ gw' = "answer"
  /\ Launch("jarvis") /\ speaks' = env /\ env' = Anyone
  /\ UNCHANGED <<daemon, sup, todo, told, check, telegram, config, seeded, budget,
                 vaultLost, strayed, edited>>

(* Jarvis answers and Telegram follows, or Jarvis is given up.              *)
JarvisAnswers ==
  /\ gw = "answer" /\ Tracked("jarvis") \in alive
  /\ IF telegram THEN Launch("telegram") ELSE UNCHANGED <<alive, earlier, syncing, table, excused>>
  /\ Yield("ready") /\ telegram' = FALSE
  /\ UNCHANGED <<daemon, sup, todo, told, env, check, identity, budget, vaultLost, strayed, edited>>

JarvisFails ==
  /\ gw = "answer"
  /\ Blamed(Tracked("jarvis"))
  /\ alive' = alive \ {Tracked("jarvis")}
  /\ Yield("ready") /\ telegram' = FALSE
  /\ UNCHANGED <<earlier, daemon, syncing, manager, todo, told, env, check, identity, routes, history>>

(* An exception between the start of the vault and the yield.               *)
StartupRaises ==
  /\ gw \in Starting \ {"vault"} /\ faults > 0
  /\ faults' = faults - 1
  /\ gw' = "quit"
  /\ UNCHANGED <<machine, manager, todo, told, env, check, telegram, identity, routes, history>>

Quit ==
  /\ gw = "quit" /\ Ends /\ strayed' = TRUE
  /\ UNCHANGED <<machine, faults, excused>>

-----------------------------------------------------------------------------
(* The routes.                                                              *)

Serving == gw \in Yielded /\ ~told /\ routes > 0 /\ routes' = routes - 1

(* The environment is built anew, from the vault and the configuration.     *)
StartService(n) ==
  /\ Serving
  /\ n # "edi" => Tracked("vault") \in alive
  /\ Launch(n)
  /\ speaks' = IF n = "jarvis" THEN config ELSE speaks
  /\ UNCHANGED <<daemon, sup, lifespan, config, seeded, faults, vaultLost, strayed, edited>>

StopService(n) ==
  /\ Serving
  /\ Stop(n)
  /\ UNCHANGED <<earlier, sup, lifespan, identity, faults, vaultLost, strayed, edited>>

(* POST /system/bootstrap.                                                  *)
RunBootstrap ==
  /\ Serving /\ gw = "ready" /\ sup \in alive
  /\ seeded' = seeded \cup {config}
  /\ UNCHANGED <<machine, manager, lifespan, config, speaks, faults, history>>

(* PUT /system/config-env, or an editor: at any time.                       *)
SetIdentity(i) ==
  /\ routes > 0 /\ routes' = routes - 1
  /\ i # config /\ config' = i
  /\ edited' = (edited \/ gw # "off")
  /\ UNCHANGED <<machine, manager, lifespan, seeded, speaks, faults, excused, vaultLost, strayed>>

-----------------------------------------------------------------------------
(* The end.                                                                 *)

(* SIGTERM: from POST /system/shutdown or the terminal.                     *)
Terminate ==
  /\ ~told
  /\ gw \in Yielded \/ (gw \in Starting /\ Hasty)
  /\ told' = TRUE
  /\ UNCHANGED <<machine, manager, gw, todo, env, check, telegram, identity, budget, history>>

(* What follows the three yields.  Only the last one asks the platform      *)
(* server to go, and it stops the supervisor after the others.              *)
BeginTeardown ==
  /\ gw \in Yielded /\ told
  /\ gw' = "stopping"
  /\ todo' = IF gw = "ready" THEN <<"platform">> \o Reversed \o <<"runtime">>
             ELSE IF sup # None THEN <<"runtime">> \o Reversed
             ELSE Reversed
  /\ UNCHANGED <<machine, manager, told, env, check, telegram, identity, budget, history>>

(* One of them.  A supervisor that needs more than 15 s is killed and its   *)
(* services stay.                                                           *)
StopNext ==
  /\ gw = "stopping" /\ todo # <<>>
  /\ todo' = Tail(todo)
  /\ IF Head(todo) \in Managed
     THEN Stop(Head(todo)) /\ UNCHANGED faults
     ELSE LET p == IF Head(todo) = "runtime" THEN sup ELSE Platform
          IN /\ UNCHANGED <<table, daemon, syncing>>
             /\ \/ alive' = alive \ {p} /\ UNCHANGED <<faults, excused>>
                \/ /\ faults > 0 /\ faults' = faults - 1
                   /\ alive' = alive /\ excused' = excused \cup {p}
  /\ UNCHANGED <<earlier, sup, gw, told, env, check, telegram, identity, routes, vaultLost, strayed, edited>>

Gone ==
  /\ gw = "stopping" /\ todo = <<>>
  /\ Ends
  /\ excused' = excused \cup IF sup # None THEN {Platform} ELSE {}
  /\ UNCHANGED <<machine, faults, strayed>>

(* stop_gateway after 90 s, or the second Ctrl+C: SIGKILL to the group,     *)
(* which the platform server is not in.                                     *)
ForceKill ==
  /\ gw # "off" /\ told /\ faults > 0
  /\ faults' = faults - 1
  /\ alive' = alive \cap (earlier \cup {Platform})
  /\ syncing' = syncing \cap alive'
  /\ daemon' = IF daemon \in alive' THEN daemon ELSE None
  /\ Ends
  /\ excused' = excused \cup earlier \cup {Platform}
  /\ UNCHANGED <<earlier, strayed>>

-----------------------------------------------------------------------------
(* The processes themselves.                                                *)

(* The first sync of an EDI is over.                                        *)
EdiSettles(p) ==
  /\ p \in syncing
  /\ syncing' = syncing \ {p}
  /\ daemon' = p
  /\ excused' = excused \cup ({daemon} \cap alive)
  /\ UNCHANGED <<alive, earlier, manager, lifespan, identity, budget, vaultLost, strayed, edited>>

Dies(p) ==
  /\ p \in alive /\ faults > 0
  /\ faults' = faults - 1
  /\ alive' = alive \ {p}
  /\ syncing' = syncing \ {p}
  /\ daemon' = IF p = daemon THEN None ELSE daemon
  /\ vaultLost' = (vaultLost \/ p = Tracked("vault"))
  /\ UNCHANGED <<earlier, manager, lifespan, identity, routes, excused, strayed, edited>>

-----------------------------------------------------------------------------
GatewayInit ==
  /\ alive = {} /\ earlier = {} /\ table = <<>> /\ sup = None
  /\ daemon = None /\ syncing = {}
  /\ gw = "off" /\ todo = <<>> /\ told = FALSE
  /\ config \in Identity /\ env = Anyone /\ speaks = Anyone
  /\ check = Unchecked /\ telegram = FALSE /\ seeded = {}
  /\ faults = MaxFaults /\ routes = MaxRoutes
  /\ excused = {} /\ vaultLost = FALSE /\ strayed = FALSE /\ edited = FALSE

Startup ==
  \/ VaultUp \/ VaultFails
  \/ \E mandatory, edi, bot \in BOOLEAN : Checks(mandatory, edi, bot)
  \/ RuntimeUp \/ RuntimeFails
  \/ BootstrapReads \/ BootstrapSeeds
  \/ SpawnJarvis \/ JarvisAnswers \/ JarvisFails
  \/ StartupRaises

Routes ==
  \/ \E n \in Managed \ {"vault"} : StartService(n) \/ StopService(n)
  \/ RunBootstrap
  \/ \E i \in Identity : SetIdentity(i)

Teardown == BeginTeardown \/ StopNext \/ Gone \/ Quit

GatewayNext ==
  \/ CliStart \/ Startup \/ Routes
  \/ Terminate \/ Teardown \/ ForceKill
  \/ \E p \in Process : EdiSettles(p) \/ Dies(p)

GatewaySpec == GatewayInit /\ [][GatewayNext]_gatewayVars

-----------------------------------------------------------------------------
(* Properties: what the gateway promises about the processes it starts.     *)

(* The variables hold what the code can put there.                          *)
GatewayTypeOK ==
  /\ alive \subseteq Process /\ earlier \subseteq Process
  /\ syncing \subseteq Process /\ daemon \in Process \cup {None}
  /\ table \in Seq(Process) /\ sup \in Process \cup {None}
  /\ gw \in Starting \cup Yielded \cup {"off", "stopping", "quit"}
  /\ told \in BOOLEAN /\ telegram \in BOOLEAN
  /\ {env, config, speaks, check.for} \subseteq Identity /\ seeded \subseteq Identity
  /\ faults \in 0 .. MaxFaults /\ routes \in 0 .. MaxRoutes

(* A gateway that ran its teardown, or was killed with its group, leaves    *)
(* nothing behind except what the code lets go: a process a second start    *)
(* replaced in the table, an EDI that has not written its PID file or whose *)
(* file another one overwrote, the services of a supervisor killed after    *)
(* 15 s, the platform server of a partial startup, and what was left by an  *)
(* earlier gateway (server.py:303-420, process_manager.py:226-308).         *)
Survivors == gw = "off" /\ ~strayed => alive \subseteq excused

(* The vault is spawned first and stopped last: while a process of the      *)
(* table that takes its secrets from it runs, the vault runs, unless it     *)
(* died by itself or its start failed.                                      *)
VaultOutlives ==
  gw # "off" /\ ~vaultLost /\ (\E p \in Range(table) : p \in alive /\ p[1] # "vault")
    => Tracked("vault") \in alive

(* Jarvis runs under an identity the bootstrap seeded, when the            *)
(* configuration is left alone and no seed was refused: the two reads of    *)
(* the configuration agree (server.py:302-305, bootstrap.py:266-300).       *)
SeededSlot ==
  gw = "ready" /\ ~edited /\ faults = MaxFaults /\ Running("jarvis") # {}
    => speaks \in seeded

(* What the gateway owes at every step: clean ends, a vault that outlives   *)
(* its users, and an identity with a policy.                                *)
GatewayKeeps == GatewayTypeOK /\ Survivors /\ VaultOutlives /\ SeededSlot
===============================================================================
