# TLA+ verification of IntentFrame

IntentFrame puts a policy decision point between an AI agent and the machine it
acts on. An agent submits *intents*. The **runtime** judges each one inside a
*security lane* (deterministic bundle hooks first, then an analysis engine and
an AI guardian) and hands what it allows to the **executor**, a separate service
that audits the action and performs it. A **supervisor** starts, watches and
stops these services; an **application gateway** owns the supervisor and the
processes the user meets.

This directory holds TLA+ models of that code, the TLC configurations that check
them on small instances, and proofs that TLAPS checks for every instance. Paths
below are relative to `src/`; the exact lines behind each definition are in
`PROJECT.json` under `map`.

## 1. Inventory

### The parts with concurrency, failure or ordering of their own

| component | source | state | operations | what makes it hard | what makes it correct |
|---|---|---|---|---|---|
| executor gateway | `packages/executor/executor/gateway.py`, `executor-sdk/adapters/base.py` | one handler per request | `handle`, `handle_rollback` | handlers interleave; INSERTs run in threads; adapters outlive their timeout; the process dies between two rows | no action without a record; good news is true; two rows per execution; whoever calls is answered |
| worker pool | `packages/executor/executor/worker_pool.py` | `asyncio.Semaphore`, active count, shutdown flag and event | `submit`, `shutdown` | a permit travels to a waiter that has not run yet; cancellation does not stop threads | permits conserved, concurrency bounded, queue and shutdown move |
| audit trail | `executor-sdk/services/hash_chain.py`, the POSIX pack's `audit_logger.py` | chain head in memory, rows in SQLite | append, insert, verify | the head is lost in a restart, the rows are not; insertion order is not chaining order | one chain per process life, rows in order |
| state store | the POSIX pack's `state_store.py` | rollback registry in SQLite, an implicit transaction | save, get, set status | unique ids; a failed INSERT leaves the transaction open on a shared file | an offered rollback exists; undone means performed |
| security lane | `packages/intentframe-server/.../pipeline.py` | `asyncio.Lock`, in-memory audit log, the policy it resolved | `process_intent`, `clear_audit_log` | queueing, callers that give up, a blocking call inside a coroutine, faults at every await | mutual exclusion, default deny, truthful audit, everybody answered |
| decision path | `intentframe-bundle-sdk/runner.py`, `trace.py`, `intentframe-components/...` | the trace of hooks | one lifecycle of eleven hooks, then analysis and guardian | hooks that hang, crash, are missing or answer what they may not | fail closed, every ALLOW earned, trace explains the decision |
| policy registry | `packages/policy-registry` | policies by (user, agent), in memory | set, delete, modify, get | read and edited while intents queue | decisions follow a policy that was stored |
| supervisor | `packages/intentframe-supervisor` | `_services`, shutdown event, restart counts, child processes | `start_all`, `monitor`, `stop_all`, signal handlers | signals meet starts and restarts; children outlive the parent; a parent with a 15 s limit | dependency order both ways, bounded restarts, nothing left behind |
| application gateway | `intentframe_gateway/` | vault, EDI, platform server, supervisor, Jarvis and Telegram processes | lifespan, ProcessManager, routes, bootstrap | partial start-up, order of shutdown, PID files | what is started is stopped, the vault outlives its users, Jarvis has a seeded policy |
| command line | `intentframe_cli/` | mode of each console; shared: PID file, socket, configuration | launch, edit, quit, restart in setup mode | several terminals, zombies, edits that reach only a later gateway | nobody loses a gateway; the hint to relaunch is right; stopping ends |
| credential vault | `packages/intentframe-credentials` | secrets by namespace, metadata, the token | put, delete, get, renewal loop | read-modify-write without check-and-set, two writes per change, expiry | a change touches its own key, the record shows the secret, the token recovers |
| email sync | `external_data_ingestion/.../email` | `sync_state`, mails, tasks per account | initial pass, IDLE, backfill, periodic sync, client operations | four writers of one folder's `last_uid`; UIDVALIDITY changes; moves; crashes | no mail is skipped for good; a uid names its message |
| IMAP provider | `.../email/imap_connection.py` | permits, idle connections | acquire, release, health check, stop | a borrower is cancelled while a thread uses its connection; a stopped provider is replaced | cap, no connection without an owner, nobody waits for ever |
| Jarvis | `jarvis_pa/` | the busy gate, the session history, memory and its index, the heartbeat's cache | `chat`, `chat_stream`, compaction, heartbeat | generators that are never iterated, deadlines that nobody looks at, a fallback that runs again | the talk loses nothing but what a torn file lost, a refused message leaves no trace, an alert rings once |
| dashboard and agents | `intentframe_dashboard/`, `external_agents/invoice_bot/` | processes of the bots, their counters, the tracker file | register, install, run, kill; tools of a bot | a killed bot's intents are executed all the same; parallel tools; answers that never come | reports and rows differ only by the calls in doubt; twice in the tracker only by them or by the user's word |

### The parts that act

| component | source | what makes it correct |
|---|---|---|
| terminal | the kit's `terminal` bundle, adapter and macOS sandbox, `packages/command-shield` | only harmless commands skip the judgement; a policy's denials hold; the sandbox grants what the template is for; a script is not passed over |
| files | the kit's file bundles and adapters, `virtual_filesystem.py` | a file changes off the floor, in its mount, and is the one the guardian was told of; reported rows stay, unless a write breaks off |
| mail and messages | the kit's mail and message bundles and adapters | nobody is written to whom the permission did not cover, but for those `cc` and `reply_all` add |
| platform items | `macos-appkit-server/Sources/Services`, the bundles and adapters over it | a rollback takes what its own call made |

How they interact: agents call the runtime over HTTP on a Unix socket; the
runtime asks the policy registry (awaited) and calls the executor (blocking, so
the runtime's whole event loop stands still meanwhile); the executor runs the
adapters, asks the vault and writes its tables; adapters call the macOS server
and the mail daemon's database; the supervisor owns registry, executor and
runtime as child processes and probes their `/health`; the application gateway
owns the vault, the supervisor and the user-facing processes; a console owns the
gateway it started.

### The parts without

The core types, onboarding, the edge facade and the proxy keep no state; the
bundle registry and the dispatcher are filled at boot and only read afterwards;
the small actions of the native kit (HTTP, finance, browser, clipboard and so
on) make one call each. Telegram is a front end; demos, deployment files and
scripts are not part of the running system. `PROJECT.json` lists each of them
with the reason it is left out.

## 2. Modules

| module | stands for | its steps |
|---|---|---|
| `Requests` | the set of requests or intents | |
| `WorkerPool` | the pool over asyncio's semaphore | one step per stretch of code between two awaits; the adapter's own work is a separate step, so that it can outlive `wait_for` |
| `AuditChain` | hash chain and audit table | chaining (on the loop) and inserting (in a thread) are apart |
| `StateStore` | rollback registry and its implicit transaction | save, duplicate save, set status |
| `ExecutorGateway` | `handle`, `handle_rollback`, process restart | EXTENDS the three above; one step per suspension point, including every error exit |
| `ExecutionContract` | what the executor promises (abstract): record, perform, confirm or disappoint | refined by `ExecutorGateway` |
| `SecurityLane` | `process_intent` over its lock, `clear_audit_log`, client timeout, policy edits, runtime restart | the executor in it is exactly `ExecutionContract` |
| `AirLock` | what a lane promises (abstract): enter, act, leave | refined by `SecurityLane` |
| `DecisionPath` | one intent through the hooks, the analysis engine and the guardian | a hook is called in one step and ends in another; refines the lane's handler between the lock and the executor |
| `Supervisor` | `start_all`, `_start_service`, `wait_for_health`, `monitor`, `stop_all`, signals, child processes, the gateway's kill | one step per stretch between two awaits, per probe outcome and per child stopped |
| `Console` | the command lines and the gateways they start, with PID file, socket, zombies | one step per look at a file or process |
| `AppGateway` | lifespan, process table, routes, bootstrap, EDI's PID file | one step per process started or stopped, the lifespan as a list of steps to do |
| `Credentials` | vault requests over three backends, metadata, token renewal | secret and record are two writes, and either, the commit or the answer may fail; time in half seconds |
| `MailPool` | the connection provider of an account | one step per stretch between two awaits; what runs in a thread is a step of the connection, not of the borrower |
| `MailSync` | folders, rows, high-water marks, four activities and a client | one step between two awaits; the server changes in between |
| `Outreach` | mail and messages to people: contacts, caches, permission, adapters | one step per query and per thing sent, with the copies and whom a reply to all adds; time as ages |
| `FileActions` | file operations from the guardian to the adapter's thread | judgement, check, open, read, truncate, write, give-up; a write may fail behind the truncation |
| `PlatformItems` | events, reminders, contacts, notes and their rollback | submit, serve, give up, undo; the user edits meanwhile |
| `CommandShield` | `inspect_command` and `quick_check` as operators over classes of words | a reference: what the shell would do |
| `Sandbox` | planner, generated Seatbelt profile and how it is read, as operators | |
| `TerminalPath` | one command through gates, adapter and sandbox | uses the two above |
| `ScriptReview` | inline code and scripts: resolve, analyse, review | |
| `Jarvis` | server gate, chat, stream, session, compaction, memory, heartbeat | one step between two awaits; a save may break off and leave a part of the file |
| `AgentRuns` | dashboard, bots, tools and the lane as they see it | a turn sends intents, each is followed through the lane to row and counter; the user's add or skip steers the bot |

`*Properties` modules state what each should satisfy (the smaller modules state
their own properties at the end), `MC*` modules give instances, `*Proofs` modules
hold the theorems. Names follow the source: `pc` is the place in a coroutine,
`permits`, `active`, `lane`, `auditLog`, `trace`, `count` are the fields
`_value`, `_active_count`, the lock's waiters, `audit_log`, `bundle-sdk.log`,
`restart_count`. Operators marked *Mutant* are deliberate errors used to show
that each property can fail; no specification uses them.

The composition argument: `ExecutorProofs` shows that the executor service
implements `ExecutionContract`; `SecurityLane` uses the contract in its place.
The lane therefore covers whatever the executor does, restarts included. The
contract permits an answer "no" followed by the effect, since an adapter's
thread may survive its timeout; `Late` says for which intents the lane has it.
`DecisionPath` is what the lane's handler does between the lock and the executor:
seen through `Lane` in `DecisionProperties` (which place it is at, what it has
decided), each of its steps is the lane's `Decide`, `Analyze`, `Validate` or
`ModelFails` for the intent that holds the lock, or changes nothing the lane
sees. `FileActions`, `Outreach`, `PlatformItems` and `TerminalPath` are adapters
behind the executor's: they take for granted that the lane runs them one at a
time, and model what survives it (a thread given up, a late answer).

Where components share no state, or meet only in something one of them takes as
free, an MC module puts them side by side under a variable `part` that is chosen
once, at the start: the part that is not chosen stays where it starts. The
state spaces then add up and do not multiply. `MCActions`, `MCAssistant`,
`MCDesk`, `MCMail` and `MCProcesses` are of this kind; a property there that has
the name of a component's is that property of that part.

### Data that is abstracted

The hash of a row is the pair of execution and status that identifies it;
payloads and credentials do not appear. A policy is the set of intents it
permits; a hook's evidence and prompts are left out and its answer is a choice
from `Returns`; what a model answers is free. A file is the sequence of
operations whose rows it holds, and a path one of a few places with a link at
most; a command is a sequence of classes of words; a mail is its identity; a
contact is an address that is there or not; an item has a title, a calendar and
its days. Time is whether a deadline may pass, except for the vault's token
(half seconds) and the contact caches (ages).

Three choices are slightly more generous than the code, which can only add
behaviours: the monitor's sweep is one step per service although nothing is
awaited between two services that are skipped, a crash of the executor may
fall between any two steps, and IMAP may renumber a folder at any moment.

## 3. What TLC checks

Every run completes its state space. The injected faults are counted and
bounded; every count in a cfg is a bound on the environment, never on the code.

| run | instance | what it shows |
|---|---|---|
| `pool` | 4 calls, 2 permits, 2 detached adapters, a shutdown at any time | permits conserved and concurrency bounded (`PoolSafe`), queue and shutdown served (`WaitersAnswered`) |
| `gateway` | 2 requests on one file over 1 worker, one detached, one with credentials, 2 undo calls, one audit fault, one vault fault, one restart | fail-closed execution, rows in order, good news true (`TrailIsTrue`); chain, offered rollbacks and undo (`HistoryIsSound`); the refinement `ImplementsContract`; `EveryRequestAnswered` under fairness |
| `lane` | 2 intents with every kind of fault, a policy edit, an audit clear; 3 intents whose executor calls may fail | one at a time, nothing unapproved, true reports (`LaneSafe`); the log in the order of the effects (`AuditIsTimeline`); the refinement `ImplementsAirLock`; `EveryIntentAnswered` under fairness |
| `decision` | 2 routed domains, every kind of answer and failure from every hook, one hook that never awaits | fail closed and the trace explains (`DecisionSafe`), `AllowIsEarned`; the refinement `ImplementsLane`; `Decided` under fairness |
| `processes` | services: the packaged profile (two services and one that needs both), 1 respawn each, 3 faults, 1 signal, a gateway that may kill; consoles: 2 terminals, 2 starts, 1 edit, 1 fault | `SupervisorSafe` (dependencies first, clean exit, restart budget), `StopsInReverse`, under fairness `SupervisorReacts` (a signal ends it, an exit is noticed); `HintHolds` (only a raced gateway is lost, and the hint to relaunch is right), `StopEnds` under fairness |
| `mail` | pool: 3 borrowers, 2 connections, 2 faults, the stop; sync: 2 folders, an old and a new message, the four activities, one operation of a client, in 4 settings that each leave out something | `ConnsSafe`, `BorrowEnds`; `RightMessage` (a uid names its message), `NothingSkipped` (nothing under a mark is missing), `InTheEnd` (a daemon that stays up catches up) |
| `desk` | gateway: 2 identities, 2 processes of a name, 2 routes, 1 trouble, SIGTERM at any moment; vault: 2 clients, 2 keys, 3 backends, 2 requests, 1 trouble | `GatewayKeeps` (what a stopped gateway may leave, the vault outlives its users, Jarvis has a seeded policy); `VaultTells`, `OnlyItsKey`, `Recovers` |
| `actions` | commands of 1 and 2 parts over every class of word, 4 policies, every kind of sandbox configuration, scripts; files: 2 operations, 1 change of a link; outreach: 2 addresses, 1 message, cache lifetime and timeout 1; items: 2 calls with undo, 2 edits | `TerminalSafe`, `ScopeIsKept`; `ReviewSafe`; `FloorHolds`, `RowsKept` (a row stays, is carried on, or went in a write that broke off); `RecipientsChecked` (all but those `cc` and `reply_all` add); `UndoTakesItsOwn` |
| `assistant` | assistant: 3 messages of a chat and a stream client, 1 fact, 1 crash, 3 heartbeat checks, of the loop and of the user's command; agents: 2 configurations, 2 invoices, 3 turns, 2 parallel tools, 1 fault | `ContextIsWhole` (each answered exchange that no torn file lost, no refused question, a current index), `RungOnce`, `ChatIsAnswered`; `RunsAccounted` (counters and rows differ by the calls in doubt, a second row is theirs or the user's), `RunsAreOver` |
| `chain_restart`, `supervisor_orphans`, `calendar` | see below | violations |

Why the bounds are enough. Two permits and four calls let a permit be on its way
to a waiter while another is released and a third call arrives. One worker and
two requests on one file make every queueing order of the gateway, an insert that
overtakes another, and a second owner of one rollback id. Three intents give a
queue with a middle, so a caller that gives up may be first, inside or last. Two
domains distinguish first, last and next. Three services in two layers give every
relation of the dependency order; three faults let a service exit, come back,
exhaust its respawns and fail once more. Two terminals are what one console can
do to another, and two starts let a gateway be replaced while somebody waits for
it. Two connections and three borrowers make one wait while one connection is in
use and one is being made. An old and a new message in two folders give each
order of uids, a move, and a message that only the backfill may take; two
changes of one key need two clients. Two operations are what the lane and a
thread that was given up can put beside each other. The proofs of section 5 lift
most of these bounds.

Every property has at least one mutant of the mapped code that breaks it in the
same instance (`PROJECT.json`, `mutants`).

### Disagreements with documents and comments

Three runs are expected to find a violation:

| run | what it shows |
|---|---|
| `chain_restart` | `build_gateway` starts the chain at genesis over an existing table; after a restart `verify_chain_integrity` fails for good. |
| `supervisor_orphans` | A service accepts the health probe and does not answer within 5 s, or exits while the request is open. `wait_for_health` says it returns False, but httpx raises what it does not catch; the exception ends the supervisor, and no `stop_all` reaches the services it started. |
| `calendar` | The permission is checked against the calendar a call names; an event whose calendar does not exist is created in the default calendar, and update, delete and search reach every calendar. |

Others were met while modelling. The models have these behaviours, and no
property claims the contrary.

Executor and runtime:

- `pipeline.py:479` reads the policy before the lock is awaited, so an intent
  that queued is judged by the policy of its submission; `docs/registries.md:5`
  says the next decision reflects an edit.
- `pipeline.py:728` releases the lock when the executor answers; an adapter that
  timed out may act later, while another intent is judged;
  `docs/security-lanes-and-concurrency.md:104` excludes that.
- `pipeline.py:728`: when `execute()` raises, the audit entry is skipped;
  `docs/single-runtime.md:27` promises one per intent.
- `gateway.py:186` chains on the loop and inserts from threads: under
  concurrency the table is not in the order of the chain
  (`services/audit_logger.py:71`).
- `handle` catches `CredentialError` only; an HTTP error of the vault's client
  leaves it after STARTED without an outcome row (`gateway.py:112`: never
  raises). A second `save_rollback` under one id leaves a transaction open; until
  the next commit the audit INSERTs on the same file fail and every request is
  blocked (`gateway.py:231`: best-effort).
- `worker_pool.py:103` looks at the shutdown flag before it waits for a permit,
  not after; a waiter that was already woken may start after `shutdown()`
  returned (line 49 says it waits for work in flight). Threads that outlive
  their timeout no longer count against `max_workers` (line 46).
- `runner.py:298` and `:321`: a failing advisory hook is not a BLOCK, contrary to
  `docs/faq.md:200`. A BLOCK for a hook that failed leaves a record with
  `terminal: false`, while the bundle SDK's `docs/tracing_guide.md:200` reads a
  trace without a terminal record as UNDECIDED.
- `runner.py:9` promises a deadline for each hook; `wait_for` cannot interrupt a
  hook that does not await.

Processes:

- `supervisor/main.py:193` carries the restart count over only after a start that
  succeeded, so a service that never comes up is respawned without end;
  `docs/processes.md:118` says up to `max_restarts`. `RestartBudget` therefore
  speaks of services none of whose starts failed.
- `start_all` never looks at the shutdown event: a layer launched after
  `stop_all` finds its executor gone, fails its start and is stopped with a
  second `stop_all`. Between the two it was started for nothing.
- `intentframe_gateway/server.py:411` stops the vault before the supervisor, and
  gives the supervisor 15 s, of which one service may take 10;
  `docs/processes.md:76` has the vault last. `process_manager.py:336` reports a
  dead process as healthy, and a second start request orphans the first process.
- `intentframe_cli/lifecycle.py:213`: `restart_gateway` after a force kill finds
  the zombie of its own child in the PID file and starts nothing. A second
  console cannot reap a gateway that is not its child and waits out its limit.
- `hashicorp_backend.py:169`: the renewal loop takes any ttl of 0 for a token
  without expiry and ends; a token in its last second shows 0 too, and line 155
  has the loop keep the token alive for the life of the process.

Mail, files, items:

- `external_data_ingestion/.../email/sync.py:262`: after a change of UIDVALIDITY
  the new messages with small UIDs are skipped and `last_uid` is not reset;
  `sync.py:171` moves past mails whose INSERT failed. `move_email` keeps the old
  uid when the Message-ID is not found again.
- `imap_connection.py`: a borrower cancelled during LOGIN or NOOP leaves a
  logged-in connection nobody closes ("no zombie TCP connections").
- the mail constraints block actions that have no recipients (read, search,
  mark), although `constraints.py:33` calls them unconstrained; a reply ignores a
  recipient of the intent's own; a mail that was sent and whose event could not
  be written is reported as failed.
- `virtual_filesystem.py:174` compares mount paths without a separator, so a
  sibling whose name begins with the mount's is inside; `base.py:59` says a
  timeout kills a hanging adapter, but its thread writes on.
- `virtual_filesystem.py:214` and the host adapter truncate a file and then
  write it; `APPEND_ROW` rewrites the whole of it. A write that fails in between
  takes along every row that was there; `RowsKept` excuses exactly those.
- the mail bundle's check looks at `to` only (`actions/email/bundle.py`): the
  intent's `cc` is passed on (`adapters/mail.py:205`), and `reply_all` (line 336)
  adds the original's To and Cc (`email/actions.py:196`). Nothing checks these
  recipients.
- a rollback of a series takes one day of it; the notes' rollback is not
  implemented although `createNote` offers one; a creation that timed out leaves
  an item without a rollback.
- `command_shield` reports an oversized command as SAFE (`pipeline.py:154`) and
  reads a prefix of an oversized script where `resolve.py:14` says it does not;
  a redirection glued to its word is not seen. `quick.py:90` looks into a
  substitution written with blanks, and past a sub-command whose quotes do not
  close once a level is gone (`structural.py:175`); the guardian's inspection
  does not, so the executor's floor can refuse what was judged. The rules read
  the text handed to an interpreter as it stands (`pipeline.py:254`): a quoted
  word in it has no tag, and a denial by tag does not reach it.
  `classifier.py:1130` has such payloads pay their tax.

Assistant and agents:

- `jarvis_pa/jarvis/state.py:124` looks at the deadline when an event arrives; a
  hung model call holds the gate, contrary to `state.py:18-20`, and so does a
  stream nobody iterates. A stream that fails midway is followed by a full run,
  so tools act twice (`agent.py:358`).
- `session.py:149` truncates `current.jsonl` before it writes it line by line: a
  full disk or a crash in between leaves a part of the talk, which a restart
  takes for the whole (`forgot` names the answered exchanges it did not find).
- `memory_index.py:152`: a pass that cannot chunk a changed file passes it over
  and ends well, so `files_changed` is cleared over an index that is behind.
- an alert whose record cannot be written (`heartbeat.py:147`) rings again.
- the loop's heartbeat check and the one of the `/heartbeat` command
  (`main.py:149`) may both find an alert new and show it; `jarvis_pa/README.md:80`
  says alerts are deduplicated.
- the REPL and the server share one session file without a lock; an emptied or
  deleted memory file keeps its chunks in the index.
- an executor call of the invoice bot that was given up or killed is executed all
  the same; `RunsAccounted` names these calls as in doubt. A duplicate the bot
  found is added when the user says so (`agent.py:384`), and the bot may ask
  about it again in a later run.

## 4. Fairness

Weak fairness of single handlers is what the code's scheduling gives: the event
loop runs what is ready, asyncio wakes waiters in order, an INSERT ends within
`busy_timeout`, the clients of vault, model and executor have timeouts, a probe
has one. In `SecurityLane` the executor is assumed to answer a call it was sent,
which `EveryRequestAnswered` shows of `ExecutorGateway`. In `Supervisor` a service
that nobody kills is assumed to come up, or to exit when the one it asks while it
boots does not answer (`Serve`: the server asks the executor once). In `MailPool` a command or a
login returns or raises (the socket has a timeout); in `MailSync` the four
activities run on while nothing is injected. In `Credentials` time passes and
the loop and the requests are served; in `Console` a wait for a gateway is
bounded by its own deadline; in `Jarvis` only the timer of a chat is fair, in
`AgentRuns` the dashboard, the bots' timers and the lane; an installation, which
has no timeout of its own (`venv_manager.py:106`), is taken to end. Nothing obliges a
caller to submit, an adapter to succeed or to stop, a model to answer, a dying
process to go, a fault to happen or anybody to send a signal. A hook in
`Blocking` never awaits, so its deadline does not interrupt it, and only its own
end is assumed.

Deadlock checking is off in every cfg, since all of these systems may come to
rest: requests are answered and no new ones arrive, or the supervisor has ended.


## 5. What TLAPS proves

Each theorem holds for every value of the constants that the `ASSUME` of its
module admits: any number of requests, workers, services, borrowers of a
mail account, terminals, processes, folders, clients, keys, heartbeats, calls, and
any bounds on faults. `PROJECT.json`
lists under `theorems` the results a reader should know of; the rest are lemmas.

| proof module | inductive invariant | what follows |
|---|---|---|
| `ExecutorProofs` | `PoolInd`: the permits in hand, on their way and free are `max_workers`, by cardinality | `PoolIsSafe` |
| | `ExecInd`: what each handler at each point has written, performed and told (`Before`, `Meanwhile`, `After`), with the pool's part | `ExecutorTrailIsTrue` and its parts (fail-closed, order of rows, good news), `ExecutorImplementsContract` |
| | `RegistryInd`: entries of the registry are of their execution; `ChainInd`, `BeginsOnce`: the head and the links made so far | `ExecutorHistoryIsSound`, with `ExecutorChainNeverForks` |
| `LaneProofs` | `LaneInd`: one inside, the queue without repetition, who is approved and why, what was told and logged | `LaneIsSafe`, `LaneDeniesByDefault`, `LaneImplementsAirLock` |
| | `Timely`: while nothing disturbs, a call that is open is the last effect or none, and the log is the effects so far | `AuditTellsTheOrder` |
| `DecisionProofs` | `QuietInd`: the trace as far as the lifecycle has come; `AllowInd`: what was passed on the way to an ALLOW | `DecisionIsSafe`, `AllowsAreEarned` |
| | `QuietInd` and `Permitted`: past the first check the policy permits the action | `DecisionImplementsLane` |
| `SupervisorProofs` | `SupervisorInd`: places of `start_all`, who answered, who is owned, who was stopped, counts | `SupervisorIsSafe`, `StopsDependentsFirst`, `LeavesNothingBehind` |
| | `ConsoleInd`: what each waiting terminal waits for, one gateway outside races, PID file and socket name a gateway that lives, numbers not yet given out | `HintsHold` |
| `MailProofs` | `Ind`: every open connection is idle, lent, in a thread or lost; `CapInd`: permits counted as users and free | `ConnectionsAreSafe`, `NoTwoOwners` |
| | `SyncInd`: what a row, a call in progress and a mark claim of uids and messages | `UidsAreRight`, `MarksAreTrue` |
| `CredentialsProofs` | `Ind`: per key, a change between its two writes will record what the secret is | `VaultTellsAlways`, `ChangesOnlyItsKey` |
| | `GatewayInd`: whatever runs and is not excused is in the table, named by the PID file or by `supervisor_proc`, and its name is ahead in the teardown, the vault's last; the identity that is on its way | `GatewayKeepsItsOwn` |
| `ActionsProofs` | `Ind`: the age of what the caches, queries and an intent know of a contact | `RecipientsAreChecked`, `OutreachTypeCorrect` |
| | `FilesInd`: what each operation past its check has seen, the lane's order, the text of a file as rows | `FilesAreChecked`, `FloorIsKept`, `RowsAreKept` |
| | `ItemsInd`: a rollback that is kept or under way names an item its call made | `ItemsAreOwned`, `UndoIsFaithful` |
| | `TerminalIInv`: the report the gates read is the inspection of this command, no denied secret is past the constraints, a process runs under the profile of its configuration or none has started | `CommandsAreSafe`, `ProcessesStayInScope`; on the operators `QuickIsFound`, `ReadOnlyReads`, `SecretIsTagged`, `PermittedInScope`, `VenvIsReadable` |
| | `ReviewIInv`: what each node found was resolved and analysed, and what the signals owe to it | `ReviewsAreSafe` |
| `AgentRunsProofs` | `RunsInd`: a call followed from the tool, through the lane, to row and counter | `RunsAreAccounted` |
| | `JarvisInd`: one request behind the gate; what it holds across each await is the talk as it is; answered exchanges are in it but for the forgotten, refused ones are not; the file is the talk or marked as torn | `AssistantSeesTheWholeTalk` |
| | `Shown`: an alert shown today is cached, kept from its record by a crash or a failing write, or on its way | `AlertsRingOnce` |

**Why the invariants are stronger than the properties.** A property speaks of the
moments at which somebody can look; the invariant must speak of the moments
between. `NothingSkipped` says of a stored `last_uid` what is below it; that a
mark *will* be right when it is written is a statement about each activity's
fetched list, the rows it inserted so far and what it leaves out on purpose.
`PoolSafe` counts permits, and a permit that was given to a waiter that has not
run is in nobody's field. `VaultTells` speaks of keys without a request in
flight, and the induction needs those with one; a key is `torn` from a change that
was cut, lost or overlapped until one that is carried out and recorded alone, and
of a torn key nothing is claimed. Each inductive invariant (or the
part that can be evaluated) was also checked by TLC on the instance of its run.

**Actions and refinements.** `StopsInReverse`, `OnlyItsKey`, `FloorHolds`,
`RecipientsChecked`, `UndoTakesItsOwn`, `RungOnce`, `ScopeIsKept` are action properties: the
step is proved from the invariant of its module. `ExecutorImplementsContract`,
`LaneImplementsAirLock` and `DecisionImplementsLane` map each step to a step of the
abstract specification or to a stutter. They are the safety half: no fairness is
carried over. Since `SecurityLane` contains `ExecutionContract` and the decision
path takes the handler's steps, the theorems together carry the lane's claims
down to hooks, models and the executor as they are. `ImplementsLane` speaks of
the one intent whose handler has the lock; that there is one at a time is
`LaneIsOrderly`.

**The shield and the sandbox.** What `TerminalSafe` says of a command rests on
facts about operators, which are theorems of their own, for every sequence of
words. `QuickIsFound` compares the two places where a command is taken apart:
outside substitutions, and where no sub-command has an apostrophe left over,
whatever the executor's token scan takes for a payload is in a text the guardian
has searched (`Apart` names the rest). `ReadOnlyReads` follows the read-only tags back: the command is bare
or all its segments are readers, no incompatible tag was emitted, and each word
with another effect would have emitted one. `SecretIsTagged` goes the other way,
from what the shell runs, through quotes, substitutions and an interpreter's
body, to the tag; `Veiled` names the commands it does not hold of, those quoted
within that body.
`PermittedInScope` orders the rules of the generated profile, of which the last
that matches decides.

**Premises.** Besides the named `ASSUME`s on constants (finite sets where the
code has finite tables, positive capacities, bounds in `Nat`), some results have
a premise that a reader should know. `AllowsAreEarned` assumes `OnlyGatesAllow`:
bundles give an ALLOW only from the hook the SDK provides for it, which the
runner does not enforce. `AuditIsTimeline` speaks of histories that are
`Undisturbed`: no call raised, no runtime died, no adapter outlived a failure;
section 3 says what happens otherwise. The models of agents and assistant let the
language model do as it likes within what its tools offer; `Sensible` in
`AgentRuns` is the one restriction, as the bot's instructions say it: it adds an
invoice only after it has read the tracker, one it found there only when the
user of this run said add, and none that a tool told it is done or the user said
to skip. `CaseAssumption` gives the shape of what a terminal intent may be: a
command of one or two parts of any words, each with at least one, any policy, and
paths of the sandbox's places. Two parts are a restriction of the model: a text
of any number of parts is a fold over them, and what a fold yields is proved by
induction over data. `InspectionAssumption` names the classes of scripts.

**What failed proofs showed.** Some properties changed because they could not be
proved, and rightly so:

- `MailSync`: "the body of a row is its message's" leaned on a flag that a later
  pass resets. The history `strayed` records what was fetched by a uid that had
  moved. The exemption of messages older than the window was too wide for a
  folder that had been synced in full before; the history `left` names exactly
  what a windowed pass left out.
- `FileActions`: what the guardian was told of a file's target can be wrong after
  its caller gave up, when two operations are under way; `ToldTheTruth` says so.
- `LaneImplementsAirLock` was stated for quiet lanes only. The proof goes through
  under every fault, and the run now checks it so.
- `AppGateway`: a process whose number the system had given out before counted as
  adopted by an earlier gateway; `Adopted` and `Launch` now tell the two apart.
- `Jarvis`: an alert rings twice when two checks run beside each other. The run had
  one check; it now has the loop's and the command's, and `RungOnce` says when the
  second ring is possible.
- `Sandbox`: the rule that decides was the one at the greatest index that matches;
  `Permits` now says that one matches and none after it does. `CommandShield`
  writes unions of families in parentheses, since the provers' parser reads the
  text without them in another way than TLC.
- `AppGateway`, `Console`: choices of "the one such that" became quantifiers over
  the least such one, and a filter of a sequence became the removal of the one
  element it removes.

**How the proofs are laid out.** A component's module first says the invariant as
a conjunction of named parts, then proves one lemma per action and part (or, for
processes kept in a function, a lemma about one entry that changes while the
others do not), then `Init => Ind`, the step and the temporal conclusion.
Counting arguments use `FiniteSetTheorems`; sequences use `SequenceTheorems` and a
few lemmas on appending, removing and indices stated where they are used. No
module declares a recursive operator, and no proof is omitted.

## 6. What is only model-checked, and what is not modelled

**Only checked by TLC, on the instances of section 3:**

- all liveness, since it needs fairness and `ENABLED`: `WaitersAnswered`,
  `EveryRequestAnswered`, `EveryIntentAnswered`, `Decided`,
  `SupervisorReacts`, `StopEnds`, `InTheEnd`, `BorrowEnds`,
  `Recovers`, `ChatIsAnswered`, `RunsAreOver`;
- that the documented promises of section 3 fail: a violation is one behaviour,
  and the theorems say what holds instead.

Every invariant and every action property of a passing run is a theorem.

**Partly modelled:** the state store (rollback registry; other tables have the same
three operations), the policy registry (as the lane sees it), client and SDK
(timeouts, what is answered), the AI engines (a free answer with the engine's
failures), the supervisor (configuration files and logs are left out), the mail
daemon (one account; its health endpoint is left out), the gateway's proxies and
event stream, the vault's other routes, the command shield (parsing down to
classes of words), Jarvis's tools and prompts, the example agents, the command
line's set-up dialogues.

**Not modelled:** the executor's dispatcher, bundle registry, loader and lifecycle
(filled at boot, read afterwards); the rest of the native kit, browser,
clipboard, system and notification services (single calls); SDK contracts, core
types, onboarding and the edge facade (no state); proxy, prompt library and the
runtime's meta-package; the Telegram bot; demos, deployment and scripts.

**The gap one hazard leaves.** An intent that queued is judged by the policy of its
submission (`pipeline.py:479`). The model has the behaviour, `NothingUnapproved`
relates an approval to the policy that was read, and no property claims that it
is the policy of the moment; `docs/registries.md:5` says otherwise (section 3).

**What could come next.** Commands of any number of parts, once the provers can
do induction over a sequence; the liveness properties, once they know `ENABLED`;
the takeover of a run directory by a second supervisor; the dispatcher and the
bundle registry, if bundles are ever loaded while intents are judged.
