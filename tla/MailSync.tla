------------------------------- MODULE MailSync -------------------------------
(***************************************************************************)
(* One account of the e-mail daemon: the folders of the IMAP server, the   *)
(* local database with its rows and its high-water mark per folder, and    *)
(* the four activities that write it - the priority pass of start, the     *)
(* IDLE loop, the one-shot backfill and the periodic sync - with a client  *)
(* process that reads bodies, moves and deletes.  A step is what runs      *)
(* between two awaits; the server changes under them.                      *)
(***************************************************************************)
EXTENDS Naturals, Sequences, FiniteSets

CONSTANTS
  Msg,         \* messages
  Old,         \* those older than body_sync_days
  NoId,        \* those without a Message-ID
  Folder, Inbox,
  Early, Rest, \* the folders of the priority pass, and the others, in order
  Setting      \* where it may start: content, what the folders hold; trouble, a bound
               \* on errors, crashes, a stop, changes of other clients; and ops, a
               \* bound on the operations of the client

None == "none"
Blank == "blank"  \* the empty Message-ID

ASSUME SyncAssumption ==
  /\ Old \subseteq Msg /\ NoId \subseteq Msg /\ None \notin Msg /\ Blank \notin Msg
  /\ Inbox \in Folder
  /\ Early \in Seq(Folder) /\ Rest \in Seq(Folder)
  /\ \A s \in Setting : /\ s.content \in [Folder -> Seq(Msg)]
                        /\ s.trouble \in Nat /\ s.ops \in Nat

VARIABLES
  box,       \* the server: folder -> set of [uid, msg]
  coming,    \* the messages nobody has sent yet
  next,      \* UIDNEXT
  epoch,     \* UIDVALIDITY
  rows,      \* the emails table, by Message-ID
  mark,      \* sync_state
  activity,  \* the activities of the daemon
  daemon,    \* "off", "starting", "running", "stopped"
  stopped,   \* the stop event
  news,      \* the selected INBOX changed and IDLE has not been told
  cl,        \* the client's operation
  trouble, ops,                \* what is left of the bounds
  left, excused                \* history: the uids a windowed pass left out of a
                               \* folder, the messages an error lost

server == <<box, coming, next, epoch>>
local == <<rows, mark>>
process == <<activity, daemon, stopped>>
budget == <<trouble, ops>>
history == <<left, excused>>
syncVars == <<server, local, process, news, cl, budget, history>>

Task == {"start", "idle", "backfill", "periodic"}
-----------------------------------------------------------------------------
(* The database.                                                            *)

(* UNIQUE (account_email, message_id).                                      *)
Key(m) == IF m \in NoId THEN Blank ELSE m
Keys == (Msg \ NoId) \cup {Blank}

NoRow == [msg |-> None, at |-> Inbox, uid |-> 0, epoch |-> 0, sure |-> TRUE, strayed |-> FALSE,
          body |-> None]

(* A row as _extract_email_row makes it; content_level is 1 when body is    *)
(* set.  epoch (the UIDVALIDITY the uid belongs to), sure (the uid is       *)
(* known) and strayed (it once was not) are history: no column holds them.  *)
Row(f, e, ep, withBody) ==
  [msg |-> e.msg, at |-> f, uid |-> e.uid, epoch |-> ep, sure |-> TRUE, strayed |-> FALSE,
   body |-> IF withBody THEN e.msg ELSE None]

Stored(m) == rows[Key(m)] # NoRow

-----------------------------------------------------------------------------
(* The daemon's activities.  A task's record is its phase, the folders the  *)
(* phase has still to do and the sync_folder call in progress.              *)

Quiet == [phase |-> "off", todo |-> <<>>, stage |-> "read", validity |-> 0,
          last |-> 0, epoch |-> 0, got |-> {}, top |-> 0, uids |-> {}, seen |-> {}]

Enter(phase, todo) == [Quiet EXCEPT !.phase = phase, !.todo = todo]
Ended == Enter("done", <<>>)

(* What the phases ask of sync_folder.                                      *)
IsFull(t) == t = "backfill" /\ activity[t].phase = "early"
WithBodies(t) == t # "backfill"
Windowed(t) == t = "start"

Syncing(t) ==
  /\ daemon \in {"starting", "running"}
  /\ activity[t].phase \in {"early", "rest", "all", "inbox"}
  /\ activity[t].todo # <<>>

Set(t, r) == activity' = [activity EXCEPT ![t] = r]

(* SELECT uidvalidity, last_uid.                                            *)
Read(t) ==
  /\ Syncing(t) /\ activity[t].stage = "read" /\ ~(IsFull(t) /\ stopped)
  /\ LET m == IF IsFull(t) THEN [validity |-> 0, last |-> 0] ELSE mark[Head(activity[t].todo)]
     IN Set(t, [activity[t] EXCEPT !.stage = "fetch", !.validity = m.validity,
                               !.last = m.last, !.top = m.last])
  /\ UNCHANGED <<server, local, daemon, stopped, news, cl, budget, history>>

(* The criteria of the fetch.                                               *)
Wanted(t, f) ==
  IF activity[t].validity # 0 /\ epoch[f] # activity[t].validity THEN box[f]
  ELSE IF activity[t].last # 0 THEN {e \in box[f] : e.uid > activity[t].last}
  ELSE IF Windowed(t) THEN {e \in box[f] : e.msg \notin Old}
  ELSE box[f]

(* ... and the loop skips what is not above the old mark, whatever the      *)
(* reason it was fetched for.                                               *)
Fetched(t, f) == {e \in Wanted(t, f) : IsFull(t) \/ e.uid > activity[t].last}

Fetch(t) ==
  /\ Syncing(t) /\ activity[t].stage = "fetch"
  /\ LET f == Head(activity[t].todo)
     IN /\ Set(t, [activity[t] EXCEPT !.stage = "store", !.validity = 0, !.epoch = epoch[f],
                                   !.got = Fetched(t, f)])
        /\ left' = IF activity[t].last = 0
                   THEN [left EXCEPT ![f] = @ \cup {e.uid : e \in box[f] \ Wanted(t, f)}]
                   ELSE left
  /\ news' = (news /\ t # "idle")
  /\ UNCHANGED <<server, local, daemon, stopped, cl, budget, excused>>

Lowest(S) == {e \in S : \A d \in S : e.uid <= d.uid}

(* INSERT OR IGNORE: the row that has the Message-ID stays as it is.        *)
Inserted(t, f, e) ==
  [rows EXCEPT ![Key(e.msg)] = IF @ = NoRow THEN Row(f, e, activity[t].epoch, WithBodies(t)) ELSE @]

(* One message.  An exception of the INSERT is logged, the row is missing,  *)
(* and the loop goes on past its uid.                                       *)
Insert(t) ==
  /\ Syncing(t) /\ activity[t].stage = "store" /\ activity[t].got # {}
  /\ \E e \in Lowest(activity[t].got) :
        /\ Set(t, [activity[t] EXCEPT !.got = @ \ {e},
                                  !.top = IF e.uid > @ THEN e.uid ELSE @])
        /\ \/ rows' = Inserted(t, Head(activity[t].todo), e) /\ UNCHANGED <<trouble, excused>>
           \/ /\ trouble > 0 /\ ~Stored(e.msg)
              /\ trouble' = trouble - 1
              /\ excused' = excused \cup {e.msg}
              /\ UNCHANGED rows
  /\ UNCHANGED <<server, mark, daemon, stopped, news, cl, ops, left>>

(* Where a task goes from a phase whose folders are done: there is no await *)
(* between the last folder and the look at the stop event.                  *)
Then(t) ==
  LET p == activity[t].phase
  IN IF t = "backfill"
     THEN IF stopped THEN Ended
          ELSE IF p = "early" THEN Enter("rest", Rest)
          ELSE IF p = "rest" THEN Enter("bodies", Rest)
          ELSE Enter("verify", <<>>)
     ELSE IF t = "idle" THEN IF stopped THEN Ended ELSE Enter("wait", <<>>)
     ELSE IF t = "periodic" THEN Enter("verify", <<>>)
     ELSE Ended

NextFolder(t) ==
  IF Len(activity[t].todo) > 1 THEN Enter(activity[t].phase, Tail(activity[t].todo)) ELSE Then(t)

(* The mark a sync leaves behind.                                           *)
(* Mutant: the mark is taken from the server's UIDNEXT.                     *)
MarkAhead(t, f) == [validity |-> activity[t].epoch, last |-> next[f] - 1]

NewMark(t, f) == [validity |-> activity[t].epoch, last |-> activity[t].top]

Save(t) ==
  /\ Syncing(t) /\ activity[t].stage = "store" /\ activity[t].got = {}
  /\ LET f == Head(activity[t].todo)
     IN /\ mark' = [mark EXCEPT ![f] = NewMark(t, f)]
        /\ left' = IF ~Windowed(t) /\ activity[t].last = 0 THEN [left EXCEPT ![f] = {}] ELSE left
  /\ Set(t, NextFolder(t))
  /\ UNCHANGED <<server, rows, daemon, stopped, news, cl, budget, excused>>

-----------------------------------------------------------------------------
(* SyncDaemon.start, and what the tasks do between the folders.             *)

StartDaemon ==
  /\ daemon = "off"
  /\ daemon' = "starting" /\ stopped' = FALSE
  /\ activity' = [t \in Task |-> IF t = "start" THEN Enter("early", Early) ELSE Quiet]
  /\ UNCHANGED <<server, local, news, cl, budget, history>>

(* The three tasks of the account.                                          *)
Spawn ==
  /\ daemon = "starting"
  /\ activity["start"].phase = "done"
  /\ daemon' = "running"
  /\ activity' = [start |-> Ended, idle |-> Enter("wait", <<>>),
              backfill |-> Enter("early", Early), periodic |-> Enter("deferred", <<>>)]
  /\ UNCHANGED <<server, local, stopped, news, cl, budget, history>>

At(t, p) == daemon = "running" /\ activity[t].phase = p /\ activity[t].todo = <<>>

(* mb.idle.wait returns when the server tells of a change; every 25 minutes *)
(* and after an error INBOX is selected anew on another connection, and     *)
(* what came before that is not news.                                       *)
IdleWakes ==
  /\ At("idle", "wait")
  /\ \/ stopped /\ Set("idle", Ended) /\ news' = news
     \/ ~stopped /\ news /\ Set("idle", Enter("inbox", <<Inbox>>)) /\ news' = news
     \/ ~stopped /\ news /\ news' = FALSE /\ activity' = activity
  /\ UNCHANGED <<server, local, daemon, stopped, cl, budget, history>>

(* A bound: the hour that ends a deferral, a stop or a crash uses up what   *)
(* is left of the trouble and of the client's operations.                   *)
Fatal == trouble > 0 /\ trouble' = 0 /\ ops' = 0

(* Mutant: without the hour, it waits for an event a dead backfill never    *)
(* sets.                                                                    *)
WaitsForEver == stopped \/ activity["backfill"].phase = "done"

(* What ends the deferral at once: the hour is sure to pass when the        *)
(* backfill is dead.                                                        *)
Due == stopped \/ activity["backfill"].phase \in {"done", "dead"}

(* _deferred_periodic_sync: the stop, the backfill's end, or an hour.       *)
DeferralEnds ==
  /\ At("periodic", "deferred")
  /\ Set("periodic", IF stopped THEN Ended ELSE Enter("all", Early \o Rest))
  /\ \/ Due /\ UNCHANGED budget
     \/ activity["backfill"].phase # "dead" /\ Fatal
  /\ UNCHANGED <<server, local, daemon, stopped, news, cl, history>>

PeriodicWakes ==
  /\ At("periodic", "sleep")
  /\ Set("periodic", IF stopped THEN Ended ELSE Enter("all", Early \o Rest))
  /\ UNCHANGED <<server, local, daemon, stopped, news, cl, budget, history>>

-----------------------------------------------------------------------------
(* upgrade_folder_bodies: select, fetch, update.                            *)

Upgrading == daemon = "running" /\ activity["backfill"].phase = "bodies" /\ activity["backfill"].todo # <<>>

(* content_level = 0 in the folder f.                                       *)
HeadersOnly(r, f) == r # NoRow /\ r.at = f /\ r.body = None

UpgradeSelect ==
  /\ Upgrading /\ activity["backfill"].stage = "read"
  /\ LET f == Head(activity["backfill"].todo)
         uids == {rows[k].uid : k \in {j \in Keys : HeadersOnly(rows[j], f)
                                                    /\ rows[j].msg \notin Old}}
     IN Set("backfill", IF uids = {} THEN NextFolder("backfill")
                        ELSE [activity["backfill"] EXCEPT !.stage = "fetch", !.uids = uids])
  /\ UNCHANGED <<server, local, daemon, stopped, news, cl, budget, history>>

UpgradeFetch ==
  /\ Upgrading /\ activity["backfill"].stage = "fetch"
  /\ LET f == Head(activity["backfill"].todo)
     IN Set("backfill", [activity["backfill"] EXCEPT !.stage = "store", !.epoch = epoch[f],
                           !.got = {e \in box[f] : e.uid \in activity["backfill"].uids}])
  /\ UNCHANGED <<server, local, daemon, stopped, news, cl, budget, history>>

(* UPDATE ... WHERE mailbox = f AND uid = the message's AND content_level = 0 *)
UpgradeStore ==
  /\ Upgrading /\ activity["backfill"].stage = "store"
  /\ LET f == Head(activity["backfill"].todo)
         Body(r) == {e.msg : e \in {d \in activity["backfill"].got : d.uid = r.uid}}
     IN rows' = [k \in Keys |->
                   IF HeadersOnly(rows[k], f) /\ Body(rows[k]) # {}
                   THEN [rows[k] EXCEPT !.body = CHOOSE b \in Body(rows[k]) : TRUE]
                   ELSE rows[k]]
  /\ Set("backfill", NextFolder("backfill"))
  /\ UNCHANGED <<server, mark, daemon, stopped, news, cl, budget, history>>

-----------------------------------------------------------------------------
(* verify_integrity: the server's uids, then the local ones.                *)

Verifies(t) == At(t, "verify") /\ t \in {"backfill", "periodic"}

VerifyServer(t) ==
  /\ Verifies(t) /\ activity[t].stage = "read"
  /\ ~(t = "backfill" /\ stopped)
  /\ Set(t, [activity[t] EXCEPT !.stage = "store",
               !.seen = UNION {{[at |-> f, uid |-> e.uid, msg |-> e.msg] : e \in box[f]} : f \in Folder}])
  /\ UNCHANGED <<server, local, daemon, stopped, news, cl, budget, history>>

LocalUid(x) == \E k \in Keys : rows[k] # NoRow /\ rows[k].at = x.at /\ rows[k].uid = x.uid

(* The second pass asks the server for the Message-ID of each candidate.    *)
CrossFolder(x) ==
  /\ [uid |-> x.uid, msg |-> x.msg] \in box[x.at]
  /\ x.msg \notin NoId /\ Stored(x.msg)

Missing(x) == ~LocalUid(x) /\ ~CrossFolder(x)

(* result["ok"].                                                            *)
Ok(t) == ~\E x \in activity[t].seen : Missing(x)

AfterVerify(t) == IF t = "backfill" THEN Ended ELSE Enter("sleep", <<>>)

VerifyLocal(t) ==
  /\ Verifies(t) /\ activity[t].stage = "store"
  /\ Set(t, AfterVerify(t))
  /\ UNCHANGED <<server, local, daemon, stopped, news, cl, budget, history>>

(* The stop event is looked at before each folder of the first phase and    *)
(* before the check.                                                        *)
BackfillStops ==
  /\ stopped
  /\ IsFull("backfill") \/ Verifies("backfill")
  /\ daemon = "running" /\ activity["backfill"].stage = "read"
  /\ Set("backfill", Ended)
  /\ UNCHANGED <<server, local, daemon, stopped, news, cl, budget, history>>

-----------------------------------------------------------------------------
(* Exceptions of a fetch: of the connection, or of one folder.              *)

(* Where an exception leaves a task, and whether its connection was lost.   *)
After(t, lost) ==
  IF t = "start" THEN Ended
  ELSE IF t = "idle" THEN Enter("wait", <<>>)
  ELSE IF t = "backfill" /\ activity[t].phase = "early" THEN Enter("dead", <<>>)
  ELSE IF activity[t].phase = "verify" THEN AfterVerify(t)
  ELSE IF ~lost THEN NextFolder(t)
  ELSE IF t = "backfill" THEN Ended
  ELSE Enter("verify", <<>>)

Fail(t) ==
  /\ daemon \in {"starting", "running"} /\ trouble > 0
  /\ \/ Syncing(t) /\ activity[t].stage = "fetch"
     \/ t = "backfill" /\ Upgrading /\ activity[t].stage = "fetch"
     \/ Verifies(t) /\ activity[t].stage = "store"
  /\ \E lost \in BOOLEAN : Set(t, After(t, lost))
  /\ news' = (news /\ t # "idle")
  /\ trouble' = trouble - 1
  /\ UNCHANGED <<server, local, daemon, stopped, cl, ops, history>>

-----------------------------------------------------------------------------
(* The end of the daemon.                                                   *)

StopDaemon ==
  /\ daemon = "running" /\ ~stopped /\ Fatal
  /\ stopped' = TRUE
  /\ UNCHANGED <<server, local, activity, daemon, news, cl, history>>

(* wait_stopped: everybody is done, or 15 s have passed and the others are  *)
(* cancelled; the database is closed.                                       *)
Stopped ==
  /\ daemon = "running" /\ stopped
  /\ daemon' = "stopped" /\ activity' = [t \in Task |-> Quiet]
  /\ UNCHANGED <<server, local, stopped, news, cl, budget, history>>

(* SIGKILL, or a SIGTERM during start, which has no handler yet.            *)
Crash ==
  /\ daemon \in {"starting", "running"} /\ Fatal
  /\ daemon' = "off" /\ news' = FALSE /\ activity' = [t \in Task |-> Quiet]
  /\ UNCHANGED <<server, local, stopped, cl, history>>

-----------------------------------------------------------------------------
(* EmailClient, in another process: get_email, mark_read, move, delete.     *)
(* Each begins with get_email, which fetches a body that is not there.      *)

NoOp == [pc |-> None, op |-> None, msg |-> None, at |-> Inbox, uid |-> 0,
         epoch |-> 0, sure |-> TRUE, found |-> None, to |-> Inbox]

(* The operation c with the place its message's row has now.                *)
Aims(c, pc) ==
  LET r == rows[c.msg]
  IN [c EXCEPT !.pc = pc, !.at = r.at, !.uid = r.uid, !.epoch = r.epoch, !.sure = r.sure]

(* get_email; what the operation is shows only once it is done.             *)
Open(m) ==
  /\ cl = NoOp /\ ops > 0 /\ m \in Msg \ NoId /\ Stored(m)
  /\ ops' = ops - 1
  /\ LET begun == [NoOp EXCEPT !.msg = m]
     IN cl' = IF rows[m].body = None THEN Aims(begun, "body") ELSE [begun EXCEPT !.pc = "lookup"]
  /\ UNCHANGED <<server, local, process, news, trouble, history>>

(* The folders of S change: IDLE hears of INBOX while it has it selected.   *)
Hears(S) == news' = (news \/ (Inbox \in S /\ activity["idle"].phase \in {"wait", "inbox"}))

AtUid(f, u) == {e \in box[f] : e.uid = u}

(* _fetch_body_on_demand; nothing found leaves the row as it is.            *)
FetchBody ==
  /\ cl.pc = "body"
  /\ \E m \in IF AtUid(cl.at, cl.uid) = {} THEN {None} ELSE {e.msg : e \in AtUid(cl.at, cl.uid)} :
        cl' = [NoOp EXCEPT !.pc = "write", !.msg = cl.msg, !.found = m]
  /\ UNCHANGED <<server, local, process, news, budget, history>>

WriteBody ==
  /\ cl.pc = "write"
  /\ rows' = [rows EXCEPT ![cl.msg].body = IF @ = None /\ rows[cl.msg] # NoRow THEN cl.found ELSE @]
  /\ cl' = [cl EXCEPT !.pc = "lookup", !.found = None]
  /\ UNCHANGED <<server, mark, process, news, budget, history>>

(* The action reads the row's uid and mailbox anew.                         *)
Lookup(op, to) ==
  /\ cl.pc = "lookup"
  /\ op = "move" => to # rows[cl.msg].at
  /\ cl' = IF op = "get" \/ rows[cl.msg] = NoRow THEN NoOp
           ELSE Aims([cl EXCEPT !.op = op, !.to = to], "server")
  /\ UNCHANGED <<server, local, process, news, budget, history>>

Others(f, u) == {e \in box[f] : e.uid # u}

(* What the operation does to the server: by mailbox and uid.               *)
Delete ==
  /\ cl.pc = "server" /\ cl.op = "delete"
  /\ box' = [box EXCEPT ![cl.at] = Others(cl.at, cl.uid)]
  /\ cl' = [cl EXCEPT !.pc = "local"]
  /\ Hears({cl.at})
  /\ UNCHANGED <<coming, next, epoch, local, process, budget, history>>

MarkRead ==
  /\ cl.pc = "server" /\ cl.op = "read"
  /\ cl' = NoOp
  /\ UNCHANGED <<server, local, process, news, budget, history>>

Moved(f, g, u) ==
  [box EXCEPT ![f] = Others(f, u),
              ![g] = @ \cup {[uid |-> next[g], msg |-> e.msg] : e \in AtUid(f, u)}]

(* The new uid is asked for by Message-ID, and may not be found.            *)
Move ==
  /\ cl.pc = "server" /\ cl.op = "move"
  /\ box' = Moved(cl.at, cl.to, cl.uid)
  /\ next' = IF AtUid(cl.at, cl.uid) = {} THEN next ELSE [next EXCEPT ![cl.to] = @ + 1]
  /\ LET there == {e \in box'[cl.to] : e.msg = cl.msg}
     IN \/ /\ \E e \in Lowest(there) :
                cl' = [cl EXCEPT !.pc = "local", !.epoch = epoch[cl.to], !.sure = TRUE, !.uid = e.uid]
           /\ UNCHANGED trouble
        \/ /\ there = {} \/ trouble > 0
           /\ cl' = [cl EXCEPT !.pc = "local", !.sure = FALSE]
           /\ trouble' = IF there = {} THEN trouble ELSE trouble - 1
  /\ Hears({cl.at, cl.to})
  /\ UNCHANGED <<coming, epoch, local, process, ops, history>>

(* The row's update after a move.                                           *)
(* Mutant: the folder is updated, the uid is not.                           *)
Relocated(r) == [r EXCEPT !.at = cl.to, !.epoch = cl.epoch]

Updated(r) == [r EXCEPT !.at = cl.to, !.uid = cl.uid, !.epoch = cl.epoch, !.sure = cl.sure,
                        !.strayed = @ \/ ~cl.sure]

OnServer(m) == \E f \in Folder : \E e \in box[f] : e.msg = m

UpdateRow ==
  /\ cl.pc = "local"
  /\ IF rows[cl.msg] = NoRow THEN UNCHANGED <<rows, excused>>
     ELSE IF cl.op = "move"
     THEN rows' = [rows EXCEPT ![cl.msg] = Updated(@)] /\ UNCHANGED excused
     ELSE /\ rows' = [rows EXCEPT ![cl.msg] = NoRow]
          /\ excused' = IF OnServer(cl.msg) THEN excused \cup {cl.msg} ELSE excused
  /\ cl' = NoOp
  /\ UNCHANGED <<server, mark, process, news, budget, left>>

(* An exception, or the end of the client's process.                        *)
ClientFails ==
  /\ cl # NoOp /\ trouble > 0
  /\ trouble' = trouble - 1
  /\ cl' = NoOp
  /\ UNCHANGED <<server, local, process, news, ops, history>>

-----------------------------------------------------------------------------
(* The server and the other clients of the account.                         *)

Arrive(m, f) ==
  /\ m \in coming \ Old
  /\ coming' = coming \ {m}
  /\ box' = [box EXCEPT ![f] = @ \cup {[uid |-> next[f], msg |-> m]}]
  /\ next' = [next EXCEPT ![f] = @ + 1]
  /\ Hears({f})
  /\ UNCHANGED <<epoch, local, process, cl, budget, history>>

OtherClientMoves(f, g, u) ==
  /\ trouble > 0 /\ f # g /\ AtUid(f, u) # {}
  /\ trouble' = trouble - 1
  /\ box' = Moved(f, g, u)
  /\ next' = [next EXCEPT ![g] = @ + 1]
  /\ Hears({f, g})
  /\ UNCHANGED <<coming, epoch, local, process, cl, ops, history>>

Rank(f, e) == Cardinality({d \in box[f] : d.uid <= e.uid})

(* A new UIDVALIDITY: the folder is numbered anew.                          *)
Renumber(f) ==
  /\ trouble > 0 /\ box[f] # {}
  /\ trouble' = trouble - 1
  /\ box' = [box EXCEPT ![f] = {[uid |-> Rank(f, e), msg |-> e.msg] : e \in @}]
  /\ next' = [next EXCEPT ![f] = Cardinality(box[f]) + 1]
  /\ epoch' = [epoch EXCEPT ![f] = @ + 1]
  /\ Hears({f})
  /\ UNCHANGED <<coming, local, process, cl, ops, history>>

-----------------------------------------------------------------------------
SyncInit ==
  /\ \E s \in Setting :
       /\ box = [f \in Folder |-> {[uid |-> i, msg |-> s.content[f][i]] : i \in DOMAIN s.content[f]}]
       /\ next = [f \in Folder |-> Len(s.content[f]) + 1]
       /\ coming = {m \in Msg : \A f \in Folder : \A i \in DOMAIN s.content[f] : s.content[f][i] # m}
       /\ trouble = s.trouble /\ ops = s.ops
  /\ epoch = [f \in Folder |-> 1]
  /\ rows = [k \in Keys |-> NoRow]
  /\ mark = [f \in Folder |-> [validity |-> 0, last |-> 0]]
  /\ activity = [t \in Task |-> Quiet]
  /\ daemon = "off" /\ stopped = FALSE /\ news = FALSE
  /\ cl = NoOp
  /\ left = [f \in Folder |-> {}] /\ excused = {}

SyncStep(t) == Read(t) \/ Fetch(t) \/ Insert(t) \/ Save(t)

Upgrade == UpgradeSelect \/ UpgradeFetch \/ UpgradeStore
Verify(t) == VerifyServer(t) \/ VerifyLocal(t)

Start == SyncStep("start") \/ Spawn
Idle == SyncStep("idle") \/ IdleWakes
Backfill == SyncStep("backfill") \/ Upgrade \/ Verify("backfill") \/ BackfillStops
Periodic == SyncStep("periodic") \/ DeferralEnds \/ PeriodicWakes \/ Verify("periodic")

Lifecycle == StartDaemon \/ StopDaemon \/ Stopped \/ Crash

Client ==
  \/ \E m \in Msg : Open(m)
  \/ FetchBody \/ WriteBody
  \/ \E op \in {"get", "read", "delete"} : Lookup(op, Inbox)
  \/ \E to \in Folder : Lookup("move", to)
  \/ Delete \/ MarkRead \/ Move \/ UpdateRow \/ ClientFails

Server ==
  \/ \E m \in Msg, f \in Folder : Arrive(m, f)
  \/ \E f, g \in Folder : \E e \in box[f] : OtherClientMoves(f, g, e.uid)
  \/ \E f \in Folder : Renumber(f)

SyncNext ==
  \/ Start \/ Idle \/ Backfill \/ Periodic \/ \E t \in Task : Fail(t)
  \/ Lifecycle \/ Client \/ Server

SyncSpec == SyncInit /\ [][SyncNext]_syncVars

(* The event loop is fair to the tasks, and the timeouts of the deferral    *)
(* and of the sleep between syncs do elapse.                                *)
SyncFairness ==
  WF_syncVars(Start) /\ WF_syncVars(Idle) /\ WF_syncVars(Backfill) /\ WF_syncVars(Periodic)
-----------------------------------------------------------------------------
(* Properties.                                                              *)

Renumbered(f) == epoch[f] > 1

(* Every uid in the database is one the server gave, under its present      *)
(* UIDVALIDITY: nothing was numbered anew and no moved message is left      *)
(* under its old uid.                                                       *)
UidsHold == (\A f \in Folder : ~Renumbered(f)) /\ (\A k \in Keys : rows[k].sure)

(* A uid taken under the folder's present UIDVALIDITY names the message m   *)
(* or nothing at all.                                                       *)
Names(p, m) ==
  p.sure /\ p.epoch = epoch[p.at] => \A e \in AtUid(p.at, p.uid) : e.msg = m

(* A row's uid names the row's message, and so does the uid a client is     *)
(* about to flag, move or delete by, whatever moved or was synced in the    *)
(* meantime; a body is the body of its own message, unless some folder was  *)
(* numbered anew or the message was moved and not found again.              *)
RightMessage ==
  /\ \A k \in Keys : rows[k] # NoRow => Names(rows[k], rows[k].msg)
  /\ cl.pc \in {"body", "server"} => Names(cl, cl.msg)
  /\ \A k \in Keys : rows[k].body \in {None, rows[k].msg} \/ rows[k].strayed
                     \/ \E f \in Folder : Renumbered(f)

(* In the database, unless its INSERT failed or it was deleted under a      *)
(* location it had left, or a windowed pass left it to the backfill.        *)
Accounted(f, e) == Stored(e.msg) \/ e.msg \in excused \/ e.uid \in left[f]

(* Nothing at or below a folder's high-water mark is missing from the       *)
(* database, but for these exceptions and folders numbered anew.  And an    *)
(* integrity check that finds no gap has none to find: every message it     *)
(* saw on the server is in the database.                                    *)
NothingSkipped ==
  /\ \A f \in Folder : mark[f].validity = 1 /\ ~Renumbered(f) =>
       \A e \in box[f] : e.uid <= mark[f].last => Accounted(f, e)
  /\ \A t \in Task :
       Verifies(t) /\ activity[t].stage = "store" /\ Ok(t) /\ UidsHold =>
         \A x \in activity[t].seen : Stored(x.msg)

(* A daemon that stays up catches up: in the end every message on the       *)
(* server is in the database, with the same exceptions.                     *)
CatchesUp ==
  <>[](daemon = "running" /\ ~stopped =>
         \A f \in Folder : ~Renumbered(f) => \A e \in box[f] : Accounted(f, e))
=============================================================================
