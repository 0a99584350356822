-------------------------------- MODULE Outreach --------------------------------
(***************************************************************************)
(* Mail and messages to people.  The permission may name recipients, and    *)
(* sources of recipients: all contacts of the user, or a group of them.     *)
(* The bundle resolves the sources through the platform server, caches what *)
(* it learns, and compares the recipients of an intent.  The adapter acts   *)
(* later, on the intent and, for a reply, on the row of the local copy of   *)
(* the mailbox.  The copies of a mail, and the others a reply to all goes   *)
(* to, are looked at by the adapter only.  The user edits the contacts at   *)
(* any time.                                                                *)
(*                                                                          *)
(* Time is kept as ages: of each cache entry, and of the departure of each  *)
(* contact, counted up to the first age that does not matter.               *)
(***************************************************************************)
EXTENDS Naturals, Sequences

CONSTANTS
  Address,
  Pattern,    \* addresses that a pattern of the permission matches
  Group,      \* the contacts of the group, while they are contacts
  Policies,   \* constraints by channel: any, or those sources, in their order
  Message,    \* messages of the local copy, each from Sender[m], to the user and Others[m]
  Sender,
  Others,
  Ttl,        \* _CACHE_TTL
  Timeout     \* _TIMEOUT of a query to the platform server

ASSUME OutreachAssumption ==
  /\ Pattern \subseteq Address /\ Group \subseteq Address /\ Sender \in [Message -> Address]
  /\ Others \in [Message -> SUBSET Address]
  /\ "none" \notin Message /\ Ttl \in Nat /\ Timeout \in Nat
  /\ \A p \in Policies : \A c \in {"mail", "messages"} :
       /\ p[c].any \in BOOLEAN /\ p[c].sources \in Seq({"contacts_all", "contacts_group"})
       /\ Len(p[c].sources) <= 2    \* all contacts, and the one group

VARIABLES
  policy,
  gone,     \* how long ago each address left the contacts, 0 while it is there
  cache,    \* what each bundle knows of each source
  job,      \* the intent in the lane
  sent      \* whom the last step wrote to

vars == <<policy, gone, cache, job, sent>>

Channel == {"mail", "messages"}
Source == {"contacts_all", "contacts_group"}
ChannelOf(op) == IF op \in {"send_message", "read_messages"} THEN "messages" ELSE "mail"
\* The actions on one message, which enrichment looks up.
OnMessage == {"reply", "forward", "get", "mark_read", "move", "delete", "attachment"}
Action == OnMessage \cup {"send", "read", "search", "send_message", "read_messages"}
SendLike == {"send", "reply", "forward", "send_message", "read_messages"}

\* Until an entry expires that came late, and another query has come late.
Stale == Ttl + 2 * Timeout
Contacts == {a \in Address : gone[a] = 0}
Reached(source) == IF source = "contacts_all" THEN Contacts ELSE Contacts \cap Group

NoEntry == [age |-> 0, who |-> {}, has |-> FALSE]
\* A query: not asked, asked, or answered with who.
NoQuery == [at |-> "none", who |-> {}, age |-> 0]
Idle == [at |-> "idle", op |-> "read", to |-> {}, own |-> FALSE, of |-> "none", cc |-> {}, all |-> FALSE,
         next |-> 1, known |-> {}, query |-> NoQuery, lawful |-> {}]

Init ==
  /\ policy \in Policies
  /\ gone = [a \in Address |-> 0]
  /\ cache = [c \in Channel |-> [s \in Source |-> NoEntry]]
  /\ job = Idle /\ sent = {}

OutreachTypeOK ==
  /\ gone \in [Address -> 0..(Stale + 2)]
  /\ \A c \in Channel, s \in Source : cache[c][s] \in [age : 0..Ttl, who : SUBSET Address, has : BOOLEAN]
  /\ job.at \in {"idle", "resolving", "allowed"} /\ job.op \in Action
  /\ job.of \in Message \cup {"none"} /\ job.to \cup job.cc \cup job.known \cup job.lawful \subseteq Address
  /\ job.query \in [at : {"none", "asked", "answered"}, who : SUBSET Address, age : 0..Timeout]
  /\ sent \subseteq Address

-------------------------------------------------------------------------------
(* The bundles *)

Limits == policy[ChannelOf(job.op)]

\* enrich: a reply without recipient gets the sender of the message it finds.
Enriched(op, to, of, found) == IF op = "reply" /\ to = {} /\ found THEN {Sender[of]} ELSE to

\* An intent reaches the constraints, for which it resolves the sources when it
\* would write to somebody.
Ask(op, to, of) ==
  /\ job.at = "idle"
  /\ op \in OnMessage <=> of \in Message
  /\ op \in {"send", "reply", "forward", "send_message", "read_messages"} \/ to = {}
  /\ ChannelOf(op) = "messages" => \A a, b \in to : a = b
  /\ \E found, all \in BOOLEAN, cc \in SUBSET Address :
       /\ (op = "send" \/ cc = {}) /\ (op = "reply" \/ ~all)
       /\ job' = [Idle EXCEPT !.at = "resolving", !.op = op, !.to = Enriched(op, to, of, found),
                              !.own = (to # {}), !.of = of, !.cc = cc, !.all = all,
                              !.next = IF op \in SendLike THEN 1 ELSE Len(policy[ChannelOf(op)].sources) + 1]
  /\ sent' = {} /\ UNCHANGED <<policy, gone, cache>>

Resolving == job.at = "resolving" /\ ~Limits.any /\ job.next <= Len(Limits.sources)
Entry == cache[ChannelOf(job.op)][Limits.sources[job.next]]
Learns(who) == [job EXCEPT !.known = @ \cup who, !.next = @ + 1, !.query = NoQuery]

\* Mutant: a hit makes the entry young again.
TouchesCache ==
  /\ Resolving /\ job.query = NoQuery /\ Entry.has
  /\ job' = Learns(Entry.who)
  /\ cache' = [cache EXCEPT ![ChannelOf(job.op)][Limits.sources[job.next]].age = 0]
  /\ sent' = {} /\ UNCHANGED <<policy, gone>>

\* _get_cached: an entry that has not expired.
FromCache ==
  /\ Resolving /\ job.query = NoQuery /\ Entry.has
  /\ job' = Learns(Entry.who)
  /\ sent' = {} /\ UNCHANGED <<policy, gone, cache>>

\* Otherwise the platform server is asked ...
Query ==
  /\ Resolving /\ job.query = NoQuery /\ ~Entry.has
  /\ job' = [job EXCEPT !.query.at = "asked"]
  /\ sent' = {} /\ UNCHANGED <<policy, gone, cache>>

\* ... reads the contacts at some moment ...
ServerReads ==
  /\ Resolving /\ job.query.at = "asked"
  /\ job' = [job EXCEPT !.query.at = "answered", !.query.who = Reached(Limits.sources[job.next])]
  /\ sent' = {} /\ UNCHANGED <<policy, gone, cache>>

\* ... and its answer is kept from when it arrives.
Fetched ==
  /\ Resolving /\ job.query.at = "answered"
  /\ cache' = [cache EXCEPT ![ChannelOf(job.op)][Limits.sources[job.next]] =
                 [age |-> 0, who |-> job.query.who, has |-> TRUE]]
  /\ job' = Learns(job.query.who)
  /\ sent' = {} /\ UNCHANGED <<policy, gone>>

\* No server, no success, or no answer in time: nobody, and nothing is kept.
FetchFails ==
  /\ Resolving /\ job.query # NoQuery
  /\ job' = Learns({})
  /\ sent' = {} /\ UNCHANGED <<policy, gone, cache>>

\* Whom the permission covers: by a pattern, or as a contact of late.
Lawful ==
  IF Limits.any THEN Address
  ELSE {a \in Address : \/ a \in Pattern
                        \/ \E i \in 1..Len(Limits.sources) :
                             /\ gone[a] <= Stale + 1
                             /\ Limits.sources[i] = "contacts_all" \/ a \in Group}

\* _check: somebody is written to, and everybody is allowed.
Passes == Limits.any \/ (job.to # {} /\ job.to \subseteq Pattern \cup job.known)

Enforce ==
  /\ job.at = "resolving" /\ ~Resolving
  /\ job' = IF Passes THEN [Idle EXCEPT !.at = "allowed", !.op = job.op, !.to = job.to, !.own = job.own,
                                        !.of = job.of, !.cc = job.cc, !.all = job.all, !.lawful = Lawful]
            ELSE Idle
  /\ sent' = {} /\ UNCHANGED <<policy, gone, cache>>

-------------------------------------------------------------------------------
(* The adapters *)

\* The answer to the agent, with what the step wrote to others.
Writes(to) == job' = Idle /\ sent' = to /\ UNCHANGED <<policy, gone, cache>>
Cleared(op) == job.at = "allowed" /\ job.op \in op

\* The intent is denied further down the lane.
Denied == job.at = "allowed" /\ Writes({})

\* _validate_account: an account that is not active is refused.
NoAccount == Cleared({"send", "read", "search"}) /\ Writes({})

\* _send, through SMTP, to the recipients and the copies; a mail that was accepted but
\* not recorded is reported as a failure.
Send == Cleared({"send"}) /\ job.to # {} /\ Writes(job.to \cup job.cc)

\* SMTP refuses the mail.
NotSent == Cleared({"send", "reply", "forward"}) /\ Writes({})

\* _read and _search list from the local copy.
Lists == Cleared({"read", "search"}) /\ Writes({})

\* get_email finds no row: mark_read, move and delete report success all the same.
NotFound == Cleared(OnMessage) /\ Writes({})

\* _reply: to the sender of the row, whatever recipient the intent names, and with
\* reply_all to everybody the row names.
Reply == Cleared({"reply"}) /\ Writes({Sender[job.of]} \cup (IF job.all THEN Others[job.of] ELSE {}))

\* _forward.
Forward == Cleared({"forward"}) /\ job.to # {} /\ Writes(job.to)

\* _get_email and _download_attachment.
GetEmail == Cleared({"get"}) /\ Writes({})
Downloads == Cleared({"attachment"}) /\ Writes({})
\* What the mail server changes.
EditsMailbox == Cleared({"mark_read", "move", "delete"}) /\ Writes({})

\* sendMessage: a script of the Messages application.
SendMessage == Cleared({"send_message"}) /\ job.to # {} /\ Writes(job.to)

\* runOsascript fails, or is killed before it has sent the message.
ScriptFails == Cleared({"send_message"}) /\ Writes({})

\* readMessages, from the user's own store.
ReadMessages == Cleared({"read_messages"}) /\ Writes({})

-------------------------------------------------------------------------------
(* The user's contacts and time *)

\* An address that a pattern covers may be a contact or not.
Edit(a) ==
  /\ gone' = [gone EXCEPT ![a] = IF @ = 0 THEN 1 ELSE 0]
  /\ sent' = {} /\ UNCHANGED <<policy, cache, job>>

\* The bundle's work takes time only while it waits for a query, and that no longer
\* than the client's timeout.
Tick ==
  /\ job.at = "resolving" => job.query # NoQuery /\ job.query.age < Timeout
  /\ gone' = [a \in Address |-> IF gone[a] = 0 \/ gone[a] = Stale + 2 THEN gone[a] ELSE gone[a] + 1]
  /\ cache' = [c \in Channel |-> [s \in Source |->
                 IF cache[c][s].has /\ cache[c][s].age < Ttl THEN [cache[c][s] EXCEPT !.age = @ + 1]
                 ELSE NoEntry]]
  /\ job' = IF job.query = NoQuery THEN job ELSE [job EXCEPT !.query.age = @ + 1]
  /\ sent' = {} /\ UNCHANGED policy

Next ==
  \/ \E op \in Action, to \in SUBSET Address, of \in Message \cup {"none"} : Ask(op, to, of)
  \/ FromCache \/ Query \/ ServerReads \/ Fetched \/ FetchFails \/ Enforce
  \/ Denied \/ NoAccount \/ NotSent \/ NotFound
  \/ Send \/ Reply \/ Forward \/ Lists \/ GetEmail \/ Downloads \/ EditsMailbox
  \/ SendMessage \/ ScriptFails \/ ReadMessages
  \/ \E a \in Address \ Pattern : Edit(a)
  \/ Tick

Spec == Init /\ [][Next]_vars

-------------------------------------------------------------------------------
(* Properties *)

\* Those whom the adapter adds to the recipients, and _check does not look at.
Added == job.cc \cup (IF job.all THEN Others[job.of] ELSE {})

\* "Must match an allowed pattern": whoever is written to was covered by the
\* permission when it was checked, as a contact at most the cache's lifetime and
\* two late answers before, or is one whom the intent's cc or reply_all added.  A
\* reply whose intent names a recipient of its own is checked for that one and goes
\* to the sender.
RecipientsChecked ==
  [][sent' # {} /\ ~(job.op = "reply" /\ job.own) => sent' \subseteq job.lawful \cup Added]_vars
===============================================================================
