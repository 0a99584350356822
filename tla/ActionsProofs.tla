------------------------------ MODULE ActionsProofs -----------------------------
(***************************************************************************)
(* The actions on the user's mail, messages, files and items, and commands  *)
(* and scripts, for every set of addresses, calls, operations, identifiers, *)
(* cases and inspections: nobody is written to whom the permission does not *)
(* cover; a file changes only off the floor and in its mount, and keeps the *)
(* rows that were reported; a rollback takes what its own call has made; a  *)
(* script that was found is told of; what no model has judged only reads,   *)
(* and a process stays in the scope of its sandbox.                         *)
(*                                                                          *)
(* Mail and messages first.  The argument follows an address from the       *)
(* contacts to the intent and counts since when it may have left them: an   *)
(* answer is as old as its query, a cache entry older by at most its        *)
(* lifetime, and what an intent has learnt older by the query for the other *)
(* source.                                                                  *)
(***************************************************************************)
EXTENDS Outreach, FileActions, PlatformItems, TerminalPath, ScriptReview,
        FiniteSetTheorems, SequenceTheorems, TLAPS

EntryRec == [age : 0..Ttl, who : SUBSET Address, has : BOOLEAN]
QueryRec == [at : {"none", "asked", "answered"}, who : SUBSET Address, age : 0..Timeout]
JobRec == [at : {"idle", "resolving", "allowed"}, op : Action, to : SUBSET Address, own : BOOLEAN,
           of : Message \cup {"none"}, cc : SUBSET Address, all : BOOLEAN, next : 1..3, known : SUBSET Address, query : QueryRec,
           lawful : SUBSET Address]

Types ==
  /\ policy \in Policies
  /\ gone \in [Address -> Nat]
  /\ cache \in [Channel -> [Source -> EntryRec]]
  /\ job \in JobRec
  /\ job.op \in OnMessage => job.of \in Message

\* The permission's part for the channel of the intent.
LimitsOK == Limits.sources \in Seq(Source) /\ Len(Limits.sources) \in 0..2

\* a left the contacts at most n ago, and the source reaches it.
Recent(a, n) == gone[a] <= n
OfSource(a, s) == s = "contacts_group" => a \in Group

CacheOK ==
  \A c \in Channel, s \in Source : cache[c][s].has =>
    \A a \in cache[c][s].who : Recent(a, cache[c][s].age + Timeout + 1) /\ OfSource(a, s)

QueryOK ==
  /\ job.query.at = "none" <=> job.query = NoQuery
  /\ job.query # NoQuery => Resolving
  /\ job.query.at = "answered" =>
       \A a \in job.query.who : Recent(a, job.query.age + 1) /\ OfSource(a, Limits.sources[job.next])

\* What the intent has learnt of its first source while it asks the second.
Age == Ttl + Timeout + 1 + (IF job.next = 3 THEN Timeout ELSE job.query.age)
KnownOK ==
  job.at = "resolving" =>
    /\ job.next = 1 => job.known = {}
    /\ \A a \in job.known :
         /\ Recent(a, Age)
         /\ \E i \in 1..Len(Limits.sources) : Limits.sources[i] = "contacts_all" \/ a \in Group

\* A reply that names nobody goes to the sender of its message, and has been checked
\* for it, if for anybody.
ToOK ==
  /\ job.at # "idle" /\ job.op = "reply" /\ ~job.own => job.to = {} \/ job.to = {Sender[job.of]}
  /\ job.at = "allowed" => job.to \subseteq job.lawful /\ (job.to = {} => job.lawful = Address)

Ind == Types /\ CacheOK /\ QueryOK /\ KnownOK /\ ToOK

-------------------------------------------------------------------------------
LEMMA IndLimits ==
  ASSUME Types
  PROVE  /\ LimitsOK
         /\ ChannelOf(job.op) \in Channel
         /\ Resolving => job.next \in 1..2 /\ Limits.sources[job.next] \in Source
<1>1. ChannelOf(job.op) \in Channel
  BY DEF ChannelOf, Channel
<1>2. Limits.sources \in Seq(Source) /\ Len(Limits.sources) <= 2
  <2> DEFINE c == ChannelOf(job.op)
  <2>1. c \in {"mail", "messages"} /\ policy \in Policies
    BY <1>1 DEF Channel, Types
  <2> HIDE DEF c
  <2>2. /\ policy[c].sources \in Seq({"contacts_all", "contacts_group"})
        /\ Len(policy[c].sources) <= 2
    BY ONLY OutreachAssumption, <2>1
  <2> QED BY <2>2 DEF Limits, Source, c
<1>3. Len(Limits.sources) \in Nat /\ \A i \in 1..Len(Limits.sources) : Limits.sources[i] \in Source
  BY <1>2
<1>4. job.next \in 1..3
  BY DEF Types, JobRec
<1>5. LimitsOK
  <2> DEFINE n == Len(Limits.sources)
  <2>1. n \in Nat /\ n <= 2
    BY <1>2, <1>3
  <2> HIDE DEF n
  <2>2. n \in 0..2
    BY <2>1
  <2> QED BY <1>2, <2>2 DEF LimitsOK, n
<1>6. Resolving => job.next \in 1..2 /\ Limits.sources[job.next] \in Source
  BY <1>2, <1>3, <1>4 DEF Resolving
<1> QED BY <1>1, <1>5, <1>6

LEMMA IdleTyped == Idle \in JobRec /\ NoQuery \in QueryRec /\ NoEntry \in EntryRec
<1>1. NoQuery \in QueryRec
  BY OutreachAssumption DEF NoQuery, QueryRec
<1>2. NoEntry \in EntryRec
  BY OutreachAssumption DEF NoEntry, EntryRec
<1> QED BY <1>1, <1>2 DEF Idle, JobRec, Action

LEMMA InitInd == Init => Ind
<1> SUFFICES ASSUME Init PROVE Ind
  OBVIOUS
<1>1. job = Idle /\ job.query = NoQuery
  BY DEF Init, Idle
<1>2. Types
  BY <1>1, IdleTyped DEF Init, Types, Channel, Source, Idle, OnMessage
<1>3. \A c \in Channel, s \in Source : ~cache[c][s].has
  BY DEF Init, NoEntry
<1> QED BY <1>1, <1>2, <1>3 DEF Ind, CacheOK, QueryOK, KnownOK, ToOK, Idle, NoQuery

\* Without an intent nothing but the cache matters.
LEMMA IdleInd ==
  ASSUME Ind, job' = Idle, UNCHANGED <<policy, gone, cache>> PROVE Ind'
<1>1. job'.query = NoQuery /\ job'.at = "idle" /\ job'.op = "read"
  BY DEF Idle
<1>2. Types'
  BY <1>1, IdleTyped DEF Ind, Types, OnMessage
<1>3. CacheOK'
  BY DEF Ind, CacheOK, Recent
<1> QED BY <1>1, <1>2, <1>3 DEF Ind, QueryOK, KnownOK, ToOK, NoQuery

LEMMA AskInd ==
  ASSUME Ind, NEW op \in Action, NEW to \in SUBSET Address, NEW of \in Message \cup {"none"},
         Ask(op, to, of)
  PROVE  Ind'
<1>1. PICK found \in BOOLEAN, all \in BOOLEAN, cc \in SUBSET Address :
        job' = [Idle EXCEPT !.at = "resolving", !.op = op, !.to = Enriched(op, to, of, found),
                            !.own = (to # {}), !.of = of, !.cc = cc, !.all = all,
                            !.next = IF op \in SendLike THEN 1 ELSE Len(policy[ChannelOf(op)].sources) + 1]
  BY ZenonT(30) DEF Ask
<1>2. UNCHANGED <<policy, gone, cache>> /\ (op \in OnMessage => of \in Message)
  BY DEF Ask
<1> DEFINE who == Enriched(op, to, of, found)
           start == IF op \in SendLike THEN 1 ELSE Len(policy[ChannelOf(op)].sources) + 1
<1>3. who \in SUBSET Address /\ (op = "reply" /\ to = {} => who = {} \/ who = {Sender[of]})
  BY <1>2, OutreachAssumption DEF Enriched, OnMessage
<1>4. start \in 1..3
  <2>1. ChannelOf(op) \in {"mail", "messages"}
    BY DEF ChannelOf
  <2>2. /\ policy[ChannelOf(op)].sources \in Seq({"contacts_all", "contacts_group"})
        /\ Len(policy[ChannelOf(op)].sources) <= 2
    BY <2>1, OutreachAssumption DEF Ind, Types
  <2> QED BY <2>2
<1> HIDE DEF who, start
<1>5. /\ job' \in JobRec /\ job'.at = "resolving" /\ job'.op = op /\ job'.to = who /\ job'.of = of
      /\ job'.own = (to # {}) /\ job'.known = {} /\ job'.query = NoQuery /\ job'.cc = cc /\ job'.all = all
  <2>1. job' = [at |-> "resolving", op |-> op, to |-> who, own |-> to # {}, of |-> of, cc |-> cc, all |-> all, next |-> start,
                known |-> {}, query |-> NoQuery, lawful |-> {}]
    BY <1>1 DEF Idle, who, start
  <2> QED BY <2>1, <1>3, <1>4, IdleTyped DEF JobRec
<1>6. Types'
  BY <1>2, <1>5 DEF Ind, Types
<1>7. CacheOK'
  BY <1>2 DEF Ind, CacheOK, Recent
<1>8. QueryOK' /\ KnownOK'
  BY <1>5 DEF QueryOK, KnownOK, NoQuery
<1>9. ToOK'
  <2>1. ~job'.own => to = {}
    BY <1>5
  <2> QED BY <1>3, <1>5, <2>1 DEF ToOK
<1> QED BY <1>6, <1>7, <1>8, <1>9 DEF Ind

\* The intent learns of a source: what it learns is recent enough for its next one.
LEMMA LearnsInd ==
  ASSUME Ind, Resolving, NEW who \in SUBSET Address,
         \A a \in who : Recent(a, Ttl + Timeout + 1) /\ OfSource(a, Limits.sources[job.next]),
         job' = Learns(who), policy' = policy, gone' = gone,
         cache' \in [Channel -> [Source -> EntryRec]], CacheOK'
  PROVE  Ind'
<1>1. /\ job \in JobRec /\ job.at = "resolving"
      /\ job.next \in 1..2 /\ Limits.sources[job.next] \in Source /\ LimitsOK
      /\ job.next <= Len(Limits.sources)
  BY IndLimits DEF Ind, Types, Resolving
<1>2. /\ job' \in JobRec /\ job'.at = "resolving" /\ job'.op = job.op /\ job'.to = job.to
      /\ job'.of = job.of /\ job'.own = job.own /\ job'.known = job.known \cup who
      /\ job'.next = job.next + 1 /\ job'.query = NoQuery
  <2> DEFINE n == job.next + 1
             k == job.known \cup who
  <2>1. job' = [job EXCEPT !.known = k, !.next = n, !.query = NoQuery]
    BY DEF Learns
  <2>2. n \in 1..3 /\ k \in SUBSET Address /\ NoQuery \in QueryRec
    BY <1>1, IdleTyped DEF JobRec
  <2> HIDE DEF n, k
  <2>3. /\ job' \in JobRec /\ job'.at = "resolving" /\ job'.op = job.op /\ job'.to = job.to
        /\ job'.of = job.of /\ job'.own = job.own /\ job'.known = k
        /\ job'.next = n /\ job'.query = NoQuery
    BY <1>1, <2>1, <2>2 DEF JobRec
  <2> QED BY <2>3 DEF n, k
<1>3. Types'
  BY <1>2 DEF Ind, Types
<1>4. QueryOK' /\ ToOK'
  BY <1>1, <1>2 DEF Ind, QueryOK, ToOK, NoQuery
<1>5. Limits' = Limits
  BY <1>2 DEF Limits
<1>6. Age' >= Ttl + Timeout + 1 /\ Age' \in Nat /\ (job.next = 2 => Age' = Ttl + 2 * Timeout + 1)
  <2>1. job'.query.age = 0 /\ Ttl \in Nat /\ Timeout \in Nat
    BY <1>2, OutreachAssumption DEF NoQuery
  <2> QED BY <1>1, <1>2, <2>1 DEF Age
<1>7. \A a \in Address : gone[a] \in Nat
  BY DEF Ind, Types
<1>8. ASSUME NEW a \in job.known PROVE gone[a] <= Age'
  <2>1. job.next = 2
    BY <1>1, <1>8 DEF Ind, KnownOK
  <2>2. gone[a] <= Ttl + Timeout + 1 + job.query.age
    BY <1>1, <1>8, <2>1 DEF Ind, KnownOK, Age, Recent
  <2>3. job.query.age \in 0..Timeout /\ a \in Address
    BY <1>1 DEF JobRec, QueryRec
  <2> QED BY <1>6, <1>7, <2>1, <2>2, <2>3, OutreachAssumption
<1>9. ASSUME NEW a \in who PROVE gone[a] <= Age'
  <2>1. gone[a] <= Ttl + Timeout + 1
    BY <1>9 DEF Recent
  <2> QED BY <1>6, <1>7, <2>1, OutreachAssumption
<1>10. \A a \in job.known \cup who :
          \E i \in 1..Len(Limits.sources) : Limits.sources[i] = "contacts_all" \/ a \in Group
  <2>1. job.next \in 1..Len(Limits.sources)
    BY <1>1 DEF LimitsOK
  <2>2. \A a \in who : Limits.sources[job.next] = "contacts_all" \/ a \in Group
    BY <1>1 DEF OfSource, Source
  <2> QED BY <1>1, <2>1, <2>2 DEF Ind, KnownOK
<1>11. KnownOK'
  BY <1>1, <1>2, <1>5, <1>8, <1>9, <1>10 DEF KnownOK, Recent
<1> QED BY <1>3, <1>4, <1>11 DEF Ind

LEMMA FromCacheInd == ASSUME Ind, FromCache PROVE Ind'
<1> DEFINE c == ChannelOf(job.op)
           s == Limits.sources[job.next]
<1>1. Resolving /\ c \in Channel /\ s \in Source /\ cache[c][s].has
  BY IndLimits DEF FromCache, Entry, Ind
<1>2. job' = Learns(cache[c][s].who) /\ policy' = policy /\ gone' = gone /\ cache' = cache
  BY DEF FromCache, Entry
<1>3. cache[c][s] \in EntryRec
  BY <1>1 DEF Ind, Types
<1> HIDE DEF c, s
<1>4. ASSUME NEW a \in cache[c][s].who
      PROVE  Recent(a, Ttl + Timeout + 1) /\ OfSource(a, s) /\ a \in Address
  <2>1. gone[a] <= cache[c][s].age + Timeout + 1 /\ OfSource(a, s)
    BY <1>1 DEF Ind, CacheOK, Recent
  <2>2. a \in Address /\ cache[c][s].age \in 0..Ttl
    BY <1>3 DEF EntryRec
  <2>3. gone[a] \in Nat
    BY <2>2 DEF Ind, Types
  <2> QED BY <2>1, <2>2, <2>3, OutreachAssumption DEF Recent
<1>5. CacheOK'
  BY <1>2 DEF Ind, CacheOK, Recent
<1>6. cache' \in [Channel -> [Source -> EntryRec]]
  BY <1>2 DEF Ind, Types
<1>7. cache[c][s].who \in SUBSET Address
  BY <1>3 DEF EntryRec
<1> QED BY <1>1, <1>2, <1>4, <1>5, <1>6, <1>7, LearnsInd DEF s

LEMMA FetchFailsInd == ASSUME Ind, FetchFails PROVE Ind'
<1>1. Resolving /\ job' = Learns({}) /\ policy' = policy /\ gone' = gone /\ cache' = cache
  BY DEF FetchFails
<1>2. CacheOK' /\ cache' \in [Channel -> [Source -> EntryRec]]
  BY <1>1 DEF Ind, Types, CacheOK, Recent
<1> QED BY <1>1, <1>2, LearnsInd

LEMMA FetchedInd == ASSUME Ind, Fetched PROVE Ind'
<1> DEFINE c == ChannelOf(job.op)
           s == Limits.sources[job.next]
           e == [age |-> 0, who |-> job.query.who, has |-> TRUE]
<1>1. /\ Resolving /\ c \in Channel /\ s \in Source /\ job.query.at = "answered"
      /\ cache' = [cache EXCEPT ![c][s] = e]
      /\ job' = Learns(job.query.who) /\ policy' = policy /\ gone' = gone
  BY IndLimits DEF Fetched, Ind
<1>2. job.query.who \in SUBSET Address /\ job.query.age \in 0..Timeout /\ e \in EntryRec
  <2>1. job.query \in QueryRec
    BY DEF Ind, Types, JobRec
  <2> QED BY <2>1, OutreachAssumption DEF QueryRec, EntryRec
<1>3. ASSUME NEW a \in job.query.who
      PROVE  Recent(a, Timeout + 1) /\ Recent(a, Ttl + Timeout + 1) /\ OfSource(a, s)
  <2>1. gone[a] <= job.query.age + 1 /\ OfSource(a, s)
    BY <1>1 DEF Ind, QueryOK, Recent
  <2>2. gone[a] \in Nat
    BY <1>2 DEF Ind, Types
  <2> QED BY <1>2, <2>1, <2>2, OutreachAssumption DEF Recent
<1>4. e.age = 0 /\ e.who = job.query.who
  OBVIOUS
<1> HIDE DEF c, s, e
<1>5. /\ cache' \in [Channel -> [Source -> EntryRec]] /\ cache'[c][s] = e
      /\ \A d \in Channel, r \in Source : d # c \/ r # s => cache'[d][r] = cache[d][r]
  BY <1>1, <1>2 DEF Ind, Types
<1>6. CacheOK'
  <2> SUFFICES ASSUME NEW d \in Channel, NEW r \in Source, cache'[d][r].has, NEW a \in cache'[d][r].who
               PROVE  gone[a] <= cache'[d][r].age + Timeout + 1 /\ OfSource(a, r)
    BY <1>1 DEF CacheOK, Recent, OfSource
  <2>1. CASE d = c /\ r = s
    <3>1. gone[a] <= Timeout + 1 /\ OfSource(a, s) /\ cache'[d][r].age = 0
      BY <1>3, <1>4, <1>5, <2>1 DEF Recent
    <3> QED BY <2>1, <3>1, OutreachAssumption
  <2>2. CASE ~(d = c /\ r = s)
    BY <1>5, <2>2 DEF Ind, CacheOK, Recent
  <2> QED BY <2>1, <2>2
<1> QED BY <1>1, <1>2, <1>3, <1>5, <1>6, LearnsInd DEF s

LEMMA QueryInd == ASSUME Ind, Query PROVE Ind'
<1>1. /\ Resolving /\ job.query = NoQuery /\ job' = [job EXCEPT !.query.at = "asked"]
      /\ UNCHANGED <<policy, gone, cache>> /\ job \in JobRec
  BY DEF Query, Ind, Types
<1> DEFINE q == [at |-> "asked", who |-> {}, age |-> 0]
<1>2. q \in QueryRec /\ q # NoQuery /\ q.at = "asked" /\ q.age = 0
  BY OutreachAssumption DEF QueryRec, NoQuery
<1>3. job' = [job EXCEPT !.query = q]
  BY <1>1 DEF NoQuery
<1> HIDE DEF q
<1>4. /\ job' \in JobRec /\ job'.at = job.at /\ job'.op = job.op /\ job'.to = job.to
      /\ job'.of = job.of /\ job'.own = job.own /\ job'.known = job.known
      /\ job'.next = job.next /\ job'.query = q /\ job'.lawful = job.lawful
  BY <1>1, <1>2, <1>3 DEF JobRec
<1>5. Limits' = Limits
  BY <1>1, <1>4 DEF Limits
<1>6. Types' /\ CacheOK' /\ ToOK'
  BY <1>1, <1>4 DEF Ind, Types, CacheOK, ToOK, Recent
<1>7. QueryOK'
  BY <1>1, <1>2, <1>4, <1>5 DEF QueryOK, Resolving, NoQuery
<1>8. Age' = Age
  <2>1. job.query.age = 0
    BY <1>1 DEF NoQuery
  <2> QED BY <1>2, <1>4, <2>1 DEF Age
<1>9. KnownOK'
  BY <1>1, <1>4, <1>5, <1>8 DEF Ind, KnownOK, Recent
<1> QED BY <1>6, <1>7, <1>9 DEF Ind

\* The contacts of now are of the source that is asked for.
LEMMA ServerReadsInd == ASSUME Ind, ServerReads PROVE Ind'
<1> DEFINE r == Reached(Limits.sources[job.next])
           q == [job.query EXCEPT !.at = "answered", !.who = r]
<1>1. /\ Resolving /\ job.query.at = "asked" /\ UNCHANGED <<policy, gone, cache>> /\ job \in JobRec
      /\ job.query \in QueryRec /\ Limits.sources[job.next] \in Source
      /\ job' = [job EXCEPT !.query.at = "answered", !.query.who = r]
  BY IndLimits DEF ServerReads, Ind, Types, JobRec
<1>2. r \in SUBSET Address /\ \A a \in r : gone[a] = 0 /\ OfSource(a, Limits.sources[job.next])
  BY <1>1, OutreachAssumption DEF Reached, Contacts, OfSource, Source
<1>3. q \in QueryRec /\ q # NoQuery /\ q.at = "answered" /\ q.age = job.query.age /\ q.who = r
  BY <1>1, <1>2 DEF QueryRec, NoQuery
<1>4. job' = [job EXCEPT !.query = q]
  BY <1>1 DEF JobRec
<1> HIDE DEF q, r
<1>5. /\ job' \in JobRec /\ job'.at = job.at /\ job'.op = job.op /\ job'.to = job.to
      /\ job'.of = job.of /\ job'.own = job.own /\ job'.known = job.known
      /\ job'.next = job.next /\ job'.query = q /\ job'.lawful = job.lawful
  BY <1>1, <1>3, <1>4 DEF JobRec
<1>6. Limits' = Limits
  BY <1>1, <1>5 DEF Limits
<1>7. Types' /\ CacheOK' /\ ToOK'
  BY <1>1, <1>5 DEF Ind, Types, CacheOK, ToOK, Recent
<1>8. QueryOK'
  <2>1. q.age + 1 \in Nat /\ 0 <= q.age + 1
    BY <1>1, <1>3, OutreachAssumption DEF QueryRec
  <2>2. \A a \in q.who : gone'[a] <= q.age + 1 /\ OfSource(a, Limits.sources[job.next])
    BY <1>1, <1>2, <1>3, <2>1
  <2>3. Resolving'
    BY <1>1, <1>5, <1>6 DEF Resolving
  <2> QED BY <1>3, <1>5, <1>6, <2>2, <2>3 DEF QueryOK, OfSource, Recent, NoQuery
<1>9. Age' = Age
  BY <1>3, <1>5 DEF Age
<1>10. KnownOK'
  BY <1>1, <1>5, <1>6, <1>9 DEF Ind, KnownOK, Recent
<1> QED BY <1>7, <1>8, <1>10 DEF Ind

\* Whom the check lets pass is lawful: what the intent has learnt is no older than
\* the permission allows.
LEMMA PassesLawful ==
  ASSUME Ind, job.at = "resolving", ~Resolving, Passes
  PROVE  job.to \subseteq Lawful /\ (job.to = {} => Lawful = Address)
<1>1. job \in JobRec /\ job.to \subseteq Address /\ LimitsOK /\ Ttl \in Nat /\ Timeout \in Nat
  BY IndLimits, OutreachAssumption DEF Ind, Types, JobRec
<1>2. CASE Limits.any
  BY <1>1, <1>2 DEF Lawful
<1>3. CASE ~Limits.any
  <2>1. job.to # {} /\ job.to \subseteq Pattern \cup job.known
    BY <1>3 DEF Passes
  <2>2. ASSUME NEW a \in job.known, a \in Address
        PROVE  \E i \in 1..Len(Limits.sources) :
                 gone[a] <= Stale + 1 /\ (Limits.sources[i] = "contacts_all" \/ a \in Group)
    <3>1. gone[a] <= Age
      BY <2>2 DEF Ind, KnownOK, Recent
    <3>2. Age <= Stale + 1 /\ Age \in Nat
      <4>1. job.query.age \in 0..Timeout
        BY <1>1 DEF JobRec, QueryRec
      <4> QED BY <1>1, <4>1 DEF Age, Stale
    <3>3. gone[a] \in Nat /\ Stale + 1 \in Nat
      BY <1>1, <2>2 DEF Ind, Types, Stale
    <3>4. gone[a] <= Stale + 1
      BY <3>1, <3>2, <3>3
    <3> QED BY <2>2, <3>4 DEF Ind, KnownOK
  <2>3. Lawful = {a \in Address : a \in Pattern \/ \E i \in 1..Len(Limits.sources) :
                     gone[a] <= Stale + 1 /\ (Limits.sources[i] = "contacts_all" \/ a \in Group)}
    BY <1>3 DEF Lawful
  <2> QED BY <1>1, <2>1, <2>2, <2>3
<1> QED BY <1>2, <1>3

LEMMA EnforceInd == ASSUME Ind, Enforce PROVE Ind'
<1>1. job.at = "resolving" /\ ~Resolving /\ UNCHANGED <<policy, gone, cache>> /\ job \in JobRec
  BY DEF Enforce, Ind, Types
<1>2. CASE ~Passes
  BY <1>1, <1>2, IdleInd DEF Enforce
<1>3. CASE Passes
  <2> DEFINE l == Lawful
  <2>1. job' = [at |-> "allowed", op |-> job.op, to |-> job.to, own |-> job.own, of |-> job.of, cc |-> job.cc, all |-> job.all, next |-> 1,
                known |-> {}, query |-> NoQuery, lawful |-> l]
    BY <1>3 DEF Enforce, Idle
  <2>2. l \in SUBSET Address /\ job.to \subseteq l /\ (job.to = {} => l = Address)
    BY <1>1, <1>3, PassesLawful DEF Lawful
  <2> HIDE DEF l
  <2>3. job' \in JobRec /\ job'.query = NoQuery
    BY <1>1, <2>1, <2>2, IdleTyped DEF JobRec
  <2>4. Types' /\ CacheOK'
    BY <1>1, <2>1, <2>3 DEF Ind, Types, CacheOK, Recent
  <2>5. QueryOK' /\ KnownOK'
    BY <2>1 DEF QueryOK, KnownOK, NoQuery
  <2>6. ToOK'
    BY <1>1, <2>1, <2>2 DEF Ind, ToOK
  <2> QED BY <2>4, <2>5, <2>6 DEF Ind
<1> QED BY <1>2, <1>3

-------------------------------------------------------------------------------
(* The user edits the contacts; time passes *)

LEMMA EditInd == ASSUME Ind, NEW b \in Address, Edit(b) PROVE Ind'
<1>1. UNCHANGED <<policy, cache, job>> /\ gone' = [gone EXCEPT ![b] = IF @ = 0 THEN 1 ELSE 0]
  BY DEF Edit
<1>2. /\ gone' \in [Address -> Nat]
      /\ \A a \in Address : gone'[a] = gone[a] \/ gone'[a] \in {0, 1}
  BY <1>1 DEF Ind, Types
<1>3. Ttl \in Nat /\ Timeout \in Nat
  BY OutreachAssumption
<1>4. Limits' = Limits /\ Age' = Age /\ (Resolving' <=> Resolving)
  BY <1>1 DEF Limits, Age, Resolving
<1>5. Types'
  BY <1>1, <1>2 DEF Ind, Types
<1>6. CacheOK'
  <2> SUFFICES ASSUME NEW c \in Channel, NEW s \in Source, cache[c][s].has, NEW a \in cache[c][s].who
               PROVE  gone'[a] <= cache[c][s].age + Timeout + 1 /\ OfSource(a, s)
    BY <1>1 DEF CacheOK, Recent, OfSource
  <2>1. a \in Address /\ cache[c][s].age \in 0..Ttl
    BY DEF Ind, Types, EntryRec
  <2>2. gone[a] <= cache[c][s].age + Timeout + 1 /\ OfSource(a, s)
    BY DEF Ind, CacheOK, Recent
  <2> QED BY <1>2, <1>3, <2>1, <2>2
<1>7. job \in JobRec /\ job.query.age \in 0..Timeout /\ job.query.who \subseteq Address
      /\ job.known \subseteq Address
  BY DEF Ind, Types, JobRec, QueryRec
<1>8. QueryOK'
  <2>1. ASSUME job.query.at = "answered", NEW a \in job.query.who
        PROVE  gone'[a] <= job.query.age + 1 /\ OfSource(a, Limits.sources[job.next])
    <3>1. gone[a] <= job.query.age + 1 /\ OfSource(a, Limits.sources[job.next])
      BY <2>1 DEF Ind, QueryOK, Recent
    <3> QED BY <1>2, <1>3, <1>7, <3>1
  <2>2. (job.query.at = "none" <=> job.query = NoQuery) /\ (job.query # NoQuery => Resolving')
    BY <1>4 DEF Ind, QueryOK
  <2> QED BY <1>1, <1>4, <2>1, <2>2 DEF QueryOK, OfSource, Recent
<1>9. KnownOK'
  <2>1. ASSUME job.at = "resolving", NEW a \in job.known PROVE gone'[a] <= Age
    <3>1. gone[a] <= Age
      BY <2>1 DEF Ind, KnownOK, Recent
    <3>2. Age \in Nat /\ Age >= 1
      BY <1>3, <1>7 DEF Age
    <3> QED BY <1>2, <1>7, <3>1, <3>2
  <2> QED BY <1>1, <1>4, <2>1 DEF Ind, KnownOK, Recent
<1>10. ToOK'
  BY <1>1 DEF Ind, ToOK
<1> QED BY <1>5, <1>6, <1>8, <1>9, <1>10 DEF Ind

\* What is remembered ages as fast as the departures do; what an intent has learnt
\* ages only with its query.
LEMMA TickInd == ASSUME Ind, Tick PROVE Ind'
<1>1. Ttl \in Nat /\ Timeout \in Nat /\ policy' = policy /\ job \in JobRec
  BY OutreachAssumption DEF Tick, Ind, Types
<1>2. gone' \in [Address -> Nat] /\ \A a \in Address : gone'[a] = gone[a] \/ gone'[a] = gone[a] + 1
  BY DEF Tick, Ind, Types
<1>3. ASSUME NEW c \in Channel, NEW s \in Source
      PROVE  /\ cache'[c][s] \in EntryRec
             /\ cache'[c][s].has => /\ cache[c][s].has /\ cache'[c][s].who = cache[c][s].who
                                    /\ cache'[c][s].age = cache[c][s].age + 1
  <2>1. cache'[c][s] = IF cache[c][s].has /\ cache[c][s].age < Ttl THEN [cache[c][s] EXCEPT !.age = @ + 1]
                       ELSE NoEntry
    BY DEF Tick
  <2>2. cache[c][s] \in EntryRec
    BY DEF Ind, Types
  <2> DEFINE e == cache[c][s]
             f == cache'[c][s]
  <2>3. e \in EntryRec /\ f = IF e.has /\ e.age < Ttl THEN [e EXCEPT !.age = @ + 1] ELSE NoEntry
    BY <2>1, <2>2
  <2> HIDE DEF e, f
  <2>4. CASE e.has /\ e.age < Ttl
    <3> DEFINE n == e.age + 1
    <3>1. f = [e EXCEPT !.age = n] /\ n \in 0..Ttl
      BY <2>3, <2>4, <1>1 DEF EntryRec
    <3> HIDE DEF n
    <3>2. f \in EntryRec /\ f.age = n /\ f.who = e.who
      BY <2>3, <3>1 DEF EntryRec
    <3> QED BY <2>4, <3>2 DEF e, f, n
  <2>5. CASE ~(e.has /\ e.age < Ttl)
    <3>1. f = NoEntry /\ ~NoEntry.has /\ NoEntry \in EntryRec
      BY <2>3, <2>5, IdleTyped DEF NoEntry
    <3> QED BY <3>1 DEF f
  <2> QED BY <2>4, <2>5
<1>4. cache' \in [Channel -> [Source -> EntryRec]]
  <2>1. cache' = [c \in Channel |-> [s \in Source |-> cache'[c][s]]]
    BY DEF Tick
  <2> QED BY <1>3, <2>1
<1>5. CacheOK'
  <2> SUFFICES ASSUME NEW c \in Channel, NEW s \in Source, cache'[c][s].has, NEW a \in cache'[c][s].who
               PROVE  gone'[a] <= cache'[c][s].age + Timeout + 1 /\ OfSource(a, s)
    BY DEF CacheOK, Recent, OfSource
  <2>1. /\ cache[c][s].has /\ cache'[c][s].who = cache[c][s].who
        /\ cache'[c][s].age = cache[c][s].age + 1
    BY <1>3
  <2>2. a \in Address /\ cache[c][s].age \in Nat
    BY <2>1 DEF Ind, Types, EntryRec
  <2>3. gone[a] <= cache[c][s].age + Timeout + 1 /\ OfSource(a, s)
    BY <2>1 DEF Ind, CacheOK, Recent
  <2>4. gone[a] \in Nat
    BY <2>2 DEF Ind, Types
  <2> QED BY <1>1, <1>2, <2>1, <2>2, <2>3, <2>4
<1>6. CASE job.query = NoQuery
  <2>1. job' = job /\ job.at # "resolving" /\ UNCHANGED <<policy, job>>
    BY <1>1, <1>6 DEF Tick
  <2>2. job.query.at = "none"
    BY <1>6 DEF NoQuery
  <2>3. Types'
    BY <1>2, <1>4, <2>1 DEF Ind, Types
  <2>4. QueryOK' /\ KnownOK' /\ ToOK'
    BY <1>6, <2>1, <2>2 DEF Ind, QueryOK, KnownOK, ToOK, NoQuery
  <2> QED BY <1>5, <2>3, <2>4 DEF Ind
<1>7. CASE job.query # NoQuery
  <2> DEFINE n == job.query.age + 1
             q == [job.query EXCEPT !.age = n]
  <2>1. Resolving /\ job.at = "resolving" /\ job.query.age < Timeout /\ job.next \in 1..2
    BY <1>7, IndLimits DEF Ind, QueryOK, Resolving, Tick
  <2>2. job' = [job EXCEPT !.query.age = n]
    BY <1>7 DEF Tick
  <2>3. job.query \in QueryRec /\ n \in 0..Timeout /\ n = job.query.age + 1 /\ n # 0
    BY <1>1, <2>1 DEF JobRec, QueryRec
  <2> HIDE DEF n
  <2>4. job' = [job EXCEPT !.query = q]
    BY <1>1, <2>2, <2>3 DEF JobRec
  <2>5. q \in QueryRec /\ q.at = job.query.at /\ q.who = job.query.who /\ q.age = n /\ q # NoQuery
        /\ q.at # "none"
    BY <1>7, <2>3 DEF QueryRec, NoQuery, Ind, QueryOK
  <2> HIDE DEF q
  <2>6. /\ job' \in JobRec /\ job'.at = job.at /\ job'.op = job.op /\ job'.to = job.to
        /\ job'.of = job.of /\ job'.own = job.own /\ job'.known = job.known
        /\ job'.next = job.next /\ job'.query = q /\ job'.lawful = job.lawful
    BY <1>1, <2>4, <2>5 DEF JobRec
  <2>7. Limits' = Limits /\ Resolving'
    BY <1>1, <2>1, <2>6 DEF Limits, Resolving
  <2>8. Types' /\ ToOK'
    BY <1>1, <1>2, <1>4, <2>6 DEF Ind, Types, ToOK
  <2>9. QueryOK'
    <3>1. ASSUME q.at = "answered", NEW a \in q.who
          PROVE  gone'[a] <= q.age + 1 /\ OfSource(a, Limits.sources[job.next])
      <4>1. a \in Address /\ gone[a] \in Nat
        BY <2>5, <3>1 DEF QueryRec, Ind, Types
      <4>2. gone[a] <= job.query.age + 1 /\ OfSource(a, Limits.sources[job.next])
        BY <2>5, <3>1 DEF Ind, QueryOK, Recent
      <4>3. job.query.age \in Nat
        BY <1>1, <2>3 DEF QueryRec
      <4> QED BY <1>2, <2>3, <2>5, <4>1, <4>2, <4>3
    <3> QED BY <2>5, <2>6, <2>7, <3>1 DEF QueryOK, OfSource, Recent, NoQuery
  <2>10. KnownOK'
    <3>1. Age' = Age + 1 /\ Age \in Nat
      <4>1. job.query.age \in Nat /\ job'.query.age = job.query.age + 1
        BY <1>1, <2>3, <2>5, <2>6 DEF QueryRec
      <4> QED BY <1>1, <2>1, <2>6, <4>1 DEF Age
    <3>2. ASSUME NEW a \in job.known PROVE gone'[a] <= Age'
      <4>1. a \in Address /\ gone[a] \in Nat
        BY <1>1 DEF JobRec, Ind, Types
      <4>2. gone[a] <= Age
        BY <2>1 DEF Ind, KnownOK, Recent
      <4> QED BY <1>2, <3>1, <4>1, <4>2
    <3> QED BY <2>1, <2>6, <2>7, <3>2 DEF Ind, KnownOK, Recent
  <2> QED BY <1>5, <2>8, <2>9, <2>10 DEF Ind
<1> QED BY <1>6, <1>7

-------------------------------------------------------------------------------
LEMMA StepInd == Ind /\ [Next]_vars => Ind'
<1> SUFFICES ASSUME Ind, [Next]_vars PROVE Ind'
  OBVIOUS
<1>1. ASSUME NEW op \in Action, NEW to \in SUBSET Address, NEW of \in Message \cup {"none"},
             Ask(op, to, of)
      PROVE  Ind'
  BY <1>1, AskInd
<1>2. ASSUME FromCache \/ Query \/ ServerReads \/ Fetched \/ FetchFails \/ Enforce PROVE Ind'
  BY <1>2, FromCacheInd, QueryInd, ServerReadsInd, FetchedInd, FetchFailsInd, EnforceInd
<1>3. ASSUME NEW to, Writes(to) PROVE Ind'
  BY <1>3, IdleInd DEF Writes
<1>4. ASSUME \/ Denied \/ NoAccount \/ NotSent \/ NotFound
             \/ Send \/ Reply \/ Forward \/ Lists \/ GetEmail \/ Downloads \/ EditsMailbox
             \/ SendMessage \/ ScriptFails \/ ReadMessages
      PROVE  Ind'
  BY <1>3, <1>4 DEF Denied, NoAccount, NotSent, NotFound, Send, Reply, Forward, Lists, GetEmail,
     Downloads, EditsMailbox, SendMessage, ScriptFails, ReadMessages
<1>5. ASSUME NEW a \in Address, Edit(a) PROVE Ind'
  BY <1>5, EditInd
<1>6. ASSUME Tick PROVE Ind'
  BY <1>6, TickInd
<1>7. ASSUME UNCHANGED vars PROVE Ind'
  BY <1>7 DEF vars, Ind, Types, CacheOK, QueryOK, KnownOK, ToOK, Recent, Limits, Resolving, Age
<1> QED BY <1>1, <1>2, <1>4, <1>5, <1>6, <1>7 DEF Next

\* Cached contacts, answers and what an intent has learnt are of the permission's
\* sources, and no older than the cache and the queries allow.
THEOREM SpecInd == Spec => []Ind
<1>1. Init => Ind
  BY InitInd
<1>2. Ind /\ [Next]_vars => Ind'
  BY StepInd
<1> QED BY <1>1, <1>2, PTL DEF Spec

\* An adapter writes to the recipients the check covered, or to the sender of the
\* message it replies to, and to those that cc or reply_all adds.
LEMMA WritesLawful ==
  ASSUME Ind, job.at = "allowed",
         \/ Writes({})
         \/ job.to # {} /\ \E more \in SUBSET job.cc : Writes(job.to \cup more)
         \/ job.op = "reply" /\ Writes({Sender[job.of]} \cup (IF job.all THEN Others[job.of] ELSE {}))
  PROVE  sent' # {} /\ ~(job.op = "reply" /\ job.own) => sent' \subseteq job.lawful \cup Added
<1>1. CASE Writes({})
  BY <1>1 DEF Writes
<1>2. CASE \E more \in SUBSET job.cc : Writes(job.to \cup more)
  BY <1>2 DEF Writes, Ind, ToOK, Added
<1>3. CASE job.op = "reply" /\ Writes({Sender[job.of]} \cup (IF job.all THEN Others[job.of] ELSE {}))
  <2> DEFINE more == IF job.all THEN Others[job.of] ELSE {}
  <2>1. Sender[job.of] \in Address
    BY <1>3, OutreachAssumption DEF Ind, Types, OnMessage
  <2>2. ~job.own => job.to = {} \/ job.to = {Sender[job.of]}
    BY <1>3 DEF Ind, ToOK
  <2>3. more \subseteq Added
    BY DEF Added
  <2>4. sent' = {Sender[job.of]} \cup more
    BY <1>3 DEF Writes
  <2> HIDE DEF more
  <2> QED BY <1>3, <2>1, <2>2, <2>3, <2>4 DEF Ind, ToOK
<1> QED BY <1>1, <1>2, <1>3

\* Whoever a mail, reply or message is written to was covered by the permission when
\* it was checked, or left the contacts no longer ago than the cache and two queries
\* to the platform server last; except those whom cc or reply_all adds, and the sender
\* when a reply names its own recipients.
THEOREM RecipientsAreChecked == Spec => RecipientsChecked
<1>1. Ind /\ [Next]_vars =>
        [sent' # {} /\ ~(job.op = "reply" /\ job.own) => sent' \subseteq job.lawful \cup Added]_vars
  <2> SUFFICES ASSUME Ind, Next
               PROVE  sent' # {} /\ ~(job.op = "reply" /\ job.own) => sent' \subseteq job.lawful \cup Added
    OBVIOUS
  <2>1. ASSUME NEW op \in Action, NEW to \in SUBSET Address, NEW of \in Message \cup {"none"},
               Ask(op, to, of)
        PROVE  sent' = {}
    BY <2>1 DEF Ask
  <2>2. ASSUME FromCache \/ Query \/ ServerReads \/ Fetched \/ FetchFails \/ Enforce PROVE sent' = {}
    BY <2>2 DEF FromCache, Query, ServerReads, Fetched, FetchFails, Enforce
  <2>3. ASSUME \/ Denied \/ NoAccount \/ NotSent \/ NotFound
               \/ Send \/ Reply \/ Forward \/ Lists \/ GetEmail \/ Downloads \/ EditsMailbox
               \/ SendMessage \/ ScriptFails \/ ReadMessages
        PROVE  sent' # {} /\ ~(job.op = "reply" /\ job.own) => sent' \subseteq job.lawful \cup Added
    <3>1. job.at = "allowed"
      BY <2>3 DEF Denied, NoAccount, NotSent, NotFound, Send, Reply, Forward, Lists, GetEmail,
         Downloads, EditsMailbox, SendMessage, ScriptFails, ReadMessages, Cleared
    <3>2. \/ Writes({})
          \/ job.to # {} /\ \E more \in SUBSET job.cc : Writes(job.to \cup more)
          \/ job.op = "reply" /\ Writes({Sender[job.of]} \cup (IF job.all THEN Others[job.of] ELSE {}))
      <4>1. job.to \cup {} = job.to /\ {} \in SUBSET job.cc /\ job.cc \in SUBSET job.cc
        OBVIOUS
      <4> QED BY <2>3, <4>1 DEF Denied, NoAccount, NotSent, NotFound, Send, Reply, Forward, Lists, GetEmail,
         Downloads, EditsMailbox, SendMessage, ScriptFails, ReadMessages, Cleared
    <3> QED BY <3>1, <3>2, WritesLawful
  <2>4. ASSUME NEW a \in Address, Edit(a) PROVE sent' = {}
    BY <2>4 DEF Edit
  <2>5. ASSUME Tick PROVE sent' = {}
    BY <2>5 DEF Tick
  <2> QED BY <2>1, <2>2, <2>3, <2>4, <2>5 DEF Next
<1> QED BY <1>1, SpecInd, PTL DEF Spec, RecipientsChecked

\* The ages of the departures stop at the first that does not matter.
Bounded == gone \in [Address -> 0..(Stale + 2)] /\ sent \subseteq Address

LEMMA BoundedStep ==
  ASSUME Ind, Bounded, [Next]_vars
  PROVE  Bounded'
<1>0. Stale \in Nat /\ Ttl \in Nat /\ Timeout \in Nat
  BY OutreachAssumption DEF Stale
<1>1. ASSUME NEW op \in Action, NEW to \in SUBSET Address, NEW of \in Message \cup {"none"},
             Ask(op, to, of)
      PROVE  Bounded'
  BY <1>1 DEF Ask, Bounded, Stale
<1>2. ASSUME FromCache \/ Query \/ ServerReads \/ Fetched \/ FetchFails \/ Enforce PROVE Bounded'
  BY <1>2 DEF FromCache, Query, ServerReads, Fetched, FetchFails, Enforce, Bounded, Stale
<1>3. ASSUME NEW to \in SUBSET Address, Writes(to) PROVE Bounded'
  BY <1>3 DEF Writes, Bounded, Stale
<1>4. ASSUME \/ Denied \/ NoAccount \/ NotSent \/ NotFound
             \/ Send \/ Reply \/ Forward \/ Lists \/ GetEmail \/ Downloads \/ EditsMailbox
             \/ SendMessage \/ ScriptFails \/ ReadMessages
      PROVE  Bounded'
  <2> DEFINE all == {Sender[job.of]} \cup (IF job.all THEN Others[job.of] ELSE {})
  <2>1. /\ job.to \in SUBSET Address /\ job.to \cup job.cc \in SUBSET Address
        /\ job.op = "reply" => all \in SUBSET Address
    BY OutreachAssumption DEF Ind, Types, JobRec, OnMessage
  <2>2. Writes({}) \/ Writes(job.to) \/ Writes(job.to \cup job.cc) \/ (job.op = "reply" /\ Writes(all))
    BY <1>4 DEF Denied, NoAccount, NotSent, NotFound, Send, Reply, Forward, Lists, GetEmail,
       Downloads, EditsMailbox, SendMessage, ScriptFails, ReadMessages, Cleared
  <2> QED BY <1>3, <2>1, <2>2
<1>5. ASSUME NEW a \in Address, Edit(a) PROVE Bounded'
  <2>1. gone' = [gone EXCEPT ![a] = IF @ = 0 THEN 1 ELSE 0] /\ sent' = {}
    BY <1>5 DEF Edit
  <2>2. 0 \in 0..(Stale + 2) /\ 1 \in 0..(Stale + 2)
    BY <1>0
  <2> QED BY <2>1, <2>2 DEF Bounded, Stale
<1>6. ASSUME Tick PROVE Bounded'
  <2>1. /\ gone' = [b \in Address |-> IF gone[b] = 0 \/ gone[b] = Stale + 2 THEN gone[b] ELSE gone[b] + 1]
        /\ sent' = {}
    BY <1>6 DEF Tick
  <2> DEFINE n == Stale + 2
  <2>2. n \in Nat /\ n = Stale + 2
    BY <1>0
  <2>3. gone \in [Address -> 0..n]
    BY DEF Bounded
  <2> HIDE DEF n
  <2>4. gone' = [b \in Address |-> IF gone[b] = 0 \/ gone[b] = n THEN gone[b] ELSE gone[b] + 1]
    BY <2>1, <2>2
  <2>5. gone' \in [Address -> 0..n] /\ sent' \subseteq Address
    BY <2>1, <2>2, <2>3, <2>4
  <2> QED BY <2>2, <2>5 DEF Bounded, Stale
<1>7. ASSUME UNCHANGED vars PROVE Bounded'
  BY <1>7 DEF vars, Bounded, Stale
<1> QED BY <1>1, <1>2, <1>4, <1>5, <1>6, <1>7 DEF Next

\* What is known of contacts, a cache or a query is of its type, and no age passes
\* the cache's lifetime, the query's timeout or the bound that both give.
THEOREM OutreachTypeCorrect == Spec => []OutreachTypeOK
<1>1. Init => Bounded
  <2>1. Stale \in Nat
    BY OutreachAssumption DEF Stale
  <2>2. 0 \in 0..(Stale + 2)
    BY <2>1
  <2> QED BY <2>2 DEF Init, Bounded
<1>2. Ind /\ Bounded /\ [Next]_vars => Bounded'
  BY BoundedStep
<1>3. Ind /\ Bounded => OutreachTypeOK
  BY DEF Ind, Types, Bounded, OutreachTypeOK, EntryRec, QueryRec, JobRec
<1> QED BY <1>1, <1>2, <1>3, SpecInd, PTL DEF Spec

-------------------------------------------------------------------------------
(* Files.  What was checked of a path stays with its operation, so the      *)
(* floor and the mount hold whatever the links do; that nobody gives up     *)
(* waiting makes the lane one operation long, and with it what the guardian *)
(* was told and the rows of a file.                                         *)

Rows == Seq({0} \cup Op)
Somewhere == Place \cup {"none"}
Phase == {"new", "permitted", "reads", "opens", "puts", "unlinks", "over"}
OpRec == [fam : Family, act : Act, path : Place, phase : Phase, told : Somewhere, saw : Somewhere,
          at : Somewhere, buf : Rows, answer : {"none", "ok", "error", "blocked", "timeout"}]

FilesTypes ==
  /\ setup \in Setup /\ workspace \in {"absent", "ro", "rw"} /\ mount \in {"unset", "ro", "rw"}
  /\ link \in [Place -> Place] /\ text \in [Place -> Rows] /\ ops \in [Op -> OpRec]
  /\ lane \in {0} \cup Op /\ relinks \in Nat

\* A link leads to a name that is no link.
LinkOK(n) ==
  link[n] = n \/ (n \in {"docs/a", "docs/link"} /\ link[n] \in {"docs/hook", "docs2/s", "~/.ssh/k"})

\* What an operation knows at each of its steps.
Checked(o) == o.saw \in Place /\ (o.act \in Mutating => o.saw \notin Floor)
  /\ (o.fam = "vfs" => o.saw \in InMount \cup {"docs2/s"})
OpOK(o) ==
  /\ o.phase = "new" => o = NewOp
  /\ o.act = "append" => o.fam = "vfs"
  /\ o.phase \in {"reads", "opens", "puts", "unlinks"} => Checked(o)
  /\ o.phase = "reads" => o.act \in {"read", "list", "append"}
  /\ o.phase \in {"opens", "puts"} => o.act \in {"write", "append"}
  /\ o.phase = "unlinks" => o.act = "delete"
  /\ o.phase = "puts" => o.at \in Place
  /\ o.answer = "ok" => o.phase = "over"

\* The operations enter in their order, and one leaves before the next enters
\* unless it has been given up.
InProgress(i) == ops[i].phase \notin {"new", "over"}
OrderOK == \A i, j \in Op : j < i /\ ops[i].phase # "new" => ops[j].phase # "new"
LaneOK ==
  ~GaveUp => \A i \in Op : InProgress(i) => lane = i /\ \A k \in Op : k > i => ops[k].phase = "new"

\* What the guardian was told of the destination of a write.
TruthOK ==
  ~GaveUp /\ relinks = 0 =>
    \A i \in Op : ops[i].fam = "host" /\ ops[i].act = "write" =>
      /\ ops[i].phase = "permitted" => ops[i].told = link[ops[i].path]
      /\ ops[i].phase = "opens" => ops[i].told = ops[i].saw /\ link[ops[i].saw] = ops[i].saw
      /\ ops[i].phase = "puts" => ops[i].told = ops[i].at

\* A file is empty only while somebody is writing it, or after a write that failed, and
\* so no other read shows it empty.
Writing(o, n) == (o.phase = "puts" \/ Torn(o)) /\ o.at = n
ReadOK(i) ==
  ops[i].answer = "ok" /\ ops[i].act = "read" /\ ops[i].buf = <<>> => \E j \in Op : j < i /\ Torn(ops[j])
TextOK ==
  ~GaveUp =>
    /\ \A n \in Place : text[n] = <<>> => \E j \in Op : Writing(ops[j], n)
    /\ \A i \in Op : ReadOK(i)

HasRow(s, r) == \E k \in DOMAIN s : s[k] = r
\* What an append has read is what is there.
AppendOK(o) == o.phase = "opens" /\ o.act = "append" => o.buf = (IF Exists(Opened(o)) THEN text[Opened(o)] ELSE <<>>)
Later(i) == \E j \in Op : j > i /\ ops[j].act \in {"write", "delete"} /\ ops[j].phase # "new"
Carried(i) ==
  \E j \in Op : j > i /\ ops[j].phase = "puts" /\ ops[j].at = ops[i].at /\ HasRow(ops[j].buf, i)
Lost(i) == \E j \in Op : j > i /\ Torn(ops[j]) /\ ops[j].at = ops[i].at
\* A row is in its file, or with the append that is writing the file anew, or a write of
\* the file has failed since.
RowOK(i) ==
  ops[i].answer = "ok" /\ ops[i].act \in {"write", "append"} =>
    ops[i].at \in Place /\ (HasRow(text[ops[i].at], i) \/ Later(i) \/ Carried(i) \/ Lost(i))
RowsInd ==
  ~GaveUp /\ relinks = 0 =>
    \A i \in Op :
      /\ ops[i].phase = "puts" => text[ops[i].at] = <<>>
      /\ AppendOK(ops[i])
      /\ RowOK(i)

FilesInd ==
  /\ FilesTypes
  /\ \A n \in Place : LinkOK(n)
  /\ \A i \in Op : OpOK(ops[i])
  /\ OrderOK /\ LaneOK /\ TruthOK /\ TextOK /\ RowsInd


LEMMA OpNat == Op \subseteq Nat /\ 0 \notin Op /\ \A i \in Op : \A j \in Nat : 0 < j /\ j < i => j \in Op
<1>1. Cardinality(Op) \in Nat /\ Op = 1..Cardinality(Op)
  BY FilesAssumption, FS_CardinalityType
<1>2. QED
  BY <1>1

LEMMA NewTyped == NewOp \in OpRec
<1>1. <<>> \in Rows
  BY DEF Rows
<1>2. QED
  BY <1>1 DEF NewOp, OpRec, Family, Act, Place, Phase, Somewhere

LEMMA OpsStep ==
  ASSUME FilesTypes, NEW i \in Op, NEW r \in OpRec, ops' = [ops EXCEPT ![i] = r]
  PROVE  ops' \in [Op -> OpRec] /\ ops'[i] = r /\ \A j \in Op \ {i} : ops'[j] = ops[j]
BY DEF FilesTypes

\* While nobody has been given up, the operation in progress is alone: those before it
\* are over, and those after it have not begun.
LEMMA Alone ==
  ASSUME FilesInd, ~GaveUp, NEW i \in Op, InProgress(i), NEW j \in Op, j # i
  PROVE  \/ j < i /\ ops[j].phase = "over"
         \/ j > i /\ ops[j].phase = "new"
<1>1. i \in Nat /\ j \in Nat
  BY OpNat
<1>2. ~InProgress(j)
  BY DEF FilesInd, LaneOK
<1>3. CASE j > i
  BY <1>3 DEF FilesInd, LaneOK
<1>4. CASE j < i
  <2>1. ops[i].phase # "new"
    BY DEF InProgress
  <2>2. ops[j].phase # "new"
    BY <1>4, <2>1 DEF FilesInd, OrderOK
  <2>3. QED
    BY <1>2, <1>4, <2>2 DEF InProgress
<1>5. QED
  BY <1>1, <1>3, <1>4

\* What a step of the operation in progress leaves of the order, the lane and what is
\* known of each operation, when what it makes of its own record is right.
LEMMA ProgressStep ==
  ASSUME FilesInd, NEW i \in Op, InProgress(i), NEW r \in OpRec,
         ops' = [ops EXCEPT ![i] = r], UNCHANGED setup, OpOK(r), r.phase # "new",
         ops[i].answer = "timeout" => r.answer = "timeout",
         lane' = lane \/ (r.phase = "over" /\ lane' = IF lane = i THEN 0 ELSE lane)
  PROVE  /\ ops' \in [Op -> OpRec] /\ ops'[i] = r /\ \A j \in Op \ {i} : ops'[j] = ops[j]
         /\ lane' \in {0} \cup Op /\ (GaveUp => GaveUp')
         /\ \A j \in Op : OpOK(ops[j])'
         /\ OrderOK' /\ LaneOK'
<1>1. ops' \in [Op -> OpRec] /\ ops'[i] = r /\ \A j \in Op \ {i} : ops'[j] = ops[j]
  BY OpsStep DEF FilesInd
<1>2. lane' \in {0} \cup Op
  BY DEF FilesInd, FilesTypes
<1>3. GaveUp => GaveUp'
  BY <1>1 DEF GaveUp
<1>4. ASSUME NEW j \in Op PROVE OpOK(ops[j])'
  <2>1. OpOK(ops'[j])
    BY <1>1 DEF FilesInd
  <2>2. QED
    BY <2>1 DEF OpOK, Checked, Floor
<1>5. OrderOK'
  BY <1>1 DEF FilesInd, OrderOK, InProgress
<1>6. LaneOK'
  <2> SUFFICES ASSUME ~GaveUp', NEW j \in Op, InProgress(j)'
               PROVE  lane' = j /\ \A k \in Op : k > j => ops'[k].phase = "new"
    BY DEF LaneOK
  <2>1. ~GaveUp /\ lane = i
    BY <1>3 DEF FilesInd, LaneOK
  <2>2. j = i
    <3>1. SUFFICES ASSUME j # i PROVE FALSE
      OBVIOUS
    <3>2. InProgress(j)
      BY <1>1, <3>1 DEF InProgress
    <3>3. QED
      BY <2>1, <3>1, <3>2 DEF FilesInd, LaneOK
  <2>3. r.phase # "over"
    BY <1>1, <2>2 DEF InProgress
  <2>4. ASSUME NEW k \in Op, k > i PROVE ops'[k].phase = "new"
    BY <1>1, <2>1, <2>4, OpNat DEF FilesInd, LaneOK
  <2>5. QED
    BY <2>1, <2>2, <2>3, <2>4
<1>7. QED
  BY <1>1, <1>2, <1>3, <1>4, <1>5, <1>6

\* What the guardian was told, when it is right for the operation that moves.
LEMMA TruthStep ==
  ASSUME FilesInd, NEW i \in Op, InProgress(i), NEW r \in OpRec, ops' = [ops EXCEPT ![i] = r],
         GaveUp => GaveUp', UNCHANGED relinks,
         ~GaveUp /\ relinks = 0 /\ r.fam = "host" /\ r.act = "write" =>
           /\ r.phase # "permitted"
           /\ r.phase = "opens" => r.told = r.saw /\ link'[r.saw] = r.saw
           /\ r.phase = "puts" => r.told = r.at
  PROVE  TruthOK'
<1>1. ops'[i] = r /\ \A j \in Op \ {i} : ops'[j] = ops[j]
  BY OpsStep DEF FilesInd
<1> SUFFICES ASSUME ~GaveUp', relinks' = 0, NEW j \in Op, ops'[j].fam = "host", ops'[j].act = "write"
             PROVE  /\ ops'[j].phase = "permitted" => ops'[j].told = link'[ops'[j].path]
                    /\ ops'[j].phase = "opens" => ops'[j].told = ops'[j].saw /\ link'[ops'[j].saw] = ops'[j].saw
                    /\ ops'[j].phase = "puts" => ops'[j].told = ops'[j].at
  BY DEF TruthOK
<1>2. CASE j = i
  BY <1>1, <1>2
<1>3. CASE j # i
  <2>1. ops[j].phase \in {"new", "over"}
    BY <1>3, Alone
  <2>2. QED
    BY <1>1, <1>3, <2>1
<1>4. QED
  BY <1>2, <1>3

\* The rows, when those that were reported stay in their files or with the operation
\* that moves.
LEMMA RowsStep ==
  ASSUME FilesInd, NEW i \in Op, InProgress(i), NEW r \in OpRec, ops' = [ops EXCEPT ![i] = r],
         GaveUp => GaveUp', UNCHANGED relinks, r.phase # "new", r.act = ops[i].act,
         ~GaveUp /\ relinks = 0 =>
           /\ r.phase = "puts" => text'[r.at] = <<>>
           /\ AppendOK(r)'
           /\ r.answer = "ok" /\ r.act \in {"write", "append"} => r.at \in Place /\ HasRow(text'[r.at], i)
           /\ \A k \in Op :
                k < i /\ ops[k].answer = "ok" /\ ops[k].at \in Place /\ r.act \notin {"write", "delete"}
                  /\ (HasRow(text[ops[k].at], k) \/ (ops[i].phase = "puts" /\ ops[i].at = ops[k].at /\ HasRow(ops[i].buf, k)))
                => \/ HasRow(text'[ops[k].at], k)
                   \/ r.phase = "puts" /\ r.at = ops[k].at /\ HasRow(r.buf, k)
                   \/ Torn(r) /\ r.at = ops[k].at
  PROVE  RowsInd'
<1>1. ops'[i] = r /\ \A j \in Op \ {i} : ops'[j] = ops[j]
  BY OpsStep DEF FilesInd
<1> SUFFICES ASSUME ~GaveUp', relinks' = 0, NEW k \in Op
             PROVE  /\ ops'[k].phase = "puts" => text'[ops'[k].at] = <<>>
                    /\ AppendOK(ops[k])'
                    /\ RowOK(k)'
  BY DEF RowsInd
<1>2. ~GaveUp /\ relinks = 0
  OBVIOUS
<1>3. CASE k = i
  <2>1. AppendOK(ops[k])'
    BY <1>1, <1>2, <1>3 DEF AppendOK
  <2>2. RowOK(k)'
    BY <1>1, <1>2, <1>3 DEF RowOK
  <2>3. QED
    BY <1>1, <1>2, <1>3, <2>1, <2>2
<1>4. CASE k # i
  <2>1. \/ k < i /\ ops[k].phase = "over"
        \/ k > i /\ ops[k].phase = "new"
    BY <1>2, <1>4, Alone
  <2>2. ops'[k] = ops[k]
    BY <1>1, <1>4
  <2>3. AppendOK(ops[k])'
    BY <2>1, <2>2 DEF AppendOK
  <2>4. RowOK(k)'
    <3> SUFFICES ASSUME ops[k].answer = "ok", ops[k].act \in {"write", "append"}
                 PROVE  ops[k].at \in Place /\ (HasRow(text'[ops[k].at], k) \/ Later(k)' \/ Carried(k)' \/ Lost(k)')
      BY <2>2 DEF RowOK
    <3>1. k < i
      BY <2>1 DEF FilesInd, OpOK
    <3>2. ops[k].at \in Place /\ (HasRow(text[ops[k].at], k) \/ Later(k) \/ Carried(k) \/ Lost(k))
      BY <1>2 DEF FilesInd, RowsInd, RowOK
    <3>3. CASE Later(k)
      BY <1>1, <3>2, <3>3 DEF Later
    <3>8. CASE Lost(k)
      BY <1>1, <2>2, <3>2, <3>8 DEF Lost, Torn, InProgress
    <3>4. CASE r.act \in {"write", "delete"}
      BY <1>1, <3>1, <3>2, <3>4, OpNat DEF Later
    <3>5. Carried(k) => ops[i].phase = "puts" /\ ops[i].at = ops[k].at /\ HasRow(ops[i].buf, k)
      <4>1. ASSUME NEW j \in Op, ops[j].phase = "puts" PROVE j = i
        BY <1>2, <4>1, Alone
      <4>2. QED
        BY <4>1 DEF Carried
    <3>6. CASE r.act \notin {"write", "delete"} /\ ~Later(k) /\ ~Lost(k)
      <4>1. \/ HasRow(text'[ops[k].at], k)
            \/ r.phase = "puts" /\ r.at = ops[k].at /\ HasRow(r.buf, k)
            \/ Torn(r) /\ r.at = ops[k].at
        BY <1>2, <3>1, <3>2, <3>5, <3>6
      <4>2. QED
        BY <1>1, <2>2, <3>1, <3>2, <4>1, OpNat DEF Carried, Lost
    <3>7. QED
      BY <3>2, <3>3, <3>4, <3>6, <3>8
  <2>5. QED
    BY <2>1, <2>2, <2>3, <2>4
<1>5. QED
  BY <1>3, <1>4


\* The files that are empty and the reads that have shown them so, when the operation
\* that moves leaves no other file empty.
LEMMA TextStep ==
  ASSUME FilesInd, NEW i \in Op, InProgress(i), NEW r \in OpRec, ops' = [ops EXCEPT ![i] = r],
         GaveUp => GaveUp',
         ~GaveUp => \A m \in Place :
           text'[m] = <<>> => Writing(r, m) \/ (text[m] = <<>> /\ ~Writing(ops[i], m)),
         ~GaveUp /\ r.answer = "ok" /\ r.act = "read" /\ r.buf = <<>> => \E j \in Op : j < i /\ Torn(ops[j])
  PROVE  TextOK'
<1>1. ops'[i] = r /\ \A j \in Op \ {i} : ops'[j] = ops[j]
  BY OpsStep DEF FilesInd
<1>2. ~Torn(ops[i])
  BY DEF Torn, InProgress
<1> SUFFICES ASSUME ~GaveUp'
             PROVE  /\ \A m \in Place : text'[m] = <<>> => \E j \in Op : Writing(ops'[j], m)
                    /\ \A k \in Op : ReadOK(k)'
  BY DEF TextOK, Writing, Torn
<1>3. ASSUME NEW m \in Place, text'[m] = <<>>
      PROVE  \E j \in Op : Writing(ops'[j], m)
  <2>1. CASE Writing(r, m)
    BY <1>1, <2>1
  <2>2. CASE text[m] = <<>> /\ ~Writing(ops[i], m)
    <3>1. PICK j \in Op : Writing(ops[j], m)
      BY <2>2 DEF FilesInd, TextOK
    <3>2. QED
      BY <1>1, <2>2, <3>1
  <2>3. QED
    BY <1>3, <2>1, <2>2
<1>4. ASSUME NEW k \in Op, ops'[k].answer = "ok", ops'[k].act = "read", ops'[k].buf = <<>>
      PROVE  \E j \in Op : j < k /\ Torn(ops'[j])
  <2>1. \E j \in Op : j < k /\ Torn(ops[j])
    <3>1. CASE k = i
      BY <1>1, <1>4, <3>1
    <3>2. CASE k # i
      BY <1>1, <1>4, <3>2 DEF FilesInd, TextOK, ReadOK
    <3>3. QED
      BY <3>1, <3>2
  <2>2. QED
    BY <1>1, <1>2, <2>1
<1>5. QED
  BY <1>3, <1>4 DEF ReadOK, Torn


\* A row that is written at the end of a file is in it, with those that were there.
LEMMA AddRow ==
  ASSUME NEW s \in Rows, NEW i \in Op
  PROVE  /\ s \o <<i>> \in Rows /\ s \o <<i>> # <<>> /\ HasRow(s \o <<i>>, i)
         /\ \A k \in Op : HasRow(s, k) => HasRow(s \o <<i>>, k)
<1> DEFINE t == s \o <<i>>
<1>1. t \in Rows /\ Len(t) = Len(s) + 1 /\ t[Len(t)] = i /\ \A k \in 1..Len(s) : t[k] = s[k]
  BY DEF Rows
<1>2. Len(s) \in Nat /\ DOMAIN s = 1..Len(s) /\ DOMAIN t = 1..Len(t)
  BY <1>1 DEF Rows
<1> HIDE DEF t
<1>3. t # <<>> /\ HasRow(t, i)
  BY <1>1, <1>2 DEF HasRow
<1>4. \A k \in Op : HasRow(s, k) => HasRow(t, k)
  BY <1>1, <1>2 DEF HasRow
<1>5. QED
  BY <1>1, <1>3, <1>4 DEF t

\* The gates: an operation enters when the lane is free, which it is only when the
\* operations before it are over or have been given up.
LEMMA GuardInd == ASSUME FilesInd, NEW i \in Op, Guard(i) PROVE FilesInd'
<1>1. ops[i] = NewOp /\ lane = 0 /\ UNCHANGED <<setup, workspace, mount, link, text, relinks>>
  BY DEF Guard, Turn, FilesInd, OpOK, place, store
<1>2. \A j \in Op : j < i => ops[j].phase # "new"
  BY OpNat DEF Guard, Turn
<1>3. PICK f \in Family, a \in Act, p \in Place, told \in Somewhere, fate \in {"permitted", "over"} :
        LET r == IF fate = "over" THEN [NewOp EXCEPT !.phase = "over", !.answer = "blocked"]
                 ELSE [[ops[i] EXCEPT !.fam = f, !.act = a, !.path = p] EXCEPT !.phase = "permitted", !.told = told]
        IN  /\ ops' = [ops EXCEPT ![i] = r] /\ (f = "host" => a # "append")
            /\ lane' = (IF fate = "over" THEN 0 ELSE i)
            /\ fate = "permitted" /\ f = "host" /\ a = "write" => told = link[p]
  <2>1. PICK f \in Family, a \in Act, p \in Place :
          /\ Offered(f, a, p)
          /\ LET o == [ops[i] EXCEPT !.fam = f, !.act = a, !.path = p]
                 know == IF a \in {"write", "append"} THEN DestinationIntel(o) ELSE "none"
             IN IF Permitted(o)
                THEN ops' = [ops EXCEPT ![i] = [o EXCEPT !.phase = "permitted", !.told = know]] /\ lane' = i
                ELSE ops' = [ops EXCEPT ![i] = [NewOp EXCEPT !.phase = "over", !.answer = "blocked"]] /\ UNCHANGED lane
    BY DEF Guard
  <2> DEFINE o == [ops[i] EXCEPT !.fam = f, !.act = a, !.path = p]
             know == IF a \in {"write", "append"} THEN DestinationIntel(o) ELSE "none"
  <2>2. o.fam = f /\ o.path = p
    BY <1>1 DEF NewOp
  <2>3. link[p] \in Place
    BY DEF FilesInd, FilesTypes
  <2>4. know \in Somewhere /\ (f = "host" /\ a = "write" => know = link[p])
    BY <2>2, <2>3 DEF DestinationIntel, Canonical, Somewhere
  <2>5. f = "host" => a # "append"
    BY <2>1 DEF Offered
  <2> HIDE DEF know
  <2>6. CASE Permitted(o)
    <3>1. ops' = [ops EXCEPT ![i] = [o EXCEPT !.phase = "permitted", !.told = know]] /\ lane' = i
      BY <2>1, <2>6 DEF know
    <3> USE <2>4
    <3> WITNESS f \in Family, a \in Act, p \in Place, know \in Somewhere, "permitted" \in {"permitted", "over"}
    <3> QED BY <2>4, <2>5, <3>1
  <2>7. CASE ~Permitted(o)
    <3>1. ops' = [ops EXCEPT ![i] = [NewOp EXCEPT !.phase = "over", !.answer = "blocked"]] /\ lane' = 0
      BY <1>1, <2>1, <2>7
    <3> USE <2>4
    <3> WITNESS f \in Family, a \in Act, p \in Place, know \in Somewhere, "over" \in {"permitted", "over"}
    <3> QED BY <2>5, <3>1
  <2>8. QED
    BY <2>6, <2>7
<1> DEFINE r == IF fate = "over" THEN [NewOp EXCEPT !.phase = "over", !.answer = "blocked"]
                ELSE [[ops[i] EXCEPT !.fam = f, !.act = a, !.path = p] EXCEPT !.phase = "permitted", !.told = told]
<1>4. /\ r \in OpRec /\ r.phase = fate
      /\ fate = "over" => r.act = "read" /\ r.answer = "blocked" /\ r.fam = "vfs"
      /\ fate = "permitted" => r.fam = f /\ r.act = a /\ r.path = p /\ r.told = told /\ r.answer = "none"
  BY <1>1, NewTyped DEF OpRec, NewOp, Phase
<1>5. ops' = [ops EXCEPT ![i] = r] /\ lane' = (IF fate = "over" THEN 0 ELSE i)
  BY <1>3
<1> HIDE DEF r
<1>6. ops' \in [Op -> OpRec] /\ ops'[i] = r /\ \A j \in Op \ {i} : ops'[j] = ops[j]
  BY <1>4, <1>5, OpsStep DEF FilesInd
<1>7. FilesTypes' /\ \A n \in Place : LinkOK(n)'
  BY <1>1, <1>5, <1>6 DEF FilesInd, FilesTypes, LinkOK
<1>8. ASSUME NEW j \in Op PROVE OpOK(ops[j])'
  <2>1. a = "append" => f = "vfs"
    BY <1>3 DEF Family
  <2>2. OpOK(r)
    BY <1>4, <2>1 DEF OpOK
  <2>3. OpOK(ops'[j])
    BY <1>6, <2>2 DEF FilesInd
  <2>4. QED
    BY <1>1, <2>3 DEF OpOK, Checked, Floor
<1>9. OrderOK'
  BY <1>2, <1>4, <1>6 DEF FilesInd, OrderOK
<1>10. GaveUp => GaveUp'
  <2>1. ASSUME NEW j \in Op, ops[j].answer = "timeout" PROVE ops'[j].answer = "timeout"
    BY <1>1, <1>6, <2>1 DEF NewOp
  <2>2. QED
    BY <2>1 DEF GaveUp
<1>11. ~GaveUp => \A j \in Op : ops[j].phase \in {"new", "over"}
  BY <1>1, OpNat DEF FilesInd, LaneOK, InProgress
<1>12. LaneOK'
  <2> SUFFICES ASSUME ~GaveUp', NEW j \in Op, InProgress(j)'
               PROVE  lane' = j /\ \A k \in Op : k > j => ops'[k].phase = "new"
    BY DEF LaneOK
  <2>1. j = i /\ fate = "permitted"
    BY <1>4, <1>6, <1>10, <1>11 DEF InProgress
  <2>2. ASSUME NEW k \in Op, k > i PROVE ops[k].phase = "new"
    BY <1>1, <2>2, OpNat DEF FilesInd, OrderOK, NewOp
  <2>3. QED
    BY <1>5, <1>6, <2>1, <2>2, OpNat
<1>13. TruthOK'
  <2> SUFFICES ASSUME ~GaveUp', NEW j \in Op, ops'[j].fam = "host", ops'[j].act = "write"
               PROVE  /\ ops'[j].phase = "permitted" => ops'[j].told = link'[ops'[j].path]
                      /\ ops'[j].phase \notin {"opens", "puts"}
    BY DEF TruthOK
  <2>1. CASE j = i
    BY <1>1, <1>3, <1>4, <1>6, <2>1
  <2>2. CASE j # i
    BY <1>6, <1>10, <1>11, <2>2
  <2>3. QED
    BY <2>1, <2>2
<1>14. TextOK'
  <2> SUFFICES ASSUME ~GaveUp'
               PROVE  /\ \A n \in Place : text[n] = <<>> => \E j \in Op : Writing(ops'[j], n)
                      /\ \A k \in Op : ReadOK(k)'
    BY <1>1 DEF TextOK, Writing, Torn
  <2>1. ~GaveUp /\ ~Torn(ops[i]) /\ \A n \in Place : ~Writing(ops[i], n)
    BY <1>1, <1>10 DEF Writing, Torn, NewOp
  <2>2. ASSUME NEW n \in Place, text[n] = <<>> PROVE \E j \in Op : Writing(ops'[j], n)
    <3>1. PICK j \in Op : Writing(ops[j], n)
      BY <2>1, <2>2 DEF FilesInd, TextOK
    <3>2. QED
      BY <1>6, <2>1, <3>1
  <2>3. ASSUME NEW k \in Op, ops'[k].answer = "ok", ops'[k].act = "read", ops'[k].buf = <<>>
        PROVE  \E j \in Op : j < k /\ Torn(ops'[j])
    <3>1. k # i
      BY <1>4, <1>6, <2>3
    <3>2. \E j \in Op : j < k /\ Torn(ops[j])
      BY <1>6, <2>1, <2>3, <3>1 DEF FilesInd, TextOK, ReadOK
    <3>3. QED
      BY <1>6, <2>1, <3>2
  <2>4. QED
    BY <2>2, <2>3 DEF ReadOK, Torn
<1>15. RowsInd'
  <2> SUFFICES ASSUME ~GaveUp', relinks' = 0, NEW j \in Op
               PROVE  ops'[j].phase # "puts" /\ AppendOK(ops[j])' /\ RowOK(j)'
    BY DEF RowsInd
  <2>1. ~GaveUp /\ relinks = 0
    BY <1>1, <1>10
  <2>2. ops'[j].phase \notin {"opens", "puts"}
    BY <1>4, <1>6, <1>11, <2>1
  <2>3. RowOK(j)'
    <3> SUFFICES ASSUME ops'[j].answer = "ok", ops'[j].act \in {"write", "append"}
                 PROVE  ops'[j].at \in Place /\ (HasRow(text'[ops'[j].at], j) \/ Later(j)' \/ Carried(j)' \/ Lost(j)')
      BY DEF RowOK
    <3>1. ops'[j] = ops[j]
      BY <1>4, <1>6
    <3>2. ops[j].at \in Place /\ (HasRow(text[ops[j].at], j) \/ Later(j) \/ Carried(j) \/ Lost(j))
      BY <2>1, <3>1 DEF FilesInd, RowsInd, RowOK
    <3>3. ~Carried(j)
      BY <1>11, <2>1 DEF Carried
    <3>4. Later(j) => Later(j)'
      BY <1>1, <1>6 DEF Later, NewOp
    <3>6. Lost(j) => Lost(j)'
      BY <1>1, <1>6, <3>1 DEF Lost, Torn, NewOp
    <3>5. QED
      BY <1>1, <3>1, <3>2, <3>3, <3>4, <3>6
  <2>4. QED
    BY <2>2, <2>3 DEF AppendOK
<1>16. QED
  BY <1>7, <1>8, <1>9, <1>12, <1>13, <1>14, <1>15 DEF FilesInd


\* The check, which fixes where the path leads.
LEMMA CheckInd == ASSUME FilesInd, NEW i \in Op, Check(i) PROVE FilesInd'
<1> DEFINE saw == link[ops[i].path]
           o == [ops[i] EXCEPT !.saw = saw]
<1>1. /\ ops[i] \in OpRec /\ ops[i].phase = "permitted" /\ saw \in Place /\ link[saw] = saw
      /\ UNCHANGED <<setup, workspace, mount, link, text, relinks>>
  <2>1. ops[i] \in OpRec /\ ops[i].phase = "permitted" /\ UNCHANGED <<setup, workspace, mount, link, text, relinks>>
    BY DEF Check, FilesInd, FilesTypes, place, store
  <2>2. ops[i].path \in Place /\ link \in [Place -> Place]
    BY <2>1 DEF OpRec, FilesInd, FilesTypes
  <2>3. \A n \in Place : link[link[n]] = link[n]
    BY <2>2 DEF FilesInd, LinkOK, Place
  <2>4. QED
    BY <2>1, <2>2, <2>3
<1>2. InProgress(i)
  BY <1>1 DEF InProgress
<1>3. /\ o \in OpRec /\ o.saw = saw /\ o.fam = ops[i].fam /\ o.act = ops[i].act /\ o.told = ops[i].told
      /\ o.path = ops[i].path /\ o.answer = ops[i].answer /\ o.phase = "permitted" /\ o.buf = ops[i].buf
      /\ o.at = ops[i].at
  BY <1>1 DEF OpRec, Somewhere
<1>4. IF OffFloor(o) /\ InScope(o) THEN Step(i, o, FirstStep(o.act)) ELSE Return(i, o, "error")
  BY DEF Check, Canonical
<1> HIDE DEF saw, o
<1>5. PICK r \in OpRec :
        /\ ops' = [ops EXCEPT ![i] = r] /\ OpOK(r)
        /\ \/ lane' = lane /\ r.fam = o.fam /\ r.told = o.told /\ r.saw = saw /\ r.buf = o.buf
              /\ r.phase \in {"reads", "opens", "unlinks"} /\ (r.act = "append" => r.phase = "reads") /\ r.answer # "ok"
           \/ lane' = (IF lane = i THEN 0 ELSE lane) /\ r.phase = "over" /\ r.answer # "ok" /\ r.fam = "vfs"
        /\ o.answer = "timeout" => r.answer = "timeout"
        /\ r.act = o.act
  <2>0. o.answer # "ok" /\ (o.act = "append" => o.fam = "vfs")
    BY <1>1, <1>3 DEF FilesInd, OpOK
  <2>1. CASE OffFloor(o) /\ InScope(o)
    <3> DEFINE r == [o EXCEPT !.phase = FirstStep(o.act)]
    <3>1. FirstStep(o.act) \in {"reads", "opens", "unlinks"} /\ (FirstStep(o.act) = "opens" => o.act = "write")
          /\ (FirstStep(o.act) = "unlinks" => o.act = "delete")
          /\ (FirstStep(o.act) = "reads" => o.act \in {"read", "list", "append"})
      BY <1>3 DEF FirstStep, OpRec, Act
    <3>2. r \in OpRec /\ r.phase = FirstStep(o.act) /\ r.fam = o.fam /\ r.told = o.told /\ r.saw = saw
          /\ r.act = o.act /\ r.buf = o.buf /\ r.answer = o.answer
      BY <1>3, <3>1 DEF OpRec, Phase
    <3>3. (o.act \in Mutating => saw \notin Floor) /\ (o.fam = "vfs" => saw \in InMount \cup {"docs2/s"})
      <4>1. Canonical(o.path) = saw
        BY <1>3 DEF Canonical, saw
      <4>2. QED
        BY <2>1, <4>1 DEF OffFloor, InScope, WithinMount
    <3>4. ops' = [ops EXCEPT ![i] = r] /\ lane' = lane
      BY <1>4, <2>1 DEF Step
    <3> HIDE DEF r
    <3>5. OpOK(r)
      BY <1>1, <2>0, <3>1, <3>2, <3>3 DEF OpOK, Checked
    <3>6. QED
      BY <2>0, <3>1, <3>2, <3>4, <3>5
  <2>2. CASE ~(OffFloor(o) /\ InScope(o))
    <3> DEFINE r == [NewOp EXCEPT !.phase = "over", !.act = o.act, !.at = o.at,
                       !.buf = IF o.act = "read" THEN o.buf ELSE <<>>,
                       !.answer = IF o.answer = "timeout" THEN o.answer ELSE "error"]
    <3>1. ops' = [ops EXCEPT ![i] = r] /\ lane' = (IF lane = i THEN 0 ELSE lane)
      BY <1>4, <2>2 DEF Return
    <3>2. r \in OpRec /\ r.phase = "over" /\ r.act = o.act /\ r.fam = "vfs"
          /\ r.answer \in {"error", "timeout"} /\ (o.answer = "timeout" => r.answer = "timeout")
      BY <1>3, NewTyped DEF NewOp, OpRec, Phase
    <3> HIDE DEF r
    <3>3. OpOK(r)
      BY <3>2 DEF OpOK
    <3>4. QED
      BY <3>1, <3>2, <3>3
  <2>3. QED
    BY <2>1, <2>2
<1>6. r.phase # "new" /\ (ops[i].answer = "timeout" => r.answer = "timeout") /\ r.act = ops[i].act
  BY <1>3, <1>5
<1>7. /\ ops' \in [Op -> OpRec] /\ ops'[i] = r /\ \A j \in Op \ {i} : ops'[j] = ops[j]
      /\ lane' \in {0} \cup Op /\ (GaveUp => GaveUp')
      /\ \A j \in Op : OpOK(ops[j])'
      /\ OrderOK' /\ LaneOK'
  BY <1>1, <1>2, <1>5, <1>6, ProgressStep
<1>8. FilesTypes' /\ \A n \in Place : LinkOK(n)'
  BY <1>1, <1>7 DEF FilesInd, FilesTypes, LinkOK
<1>9. TruthOK'
  <2>1. ~GaveUp /\ relinks = 0 /\ r.fam = "host" /\ r.act = "write" =>
           r.phase # "permitted" /\ r.told = r.saw /\ link'[r.saw] = r.saw /\ r.phase # "puts"
    <3> SUFFICES ASSUME ~GaveUp, relinks = 0, r.fam = "host", r.act = "write"
                 PROVE  r.phase # "permitted" /\ r.told = r.saw /\ link'[r.saw] = r.saw /\ r.phase # "puts"
      OBVIOUS
    <3>1. ops[i].fam = "host" /\ ops[i].act = "write" /\ r.told = ops[i].told /\ r.saw = saw
      BY <1>3, <1>5
    <3>2. ops[i].told = saw
      BY <1>1, <3>1 DEF FilesInd, TruthOK, saw
    <3>3. QED
      BY <1>1, <1>5, <3>1, <3>2
  <2>2. QED
    BY <1>1, <1>2, <1>5, <1>7, <2>1, TruthStep
<1>10. TextOK'
  <2>1. ~(r.answer = "ok") /\ ~Writing(ops[i], r.at) /\ \A m \in Place : ~Writing(ops[i], m)
    BY <1>1, <1>5 DEF Writing, Torn
  <2>2. QED
    BY <1>1, <1>2, <1>5, <1>7, <2>1, TextStep
<1>11. RowsInd'
  <2>1. ~GaveUp /\ relinks = 0 =>
           /\ r.phase # "puts" /\ AppendOK(r)' /\ r.answer # "ok"
           /\ ops[i].phase # "puts" /\ text' = text
    BY <1>1, <1>5 DEF AppendOK
  <2>2. QED
    BY <1>1, <1>2, <1>5, <1>6, <1>7, <2>1, RowsStep
<1>12. QED
  BY <1>7, <1>8, <1>9, <1>10, <1>11 DEF FilesInd


\* The record of an operation whose thread returns.
LEMMA ReturnStep ==
  ASSUME FilesInd, NEW i \in Op, InProgress(i), NEW o \in OpRec, o.answer = ops[i].answer,
         NEW answer \in {"ok", "error"}, Return(i, o, answer)
  PROVE  \E r \in OpRec :
           /\ ops' = [ops EXCEPT ![i] = r] /\ OpOK(r) /\ lane' = (IF lane = i THEN 0 ELSE lane)
           /\ r.phase = "over" /\ r.act = o.act /\ r.at = o.at /\ r.fam = "vfs"
           /\ r.act = "read" => r.buf = o.buf
           /\ r.answer = (IF ops[i].answer = "timeout" THEN "timeout" ELSE answer)
<1> DEFINE r == [NewOp EXCEPT !.phase = "over", !.act = o.act, !.at = o.at,
                   !.buf = IF o.act = "read" THEN o.buf ELSE <<>>,
                   !.answer = IF o.answer = "timeout" THEN o.answer ELSE answer]
<1>1. ops' = [ops EXCEPT ![i] = r] /\ lane' = (IF lane = i THEN 0 ELSE lane)
  BY DEF Return
<1>2. /\ r \in OpRec /\ r.phase = "over" /\ r.act = o.act /\ r.at = o.at /\ r.fam = "vfs"
      /\ r.act = "read" => r.buf = o.buf
      /\ r.answer = (IF ops[i].answer = "timeout" THEN "timeout" ELSE answer)
  BY ZenonT(30), NewTyped DEF NewOp, OpRec, Phase
<1> HIDE DEF r
<1>3. OpOK(r)
  BY <1>2 DEF OpOK
<1>4. QED
  BY <1>1, <1>2, <1>3

LEMMA ReadsInd == ASSUME FilesInd, NEW i \in Op, Reads(i) PROVE FilesInd'
<1> DEFINE n == Opened(ops[i])
<1>1. ops[i] \in OpRec /\ ops[i].phase = "reads" /\ UNCHANGED <<setup, workspace, mount, link, text, relinks>>
  BY DEF Reads, FilesInd, FilesTypes, place, store
<1>2. InProgress(i) /\ OpOK(ops[i])
  BY <1>1 DEF InProgress, FilesInd
<1>3. n \in Place /\ text[n] \in Rows /\ <<>> \in Rows
  BY <1>1, <1>2 DEF Opened, OpRec, OpOK, Checked, FilesInd, FilesTypes, Rows
<1>4. \/ ops[i].act = "append" /\ Step(i, [ops[i] EXCEPT !.buf = IF Exists(n) THEN text[n] ELSE <<>>], "opens")
      \/ ops[i].act = "list" /\ Return(i, ops[i], ListAnswer(ops[i]))
      \/ ops[i].act = "read" /\ Return(i, [ops[i] EXCEPT !.buf = IF Exists(n) THEN text[n] ELSE ops[i].buf], ReadAnswer(n))
      \/ Return(i, ops[i], "error")
  BY <1>1 DEF Reads, OpRec
<1>5. PICK r \in OpRec :
        /\ ops' = [ops EXCEPT ![i] = r] /\ OpOK(r) /\ r.act = ops[i].act
        /\ ops[i].answer = "timeout" => r.answer = "timeout"
        /\ \/ /\ r.act = "append" /\ r.phase = "opens" /\ lane' = lane /\ r.answer # "ok" /\ r.fam = ops[i].fam
              /\ r.buf = (IF Exists(n) THEN text[n] ELSE <<>>) /\ r.path = ops[i].path /\ r.saw = ops[i].saw
           \/ /\ r.phase = "over" /\ lane' = (IF lane = i THEN 0 ELSE lane) /\ r.fam = "vfs"
              /\ r.act \in {"read", "list", "append"} /\ (r.act = "append" => r.answer # "ok")
              /\ r.act = "read" /\ r.answer = "ok" => r.buf = text[n]
  <2>1. CASE ops[i].act = "append" /\ Step(i, [ops[i] EXCEPT !.buf = IF Exists(n) THEN text[n] ELSE <<>>], "opens")
    <3> DEFINE b == IF Exists(n) THEN text[n] ELSE <<>>
               r == [[ops[i] EXCEPT !.buf = b] EXCEPT !.phase = "opens"]
    <3>1. ops' = [ops EXCEPT ![i] = r] /\ lane' = lane
      BY <2>1 DEF Step
    <3>2. b \in Rows
      BY <1>3
    <3> HIDE DEF b
    <3>3. r \in OpRec /\ r.act = "append" /\ r.phase = "opens" /\ r.buf = b /\ r.path = ops[i].path
          /\ r.saw = ops[i].saw /\ r.answer = ops[i].answer /\ r.fam = ops[i].fam
      BY <1>1, <2>1, <3>2 DEF OpRec, Phase
    <3> HIDE DEF r
    <3>4. OpOK(r) /\ r.answer # "ok"
      BY <1>1, <1>2, <2>1, <3>3 DEF OpOK, Checked
    <3>5. QED
      BY <2>1, <3>1, <3>3, <3>4 DEF b
  <2>2. CASE ops[i].act = "list" /\ Return(i, ops[i], ListAnswer(ops[i]))
    <3>1. ListAnswer(ops[i]) \in {"ok", "error"} /\ Return(i, ops[i], ListAnswer(ops[i]))
      BY <2>2 DEF ListAnswer
    <3>2. QED
      BY <1>1, <1>2, <2>2, <3>1, ReturnStep
  <2>3. CASE /\ ops[i].act = "read"
             /\ Return(i, [ops[i] EXCEPT !.buf = IF Exists(n) THEN text[n] ELSE ops[i].buf], ReadAnswer(n))
    <3> DEFINE b == IF Exists(n) THEN text[n] ELSE ops[i].buf
               o == [ops[i] EXCEPT !.buf = b]
    <3>1. ReadAnswer(n) \in {"ok", "error"} /\ Return(i, o, ReadAnswer(n)) /\ (ReadAnswer(n) = "ok" => b = text[n])
      BY <2>3 DEF ReadAnswer
    <3>2. b \in Rows
      BY <1>1, <1>3 DEF OpRec
    <3> HIDE DEF b
    <3>3. o \in OpRec /\ o.buf = b /\ o.answer = ops[i].answer /\ o.act = "read"
      BY <1>1, <2>3, <3>2 DEF OpRec
    <3> HIDE DEF o
    <3>4. PICK r \in OpRec :
           /\ ops' = [ops EXCEPT ![i] = r] /\ OpOK(r) /\ lane' = (IF lane = i THEN 0 ELSE lane)
           /\ r.phase = "over" /\ r.act = o.act /\ r.at = o.at /\ r.fam = "vfs"
           /\ r.act = "read" => r.buf = o.buf
           /\ r.answer = (IF ops[i].answer = "timeout" THEN "timeout" ELSE ReadAnswer(n))
      BY <1>2, <3>1, <3>3, ReturnStep
    <3>5. QED
      BY <2>3, <3>1, <3>3, <3>4
  <2>4. CASE Return(i, ops[i], "error")
    <3>1. ops[i].act \in {"read", "list", "append"}
      BY <1>1, <1>2 DEF OpOK
    <3>2. PICK r \in OpRec :
           /\ ops' = [ops EXCEPT ![i] = r] /\ OpOK(r) /\ lane' = (IF lane = i THEN 0 ELSE lane)
           /\ r.phase = "over" /\ r.act = ops[i].act /\ r.fam = "vfs"
           /\ r.answer = (IF ops[i].answer = "timeout" THEN "timeout" ELSE "error")
      BY <1>1, <1>2, <2>4, ReturnStep
    <3>3. QED
      BY <3>1, <3>2
  <2>5. QED
    BY <1>4, <2>1, <2>2, <2>3, <2>4
<1>6. r.phase # "new"
  BY <1>5
<1>7. /\ ops' \in [Op -> OpRec] /\ ops'[i] = r /\ \A j \in Op \ {i} : ops'[j] = ops[j]
      /\ lane' \in {0} \cup Op /\ (GaveUp => GaveUp')
      /\ \A j \in Op : OpOK(ops[j])'
      /\ OrderOK' /\ LaneOK'
  BY <1>1, <1>2, <1>5, <1>6, ProgressStep
<1>8. FilesTypes' /\ \A m \in Place : LinkOK(m)'
  BY <1>1, <1>7 DEF FilesInd, FilesTypes, LinkOK
<1>9. TruthOK'
  BY <1>1, <1>2, <1>5, <1>7, TruthStep
<1>10. ~GaveUp => \A m \in Place : text[m] = <<>> => \E j \in Op : j < i /\ Torn(ops[j])
  <2> SUFFICES ASSUME ~GaveUp, NEW m \in Place, text[m] = <<>> PROVE \E j \in Op : j < i /\ Torn(ops[j])
    OBVIOUS
  <2>1. PICK j \in Op : Writing(ops[j], m)
    BY DEF FilesInd, TextOK
  <2>2. j # i
    BY <1>1, <2>1 DEF Writing, Torn
  <2>3. j < i /\ ops[j].phase = "over"
    BY <1>2, <2>1, <2>2, Alone DEF Writing, Torn
  <2>4. QED
    BY <2>1, <2>3 DEF Writing
<1>11. TextOK'
  <2>1. \A m \in Place : text'[m] = text[m] /\ ~Writing(ops[i], m)
    BY <1>1 DEF Writing, Torn
  <2>2. QED
    BY <1>1, <1>2, <1>3, <1>5, <1>7, <1>10, <2>1, TextStep
<1>12. RowsInd'
  <2>1. AppendOK(r)'
    BY <1>1, <1>5 DEF AppendOK, Opened, Exists
  <2>2. r.act \notin {"write", "delete"} /\ r.phase # "puts" /\ ops[i].phase # "puts"
        /\ ~(r.answer = "ok" /\ r.act \in {"write", "append"})
    BY <1>1, <1>5
  <2>3. QED
    BY <1>1, <1>2, <1>5, <1>6, <1>7, <2>1, <2>2, RowsStep
<1>13. QED
  BY <1>7, <1>8, <1>9, <1>11, <1>12 DEF FilesInd


\* The open raises: the file is as it was.
LEMMA OpenRaisesInd ==
  ASSUME FilesInd, NEW i \in Op, Opens(i), Return(i, ops[i], "error"), UNCHANGED text
  PROVE  FilesInd'
<1>1. ops[i] \in OpRec /\ ops[i].phase = "opens" /\ UNCHANGED <<setup, workspace, mount, link, relinks>>
  BY DEF Opens, FilesInd, FilesTypes, place
<1>2. InProgress(i) /\ ops[i].act \in {"write", "append"}
  BY <1>1 DEF InProgress, FilesInd, OpOK
<1>3. PICK r \in OpRec :
        /\ ops' = [ops EXCEPT ![i] = r] /\ OpOK(r) /\ lane' = (IF lane = i THEN 0 ELSE lane)
        /\ r.phase = "over" /\ r.act = ops[i].act /\ r.fam = "vfs"
        /\ r.answer = (IF ops[i].answer = "timeout" THEN "timeout" ELSE "error")
  BY <1>1, <1>2, ReturnStep
<1>4. /\ ops' \in [Op -> OpRec] /\ ops'[i] = r /\ \A j \in Op \ {i} : ops'[j] = ops[j]
      /\ lane' \in {0} \cup Op /\ (GaveUp => GaveUp')
      /\ \A j \in Op : OpOK(ops[j])'
      /\ OrderOK' /\ LaneOK'
  BY <1>1, <1>2, <1>3, ProgressStep
<1>5. FilesTypes' /\ \A m \in Place : LinkOK(m)'
  BY <1>1, <1>4 DEF FilesInd, FilesTypes, LinkOK
<1>6. TruthOK'
  BY <1>1, <1>2, <1>3, <1>4, TruthStep
<1>7. TextOK'
  <2>1. r.answer # "ok" /\ \A m \in Place : ~Writing(ops[i], m)
    BY <1>1, <1>3 DEF Writing, Torn
  <2>2. QED
    BY <1>2, <1>3, <1>4, <2>1, TextStep
<1>8. RowsInd'
  <2>1. AppendOK(r)' /\ r.phase # "new" /\ r.phase # "puts" /\ r.answer # "ok" /\ ops[i].phase # "puts"
    BY <1>1, <1>3 DEF AppendOK
  <2>2. QED
    BY <1>1, <1>2, <1>3, <1>4, <2>1, RowsStep
<1>9. QED
  BY <1>4, <1>5, <1>6, <1>7, <1>8 DEF FilesInd

\* The file is emptied; what an append carries is what it held.
LEMMA OpensInd == ASSUME FilesInd, NEW i \in Op, Opens(i) PROVE FilesInd'
<1> DEFINE n == Opened(ops[i])
           o == [[ops[i] EXCEPT !.at = n] EXCEPT !.phase = "puts"]
<1> SUFFICES ASSUME text' = [text EXCEPT ![n] = <<>>] /\ Step(i, [ops[i] EXCEPT !.at = n], "puts")
             PROVE  FilesInd'
  <2>1. CASE Return(i, ops[i], "error") /\ UNCHANGED text
    BY <2>1, OpenRaisesInd
  <2>2. QED
    BY <2>1 DEF Opens
<1>1. /\ ops[i] \in OpRec /\ ops[i].phase = "opens" /\ text' = [text EXCEPT ![n] = <<>>]
      /\ ops' = [ops EXCEPT ![i] = o] /\ UNCHANGED <<setup, workspace, mount, link, relinks, lane>>
  BY DEF Opens, Step, FilesInd, FilesTypes, place
<1>2. InProgress(i) /\ OpOK(ops[i])
  BY <1>1 DEF InProgress, FilesInd
<1>3. n \in Place /\ <<>> \in Rows /\ (ops[i].fam = "host" => n = link[ops[i].saw])
  BY <1>1, <1>2 DEF Opened, OpRec, OpOK, Checked, FilesInd, FilesTypes, Rows
<1>4. PICK r \in OpRec :
        /\ ops' = [ops EXCEPT ![i] = r] /\ r.phase = "puts" /\ r.at = n /\ r.act = ops[i].act /\ r.fam = ops[i].fam
        /\ r.told = ops[i].told /\ r.saw = ops[i].saw /\ r.buf = ops[i].buf /\ r.answer = ops[i].answer
  <2>1. /\ o \in OpRec /\ o.phase = "puts" /\ o.at = n /\ o.act = ops[i].act /\ o.fam = ops[i].fam
        /\ o.told = ops[i].told /\ o.saw = ops[i].saw /\ o.buf = ops[i].buf /\ o.answer = ops[i].answer
    BY <1>1, <1>3 DEF OpRec, Phase, Somewhere
  <2> HIDE DEF o
  <2>2. QED
    BY <1>1, <2>1
<1> HIDE DEF o
<1>5. OpOK(r) /\ r.answer # "ok"
  BY <1>1, <1>2, <1>3, <1>4 DEF OpOK, Checked
<1>6. /\ ops' \in [Op -> OpRec] /\ ops'[i] = r /\ \A j \in Op \ {i} : ops'[j] = ops[j]
      /\ lane' \in {0} \cup Op /\ (GaveUp => GaveUp')
      /\ \A j \in Op : OpOK(ops[j])'
      /\ OrderOK' /\ LaneOK'
  BY <1>1, <1>2, <1>4, <1>5, ProgressStep
<1> HIDE DEF n
<1>7. text' \in [Place -> Rows] /\ text'[n] = <<>> /\ \A m \in Place \ {n} : text'[m] = text[m]
  BY <1>1, <1>3 DEF FilesInd, FilesTypes
<1>8. FilesTypes' /\ \A m \in Place : LinkOK(m)'
  BY <1>1, <1>6, <1>7 DEF FilesInd, FilesTypes, LinkOK
<1>9. TruthOK'
  <2>1. ASSUME ~GaveUp, relinks = 0, r.fam = "host", r.act = "write" PROVE r.told = r.at
    BY <1>1, <1>3, <1>4, <2>1 DEF FilesInd, TruthOK
  <2>2. QED
    BY ZenonT(30), <1>1, <1>2, <1>4, <1>6, <2>1, TruthStep
<1>10. TextOK'
  <2>1. \A m \in Place : text'[m] = <<>> => Writing(r, m) \/ (text[m] = <<>> /\ ~Writing(ops[i], m))
    BY <1>1, <1>4, <1>7 DEF Writing, Torn
  <2>2. QED
    BY <1>2, <1>4, <1>5, <1>6, <2>1, TextStep
<1>11. RowsInd'
  <2>1. AppendOK(r)'
    BY <1>4 DEF AppendOK
  <2>2. ASSUME ~GaveUp, relinks = 0, NEW k \in Op, k < i, ops[k].at \in Place, r.act \notin {"write", "delete"},
               HasRow(text[ops[k].at], k) \/ ops[i].phase = "puts"
        PROVE  HasRow(text'[ops[k].at], k) \/ (r.phase = "puts" /\ r.at = ops[k].at /\ HasRow(r.buf, k))
    <3>1. CASE ops[k].at # n
      BY <1>1, <1>7, <2>2, <3>1
    <3>2. CASE ops[k].at = n
      <4>1. HasRow(text[n], k) /\ ops[i].act = "append"
        BY <1>1, <1>2, <1>4, <2>2, <3>2 DEF OpOK
      <4>2. Exists(n)
        <5>1. k # 0 /\ DOMAIN NoText = {1, 2} /\ NoText[1] = 0 /\ NoText[2] = 0
          BY OpNat DEF NoText
        <5>2. QED
          BY <4>1, <5>1 DEF Exists, HasRow
      <4>3. ops[i].buf = text[n]
        BY <1>1, <2>2, <4>1, <4>2 DEF FilesInd, RowsInd, AppendOK, n
      <4>4. QED
        BY <1>4, <3>2, <4>1, <4>3
    <3>3. QED
      BY <3>1, <3>2
  <2>3. ~GaveUp /\ relinks = 0 =>
          \A k \in Op :
            k < i /\ ops[k].answer = "ok" /\ ops[k].at \in Place /\ r.act \notin {"write", "delete"}
              /\ (HasRow(text[ops[k].at], k) \/ (ops[i].phase = "puts" /\ ops[i].at = ops[k].at /\ HasRow(ops[i].buf, k)))
            => \/ HasRow(text'[ops[k].at], k)
               \/ r.phase = "puts" /\ r.at = ops[k].at /\ HasRow(r.buf, k)
               \/ Torn(r) /\ r.at = ops[k].at
    BY <2>2
  <2>4. text'[r.at] = <<>> /\ r.phase # "new" /\ r.act = ops[i].act /\ r.answer # "ok" /\ relinks' = relinks
    BY <1>1, <1>4, <1>5, <1>7
  <2>5. QED
    BY <1>2, <1>4, <1>6, <2>1, <2>3, <2>4, RowsStep
<1>12. QED
  BY <1>6, <1>8, <1>9, <1>10, <1>11 DEF FilesInd

\* The file is written, unless it is no longer there.
LEMMA PutsInd == ASSUME FilesInd, NEW i \in Op, Puts(i) PROVE FilesInd'
<1> DEFINE n == ops[i].at
           t == ops[i].buf \o <<i>>
<1>1. /\ ops[i] \in OpRec /\ ops[i].phase = "puts" /\ Return(i, ops[i], "ok")
      /\ UNCHANGED <<setup, workspace, mount, link, relinks>>
  BY DEF Puts, FilesInd, FilesTypes, place
<1>2. InProgress(i) /\ OpOK(ops[i])
  BY <1>1 DEF InProgress, FilesInd
<1>3. n \in Place /\ ops[i].buf \in Rows /\ ops[i].act \in {"write", "append"} /\ i \in Nat
  BY <1>1, <1>2, OpNat DEF OpOK, OpRec
<1>4. t \in Rows /\ t # <<>> /\ HasRow(t, i) /\ \A k \in Op : HasRow(ops[i].buf, k) => HasRow(t, k)
  BY <1>3, AddRow
<1>5. text' = [text EXCEPT ![n] = IF Exists(n) THEN t ELSE text[n]]
  BY <1>3 DEF Puts, FilesInd, FilesTypes
<1> HIDE DEF t
<1>6. /\ text' \in [Place -> Rows] /\ \A m \in Place \ {n} : text'[m] = text[m]
      /\ text[n] = <<>> => text'[n] = t
      /\ text'[n] # <<>>
  <2>1. /\ text' \in [Place -> Rows] /\ \A m \in Place \ {n} : text'[m] = text[m]
        /\ text'[n] = IF Exists(n) THEN t ELSE text[n]
    BY <1>3, <1>4, <1>5 DEF FilesInd, FilesTypes
  <2>2. NoText # <<>>
    BY DEF NoText
  <2>3. QED
    BY <1>4, <2>1, <2>2 DEF Exists
<1>7. PICK r \in OpRec :
        /\ ops' = [ops EXCEPT ![i] = r] /\ OpOK(r) /\ lane' = (IF lane = i THEN 0 ELSE lane)
        /\ r.phase = "over" /\ r.act = ops[i].act /\ r.at = n /\ r.fam = "vfs"
        /\ r.answer = (IF ops[i].answer = "timeout" THEN "timeout" ELSE "ok")
  BY <1>1, <1>2, ReturnStep
<1> HIDE DEF n
<1>8. /\ ops' \in [Op -> OpRec] /\ ops'[i] = r /\ \A j \in Op \ {i} : ops'[j] = ops[j]
      /\ lane' \in {0} \cup Op /\ (GaveUp => GaveUp')
      /\ \A j \in Op : OpOK(ops[j])'
      /\ OrderOK' /\ LaneOK'
  BY <1>1, <1>2, <1>7, ProgressStep
<1>9. FilesTypes' /\ \A m \in Place : LinkOK(m)'
  BY <1>1, <1>6, <1>8 DEF FilesInd, FilesTypes, LinkOK
<1>10. TruthOK'
  BY <1>1, <1>2, <1>7, <1>8, TruthStep
<1>11. TextOK'
  <2>1. \A m \in Place : text'[m] = <<>> => text[m] = <<>> /\ ~Writing(ops[i], m)
    BY <1>6 DEF Writing, n
  <2>2. r.act # "read"
    BY <1>3, <1>7
  <2>3. QED
    BY <1>2, <1>7, <1>8, <2>1, <2>2, TextStep
<1>12. RowsInd'
  <2>1. AppendOK(r)'
    BY <1>7 DEF AppendOK
  <2>2. ASSUME ~GaveUp, relinks = 0
        PROVE  /\ HasRow(text'[n], i)
               /\ \A k \in Op :
                    k < i /\ ops[k].at \in Place
                      /\ (HasRow(text[ops[k].at], k) \/ (ops[i].phase = "puts" /\ ops[i].at = ops[k].at /\ HasRow(ops[i].buf, k)))
                    => HasRow(text'[ops[k].at], k)
    <3>1. text[n] = <<>>
      BY <1>1, <2>2 DEF FilesInd, RowsInd, n
    <3>2. \A k \in Op : ~HasRow(<<>>, k)
      BY DEF HasRow
    <3>3. QED
      BY <1>4, <1>6, <3>1, <3>2 DEF n
  <2>3. QED
    BY <1>1, <1>2, <1>3, <1>7, <1>8, <2>1, <2>2, RowsStep
<1>13. QED
  BY <1>8, <1>9, <1>10, <1>11, <1>12 DEF FilesInd


\* The write that raises behind the open: what is left of the file is a beginning.
LEMMA TornInd == ASSUME FilesInd, NEW i \in Op, Breaks(i) PROVE FilesInd'
<1> DEFINE n == ops[i].at
           t == ops[i].buf \o <<i>>
<1>1. /\ ops[i] \in OpRec /\ ops[i].phase = "puts" /\ Return(i, ops[i], "error")
      /\ UNCHANGED <<setup, workspace, mount, link, relinks>>
  BY DEF Breaks, FilesInd, FilesTypes, place
<1>2. InProgress(i) /\ OpOK(ops[i])
  BY <1>1 DEF InProgress, FilesInd
<1>3. n \in Place /\ ops[i].buf \in Rows /\ ops[i].act \in {"write", "append"} /\ n # "none"
  BY <1>1, <1>2 DEF OpOK, OpRec, Place
<1>4. PICK k \in 0..(Len(ops[i].buf) + 1) :
        text' = [text EXCEPT ![n] = IF Exists(n) THEN SubSeq(t, 1, k) ELSE text[n]]
  BY <1>3 DEF Breaks, FilesInd, FilesTypes
<1>5. SubSeq(t, 1, k) \in Rows
  <2>1. t \in Seq({0} \cup Op) /\ Len(t) = Len(ops[i].buf) + 1 /\ Len(t) \in Nat
    BY <1>3 DEF Rows
  <2>2. QED
    BY <2>1, SubSeqProperties DEF Rows
<1> HIDE DEF t
<1>6. text' \in [Place -> Rows] /\ \A m \in Place \ {n} : text'[m] = text[m]
  BY <1>3, <1>4, <1>5 DEF FilesInd, FilesTypes
<1>7. PICK r \in OpRec :
        /\ ops' = [ops EXCEPT ![i] = r] /\ OpOK(r) /\ lane' = (IF lane = i THEN 0 ELSE lane)
        /\ r.phase = "over" /\ r.act = ops[i].act /\ r.at = n /\ r.fam = "vfs"
        /\ r.answer = (IF ops[i].answer = "timeout" THEN "timeout" ELSE "error")
  BY <1>1, <1>2, ReturnStep
<1>8. ~GaveUp => Torn(r)
  BY <1>3, <1>7 DEF GaveUp, Torn
<1> HIDE DEF n
<1>9. /\ ops' \in [Op -> OpRec] /\ ops'[i] = r /\ \A j \in Op \ {i} : ops'[j] = ops[j]
      /\ lane' \in {0} \cup Op /\ (GaveUp => GaveUp')
      /\ \A j \in Op : OpOK(ops[j])'
      /\ OrderOK' /\ LaneOK'
  BY <1>1, <1>2, <1>7, ProgressStep
<1>10. FilesTypes' /\ \A m \in Place : LinkOK(m)'
  BY <1>1, <1>6, <1>9 DEF FilesInd, FilesTypes, LinkOK
<1>11. TruthOK'
  BY <1>1, <1>2, <1>7, <1>9, TruthStep
<1>12. TextOK'
  <2>1. ~GaveUp => \A m \in Place :
          text'[m] = <<>> => Writing(r, m) \/ (text[m] = <<>> /\ ~Writing(ops[i], m))
    BY <1>6, <1>7, <1>8 DEF Writing, n
  <2>2. r.answer # "ok"
    BY <1>7
  <2>3. QED
    BY <1>2, <1>7, <1>9, <2>1, <2>2, TextStep
<1>13. RowsInd'
  <2>1. AppendOK(r)' /\ r.phase # "new" /\ r.phase # "puts" /\ r.answer # "ok"
    BY <1>7 DEF AppendOK
  <2>2. ASSUME ~GaveUp, NEW j \in Op, ops[j].at \in Place,
               HasRow(text[ops[j].at], j) \/ (ops[i].phase = "puts" /\ ops[i].at = ops[j].at /\ HasRow(ops[i].buf, j))
        PROVE  HasRow(text'[ops[j].at], j) \/ (Torn(r) /\ r.at = ops[j].at)
    BY <1>6, <1>7, <1>8, <2>2 DEF n
  <2>3. QED
    BY <1>1, <1>2, <1>7, <1>9, <2>1, <2>2, RowsStep
<1>14. QED
  BY <1>9, <1>10, <1>11, <1>12, <1>13 DEF FilesInd

\* A file that is removed, and a link that is: what was there is gone with a delete.
LEMMA UnlinksInd == ASSUME FilesInd, NEW i \in Op, Unlinks(i) PROVE FilesInd'
<1> DEFINE n == Unlinked(ops[i])
<1>1. /\ ops[i] \in OpRec /\ ops[i].phase = "unlinks" /\ \E a \in {"ok", "error"} : Return(i, ops[i], a)
      /\ UNCHANGED <<setup, workspace, mount, relinks>>
  BY DEF Unlinks, FilesInd, FilesTypes, place
<1>2. InProgress(i) /\ OpOK(ops[i]) /\ ops[i].act = "delete"
  BY <1>1 DEF InProgress, FilesInd, OpOK
<1>3. n \in Place /\ NoText \in Rows /\ NoText # <<>>
  BY <1>1, <1>2 DEF Unlinked, OpRec, OpOK, Checked, NoText, Rows
<1> HIDE DEF n
<1>4. /\ link' = link \/ link' = [link EXCEPT ![n] = n]
      /\ text' = text \/ text' = [text EXCEPT ![n] = NoText]
  BY DEF Unlinks, store, n
<1>5. /\ link' \in [Place -> Place] /\ \A m \in Place : link'[m] = link[m] \/ link'[m] = m
      /\ text' \in [Place -> Rows] /\ \A m \in Place : text'[m] = text[m] \/ text'[m] # <<>>
  BY <1>3, <1>4 DEF FilesInd, FilesTypes
<1>6. PICK r \in OpRec :
        /\ ops' = [ops EXCEPT ![i] = r] /\ OpOK(r) /\ lane' = (IF lane = i THEN 0 ELSE lane)
        /\ r.phase = "over" /\ r.act = "delete" /\ r.fam = "vfs"
        /\ ops[i].answer = "timeout" => r.answer = "timeout"
  BY <1>1, <1>2, ReturnStep
<1>7. /\ ops' \in [Op -> OpRec] /\ ops'[i] = r /\ \A j \in Op \ {i} : ops'[j] = ops[j]
      /\ lane' \in {0} \cup Op /\ (GaveUp => GaveUp')
      /\ \A j \in Op : OpOK(ops[j])'
      /\ OrderOK' /\ LaneOK'
  BY <1>1, <1>2, <1>6, ProgressStep
<1>8. FilesTypes' /\ \A m \in Place : LinkOK(m)'
  BY <1>1, <1>5, <1>7 DEF FilesInd, FilesTypes, LinkOK
<1>9. TruthOK'
  BY <1>1, <1>2, <1>6, <1>7, TruthStep
<1>10. TextOK'
  <2>1. \A m \in Place : text'[m] = <<>> => text[m] = <<>> /\ ~Writing(ops[i], m)
    BY <1>1, <1>5 DEF Writing, Torn
  <2>2. QED
    BY <1>2, <1>6, <1>7, <2>1, TextStep
<1>11. RowsInd'
  <2>1. AppendOK(r)'
    BY <1>6 DEF AppendOK
  <2>2. QED
    BY <1>1, <1>2, <1>6, <1>7, <2>1, RowsStep
<1>12. QED
  BY <1>7, <1>8, <1>9, <1>10, <1>11 DEF FilesInd

\* An operation is given up: nothing more is claimed of the lane.
LEMMA GivesUpInd == ASSUME FilesInd, NEW i \in Op, GivesUp(i) PROVE FilesInd'
<1> DEFINE r == [ops[i] EXCEPT !.answer = "timeout"]
<1>1. /\ ops[i] \in OpRec /\ ops' = [ops EXCEPT ![i] = r] /\ lane' = 0 /\ InProgress(i)
      /\ UNCHANGED <<setup, workspace, mount, link, text, relinks>>
  BY DEF GivesUp, FilesInd, FilesTypes, place, store, InProgress
<1>2. /\ r \in OpRec /\ r.phase = ops[i].phase /\ r.answer = "timeout" /\ r.fam = ops[i].fam /\ r.act = ops[i].act
      /\ r.saw = ops[i].saw /\ r.at = ops[i].at
  BY <1>1 DEF OpRec
<1> HIDE DEF r
<1>3. ops' \in [Op -> OpRec] /\ ops'[i] = r /\ \A j \in Op \ {i} : ops'[j] = ops[j]
  BY <1>1, <1>2, OpsStep DEF FilesInd
<1>4. GaveUp'
  BY <1>2, <1>3 DEF GaveUp
<1>5. OpOK(r)
  BY <1>1, <1>2 DEF FilesInd, OpOK, Checked, InProgress
<1>6. ASSUME NEW j \in Op PROVE OpOK(ops[j])'
  <2>1. OpOK(ops'[j])
    BY <1>3, <1>5 DEF FilesInd
  <2>2. QED
    BY <1>1, <2>1 DEF OpOK, Checked, Floor
<1>7. FilesTypes' /\ (\A n \in Place : LinkOK(n)') /\ OrderOK'
  <2>1. \A j \in Op : ops'[j].phase = ops[j].phase
    BY <1>2, <1>3
  <2>2. QED
    BY <1>1, <1>3, <2>1 DEF FilesInd, FilesTypes, LinkOK, OrderOK
<1>8. LaneOK' /\ TruthOK' /\ TextOK' /\ RowsInd'
  BY <1>4 DEF LaneOK, TruthOK, TextOK, RowsInd
<1>9. QED
  BY <1>6, <1>7, <1>8 DEF FilesInd

\* A process replaces a name by a link.
LEMMA RelinkInd == ASSUME FilesInd, Relink PROVE FilesInd'
<1>1. /\ UNCHANGED <<setup, workspace, mount, ops, lane>>
      /\ relinks' = relinks + 1 /\ relinks \in Nat
      /\ text' = [text EXCEPT !["docs/a"] = NoText]
  BY DEF Relink, place, FilesInd, FilesTypes
<1>2. PICK t \in {"docs2/s", "~/.ssh/k"} : link' = [link EXCEPT !["docs/a"] = t]
  BY DEF Relink
<1>3. NoText \in Rows /\ NoText # <<>> /\ t \in Place /\ "docs/a" \in Place
  BY DEF NoText, Rows, Place
<1>4. /\ text' \in [Place -> Rows] /\ \A n \in Place : text'[n] = text[n] \/ text'[n] # <<>>
      /\ link' \in [Place -> Place] /\ \A n \in Place : link'[n] = link[n] \/ (n = "docs/a" /\ link'[n] = t)
  BY <1>1, <1>2, <1>3 DEF FilesInd, FilesTypes
<1>5. FilesTypes' /\ \A n \in Place : LinkOK(n)'
  BY <1>1, <1>4 DEF FilesInd, FilesTypes, LinkOK
<1>6. (\A j \in Op : OpOK(ops[j])') /\ OrderOK' /\ LaneOK' /\ (GaveUp <=> GaveUp')
  BY <1>1 DEF FilesInd, OpOK, Checked, Floor, OrderOK, LaneOK, GaveUp, InProgress
<1>7. TextOK'
  BY <1>1, <1>4, <1>6 DEF FilesInd, TextOK, ReadOK, Writing, Torn
<1>8. TruthOK' /\ RowsInd'
  BY <1>1 DEF TruthOK, RowsInd
<1>9. QED
  BY <1>5, <1>6, <1>7, <1>8 DEF FilesInd

\* The registry and the adapter's start.
LEMMA MountInd ==
  ASSUME FilesInd, CreateWorkspace \/ Boot \/ UNCHANGED fileVars
  PROVE  FilesInd'
<1>1. UNCHANGED <<setup, link, text, ops, lane, relinks>>
  BY DEF CreateWorkspace, Boot, store, fileVars
<1>2. setup.static \in {"ro", "rw"}
  BY FilesAssumption DEF FilesInd, FilesTypes
<1>3. FilesTypes'
  BY <1>1, <1>2 DEF FilesInd, FilesTypes, CreateWorkspace, Boot, fileVars
<1>4. (GaveUp <=> GaveUp') /\ (\A n \in Place : LinkOK(n)') /\ (\A j \in Op : OpOK(ops[j])') /\ OrderOK' /\ LaneOK'
  BY <1>1 DEF FilesInd, GaveUp, LinkOK, OpOK, Checked, Floor, OrderOK, LaneOK, InProgress
<1>5. TruthOK' /\ TextOK'
  BY <1>1, <1>4 DEF FilesInd, TruthOK, TextOK, ReadOK, Writing, Torn
<1>6. RowsInd'
  <2>1. ASSUME NEW j \in Op PROVE (AppendOK(ops[j]) => AppendOK(ops[j])') /\ (RowOK(j) => RowOK(j)')
    BY <1>1 DEF AppendOK, Opened, Exists, RowOK, Later, Carried, Lost, Torn
  <2>2. QED
    BY <1>1, <1>4, <2>1 DEF FilesInd, RowsInd
<1>7. QED
  BY <1>3, <1>4, <1>5, <1>6 DEF FilesInd

LEMMA FilesStep == FilesInd /\ [FilesNext]_fileVars => FilesInd'
BY MountInd, RelinkInd, GuardInd, CheckInd, ReadsInd, OpensInd, PutsInd, TornInd, UnlinksInd, GivesUpInd DEF FilesNext

\* Every operation that is past its check has seen where its path leads, off the floor
\* and in the mount; and while nobody is given up the operations come one by one.
THEOREM FilesAreChecked == FilesSpec => []FilesInd
<1>1. FilesInit => FilesInd
  <2> SUFFICES ASSUME FilesInit PROVE FilesInd
    OBVIOUS
  <2>1. PICK t \in {"docs/hook", "docs2/s", "~/.ssh/k"} : link = [n \in Place |-> IF n = "docs/link" THEN t ELSE n]
    BY DEF FilesInit
  <2>2. NoText \in Rows /\ <<0>> \in Rows /\ NoText # <<>> /\ <<0>> # <<>>
    BY DEF NoText, Rows
  <2>3. text \in [Place -> Rows] /\ \A n \in Place : text[n] # <<>>
    BY <2>2 DEF FilesInit
  <2>4. link \in [Place -> Place] /\ \A n \in Place : LinkOK(n)
    BY <2>1 DEF LinkOK, Place
  <2>5. ops \in [Op -> OpRec] /\ \A i \in Op : ops[i] = NewOp
    BY NewTyped DEF FilesInit
  <2>6. NewOp.phase = "new" /\ NewOp.answer = "none" /\ NewOp.act = "read" /\ NewOp.fam = "vfs"
    BY DEF NewOp
  <2>7. FilesTypes
    BY <2>3, <2>4, <2>5 DEF FilesInit, FilesTypes
  <2>8. \A i \in Op : OpOK(ops[i]) /\ AppendOK(ops[i]) /\ RowOK(i) /\ ~InProgress(i)
    BY <2>5, <2>6 DEF OpOK, AppendOK, RowOK, InProgress
  <2>9. QED
    BY <2>3, <2>4, <2>5, <2>6, <2>7, <2>8 DEF FilesInd, OrderOK, LaneOK, TruthOK, TextOK, ReadOK, RowsInd
<1>2. QED
  BY <1>1, FilesStep, PTL DEF FilesSpec

\* For every number of operations and every configuration: whatever happens to the
\* links and whoever gives up, a change of a file keeps to the floor and the mount.
THEOREM FloorIsKept == FilesSpec => FloorHolds
<1> DEFINE Kept == \A i \in Op, n \in Place :
                     Changes(i, n) => FloorKept(i, n) /\ MountKept(i, n) /\ ToldTheTruth(i, n)
<1>1. FilesInd /\ [FilesNext]_fileVars => [Kept]_fileVars
  <2> SUFFICES ASSUME FilesInd, FilesNext, NEW i \in Op, NEW n \in Place, Changes(i, n)
               PROVE  FloorKept(i, n) /\ MountKept(i, n) /\ ToldTheTruth(i, n)
    OBVIOUS
  <2>1. OpOK(ops[i]) /\ ops[i].phase \in {"opens", "puts", "unlinks"}
    BY DEF FilesInd, Changes
  <2>2. Checked(ops[i]) /\ ops[i].act \in Mutating
    BY <2>1 DEF OpOK, Mutating
  <2>3. FloorKept(i, n) /\ MountKept(i, n)
    BY <2>2 DEF FloorKept, MountKept, Checked
  <2>4. ToldTheTruth(i, n)
    <3> SUFFICES ASSUME ops[i].fam = "host", ops[i].act = "write", relinks \in Nat, ~(relinks > 0), ~GaveUp
                 PROVE  ops[i].told = n
      BY DEF ToldTheTruth, FilesInd, FilesTypes
    <3>1. relinks = 0
      OBVIOUS
    <3>2. Opens(i) \/ Puts(i) \/ Breaks(i)
      <4>1. ops[i].phase \in {"opens", "puts"}
        BY <2>1 DEF OpOK
      <4>2. QED
        <5>1. ASSUME NEW j \in Op, Guard(j) \/ Check(j) \/ Reads(j) \/ GivesUp(j) PROVE FALSE
          BY <5>1 DEF Guard, Check, Reads, GivesUp, store, Changes
        <5>2. ASSUME CreateWorkspace \/ Boot \/ Relink PROVE FALSE
          BY <5>2 DEF CreateWorkspace, Boot, Relink, store, Changes
        <5>3. ASSUME NEW j \in Op, Opens(j) \/ Puts(j) \/ Breaks(j) \/ Unlinks(j) PROVE j = i
          <6>1. \E r : ops' = [ops EXCEPT ![j] = r]
            BY <5>3 DEF Opens, Puts, Breaks, Unlinks, Return, Step
          <6>2. ops'[i].phase # ops[i].phase
            BY DEF Changes
          <6>3. QED
            BY <6>1, <6>2 DEF FilesInd, FilesTypes
        <5>4. ~Unlinks(i)
          BY <4>1 DEF Unlinks
        <5>5. QED
          BY <5>1, <5>2, <5>3, <5>4 DEF FilesNext
    <3>3. CASE Opens(i)
      <4>1. ops[i].phase = "opens" /\ text' = [text EXCEPT ![link[ops[i].saw]] = <<>>]
        BY <3>3 DEF Opens, Opened, Changes
      <4>2. n = link[ops[i].saw]
        BY <4>1 DEF Changes, FilesInd, FilesTypes
      <4>3. QED
        BY <3>1, <4>1, <4>2 DEF FilesInd, TruthOK
    <3>4. CASE Puts(i) \/ Breaks(i)
      <4>1. ops[i].phase = "puts" /\ \E s : text' = [text EXCEPT ![ops[i].at] = s]
        BY <3>4 DEF Puts, Breaks
      <4>2. n = ops[i].at
        BY <4>1 DEF Changes, FilesInd, FilesTypes
      <4>3. QED
        BY <3>1, <4>1, <4>2 DEF FilesInd, TruthOK
    <3>5. QED
      BY <3>2, <3>3, <3>4
  <2>5. QED
    BY <2>3, <2>4
<1>2. QED
  BY <1>1, FilesAreChecked, PTL DEF FilesSpec, FloorHolds

\* For every number of operations: as long as nobody gives up, a row that was reported
\* written is in its file, or a later operation has rewritten the file or failed while it
\* did, and no read shows a file while it is being written.
THEOREM RowsAreKept == FilesSpec => []RowsKept
<1>1. FilesInd => RowsKept
  <2> SUFFICES ASSUME FilesInd, ~GaveUp, NEW i \in Op, ops[i].answer = "ok"
               PROVE  /\ ops[i].act \in {"write", "append"} =>
                           \/ \E k \in DOMAIN text[ops[i].at] : text[ops[i].at][k] = i
                           \/ \E j \in Op : j > i /\ ops[j].act \in {"write", "delete"} /\ ops[j].phase # "new"
                           \/ \E j \in Op : j > i /\ ops[j].at = ops[i].at /\ (ops[j].phase = "puts" \/ Torn(ops[j]))
                           \/ relinks > 0
                      /\ ops[i].act = "read" /\ ops[i].buf = <<>> => \E j \in Op : j < i /\ Torn(ops[j])
    BY DEF RowsKept
  <2>1. ops[i].act = "read" /\ ops[i].buf = <<>> => \E j \in Op : j < i /\ Torn(ops[j])
    BY DEF FilesInd, TextOK, ReadOK
  <2>2. CASE relinks > 0
    BY <2>1, <2>2
  <2>3. CASE relinks = 0
    <3>1. RowOK(i)
      BY <2>3 DEF FilesInd, RowsInd
    <3>2. QED
      BY <2>1, <3>1 DEF RowOK, HasRow, Later, Carried, Lost
  <2>4. relinks \in Nat
    BY DEF FilesInd, FilesTypes
  <2>5. QED
    BY <2>2, <2>3, <2>4
<1>2. QED
  BY <1>1, FilesAreChecked, PTL

-------------------------------------------------------------------------------
(* Items.  A rollback knows its item by the identifier; that what has the   *)
(* identifier is still what its call made is the invariant, and holds since *)
(* no identifier is given twice.                                            *)

\* What rollback u is for: the item its call made.
Owned(u) == items[u.id].by = u.of /\ items[u.id].kind = u.kind

\* Only an event is a series.
OneDay(it) == it.kind # "event" => it.days \subseteq {1}

ItemsInd ==
  /\ PlatformTypeOK
  /\ \A u \in undo : Owned(u)
  /\ \A n \in Call : calls[n].undo # NoUndo => Owned(calls[n].undo)
  /\ \A i \in Id : OneDay(items[i])

\* What a rollback knows of its item stays, and what is new is the call's own.
LEMMA ItemsStep ==
  ASSUME ItemsInd, PlatformTypeOK',
         \A i \in Id : items[i].kind # "none" => items'[i].by = items[i].by /\ items'[i].kind = items[i].kind,
         \A u \in undo' : u \in undo \/ (items'[u.id].by = u.of /\ items'[u.id].kind = u.kind),
         \A n \in Call : calls'[n].undo \in {NoUndo, calls[n].undo} \cup undo,
         \A i \in Id : OneDay(items'[i])
  PROVE  ItemsInd'
<1>1. ASSUME NEW u \in UndoRec, Owned(u) PROVE Owned(u)'
  <2>1. u.id \in Id /\ u.kind \in Kind /\ u.kind # "none"
    BY DEF UndoRec, Kind
  <2>2. QED
    BY <1>1, <2>1 DEF Owned
<1>2. \A u \in undo' : Owned(u)'
  BY <1>1 DEF ItemsInd, PlatformTypeOK, Owned
<1>3. ASSUME NEW n \in Call, calls'[n].undo # NoUndo PROVE Owned(calls[n].undo)'
  <2>1. PICK u \in UndoRec : calls'[n].undo = u /\ Owned(u)
    BY <1>3 DEF ItemsInd, PlatformTypeOK
  <2>2. QED
    BY <2>1, <1>1 DEF Owned
<1>4. QED
  BY <1>2, <1>3 DEF ItemsInd

\* What a call asks for names identifiers and titles there are.
LEMMA AskTyped ==
  ASSUME NEW n \in Call, NEW op, NEW kind \in Kind, NEW ask \in Asked(n, op, kind)
  PROVE  ask.kind = kind /\ ask.title \in AnyTitle /\ ask.all \in BOOLEAN /\ AtServer(n) /\ calls[n].undo = NoUndo
<1>1. ask \in Request /\ ask.kind = kind /\ AtServer(n) /\ calls[n].undo = NoUndo
  BY DEF Asked
<1>2. CASE ask \in EventRequest
  BY <1>1, <1>2 DEF EventRequest, Asks, AnyTitle
<1>3. CASE ask \in ReminderRequest
  BY <1>1, <1>3 DEF ReminderRequest, Asks, AnyTitle
<1>4. CASE ask \in ContactRequest
  BY <1>1, <1>4 DEF ContactRequest, Asks, AnyTitle
<1>5. CASE ask \in NoteRequest
  BY <1>1, <1>5 DEF NoteRequest, Asks, AnyTitle
<1>6. QED
  BY <1>1, <1>2, <1>3, <1>4, <1>5 DEF Request

\* A call that is over: its answer.
LEMMA CallsOver ==
  ASSUME ItemsInd, NEW n \in Call, calls' = [calls EXCEPT ![n] = Over]
  PROVE  /\ calls' \in [Call -> [at : {"free", "sent", "late", "over"}, undo : {NoUndo} \cup UndoRec]]
         /\ \A m \in Call : calls'[m].undo \in {NoUndo, calls[m].undo}
BY DEF ItemsInd, PlatformTypeOK, Over

\* A step of the server that changes one item and leaves what it is and whose.
LEMMA ItemKept ==
  ASSUME ItemsInd, NEW n \in Call, NEW i \in Id, NEW it \in ItemRec,
         it.kind = items[i].kind, it.by = items[i].by, OneDay(it),
         items' = [items EXCEPT ![i] = it], Answers(n), UNCHANGED <<undo, edits>>
  PROVE  ItemsInd'
<1>1. /\ calls' \in [Call -> [at : {"free", "sent", "late", "over"}, undo : {NoUndo} \cup UndoRec]]
      /\ \A m \in Call : calls'[m].undo \in {NoUndo, calls[m].undo}
  BY CallsOver DEF Answers
<1>2. PlatformTypeOK'
  BY <1>1 DEF ItemsInd, PlatformTypeOK, Answers
<1>3. \A j \in Id : items'[j].by = items[j].by /\ items'[j].kind = items[j].kind
  BY DEF ItemsInd, PlatformTypeOK
<1>4. \A j \in Id : OneDay(items'[j])
  BY DEF ItemsInd, PlatformTypeOK
<1>5. QED
  BY <1>1, <1>2, <1>3, <1>4, ItemsStep

LEMMA RemovesInd ==
  ASSUME ItemsInd, NEW n \in Call, NEW i \in Id, NEW days, Removes(n, i, days)
  PROVE  ItemsInd'
<1> DEFINE it == [items[i] EXCEPT !.days = items[i].days \ days]
<1>1. it \in ItemRec /\ it.kind = items[i].kind /\ it.by = items[i].by /\ OneDay(it)
  BY DEF ItemsInd, PlatformTypeOK, ItemRec, OneDay
<1>2. items' = [items EXCEPT ![i] = it] /\ Answers(n) /\ UNCHANGED <<undo, edits>>
  BY DEF Removes, ItemsInd, PlatformTypeOK
<1> HIDE DEF it
<1>3. QED
  BY <1>1, <1>2, ItemKept

LEMMA RetitlesInd ==
  ASSUME ItemsInd, NEW n \in Call, NEW i \in Id, NEW title \in AnyTitle, Retitles(n, i, title)
  PROVE  ItemsInd'
<1> DEFINE it == [items[i] EXCEPT !.title = title]
<1>1. it \in ItemRec /\ it.kind = items[i].kind /\ it.by = items[i].by /\ OneDay(it)
  BY DEF ItemsInd, PlatformTypeOK, ItemRec, OneDay
<1>2. items' = [items EXCEPT ![i] = it] /\ Answers(n) /\ UNCHANGED <<undo, edits>>
  BY DEF Retitles, ItemsInd, PlatformTypeOK
<1> HIDE DEF it
<1>3. QED
  BY <1>1, <1>2, ItemKept

LEMMA CompleteInd == ASSUME ItemsInd, NEW n \in Call, CompleteReminder(n) PROVE ItemsInd'
<1>1. PICK ask \in Asked(n, {"complete"}, "reminder") :
        /\ ask.id \in Of("reminder")
        /\ items' = [items EXCEPT ![ask.id].done = ~ask.all]
        /\ Answers(n) /\ UNCHANGED <<undo, edits>>
  BY DEF CompleteReminder
<1> DEFINE i == ask.id
           b == ~ask.all
           it == [items[i] EXCEPT !.done = b]
<1>2. i \in Id /\ b \in BOOLEAN
  BY <1>1 DEF Of
<1>3. items' = [items EXCEPT ![i] = it]
  BY <1>1, <1>2 DEF ItemsInd, PlatformTypeOK
<1> HIDE DEF i, b
<1>4. it \in ItemRec /\ it.kind = items[i].kind /\ it.by = items[i].by /\ OneDay(it)
  BY <1>2 DEF ItemsInd, PlatformTypeOK, ItemRec, OneDay
<1> HIDE DEF it
<1>5. QED
  BY <1>1, <1>2, <1>3, <1>4, ItemKept

LEMMA ShowsInd ==
  ASSUME ItemsInd, NEW n \in Call, NEW ids, ids \subseteq Id, Shows(n, ids)
  PROVE  ItemsInd'
<1>1. /\ calls' \in [Call -> [at : {"free", "sent", "late", "over"}, undo : {NoUndo} \cup UndoRec]]
      /\ \A m \in Call : calls'[m].undo \in {NoUndo, calls[m].undo}
  BY CallsOver DEF Shows
<1>2. PlatformTypeOK'
  BY <1>1 DEF ItemsInd, PlatformTypeOK, Shows
<1>3. QED
  BY <1>1, <1>2, ItemsStep DEF Shows, ItemsInd

LEMMA FailsInd == ASSUME ItemsInd, NEW n \in Call, Fails(n) PROVE ItemsInd'
<1>1. /\ calls' \in [Call -> [at : {"free", "sent", "late", "over"}, undo : {NoUndo} \cup UndoRec]]
      /\ \A m \in Call : calls'[m].undo \in {NoUndo, calls[m].undo}
  BY CallsOver DEF Fails, Answers
<1>2. PlatformTypeOK'
  BY <1>1 DEF ItemsInd, PlatformTypeOK, Fails, Answers
<1>3. QED
  BY <1>1, <1>2, ItemsStep DEF Fails, ItemsInd

\* A new item has an identifier nothing had, and so no rollback names it.
LEMMA AddsInd ==
  ASSUME ItemsInd, NEW n \in Call, NEW op, NEW kind \in Kind, NEW ask \in Asked(n, op, kind),
         NEW cal \in Calendar, NEW days \in SUBSET {1, 2}, kind # "event" => days = {1},
         Adds(n, ask, cal, days)
  PROVE  ItemsInd'
<1>1. ask.kind = kind /\ ask.title \in AnyTitle
  BY AskTyped
<1>2. PICK i \in Id :
        /\ Fresh(i)
        /\ items' = [items EXCEPT ![i] = [kind |-> ask.kind, title |-> ask.title, cal |-> cal,
                                          days |-> days, by |-> n, done |-> FALSE]]
        /\ undo' = IF calls[n].at = "late" THEN undo
                   ELSE undo \cup {[of |-> n, kind |-> ask.kind, id |-> i]}
  BY DEF Adds
<1> DEFINE it == [kind |-> kind, title |-> ask.title, cal |-> cal, days |-> days, by |-> n, done |-> FALSE]
           u == [of |-> n, kind |-> kind, id |-> i]
<1>3. /\ it \in ItemRec /\ it.kind = kind /\ it.by = n /\ OneDay(it)
      /\ u \in UndoRec /\ u.of = n /\ u.kind = kind /\ u.id = i
  BY <1>1 DEF ItemRec, UndoRec, OneDay
<1>4. items' = [items EXCEPT ![i] = it] /\ undo' \subseteq undo \cup {u} /\ items[i].kind = "none"
  BY <1>1, <1>2 DEF Fresh, Unused
<1> HIDE DEF it, u
<1>5. /\ calls' \in [Call -> [at : {"free", "sent", "late", "over"}, undo : {NoUndo} \cup UndoRec]]
      /\ \A m \in Call : calls'[m].undo \in {NoUndo, calls[m].undo}
  BY CallsOver DEF Adds, Answers
<1>6. PlatformTypeOK'
  BY <1>3, <1>4, <1>5 DEF ItemsInd, PlatformTypeOK, Adds, Answers
<1>7. \A j \in Id : items[j].kind # "none" => items'[j].by = items[j].by /\ items'[j].kind = items[j].kind
  BY <1>4 DEF ItemsInd, PlatformTypeOK
<1>8. items'[i] = it
  BY <1>4 DEF ItemsInd, PlatformTypeOK
<1>9. \A w \in undo' : w \in undo \/ (items'[w.id].by = w.of /\ items'[w.id].kind = w.kind)
  BY <1>3, <1>4, <1>8
<1>10. \A j \in Id : OneDay(items'[j])
  BY <1>3, <1>4 DEF ItemsInd, PlatformTypeOK
<1>11. QED
  BY <1>5, <1>6, <1>7, <1>9, <1>10, ItemsStep

\* The calls to the server and the rollbacks.
LEMMA CallsInd ==
  ASSUME ItemsInd, NEW n \in Call, Submit(n) \/ SubmitUndo(n) \/ GiveUp(n)
  PROVE  ItemsInd'
<1>1. CASE Submit(n) \/ GiveUp(n)
  <2>1. /\ UNCHANGED <<items, undo, shown, edits>>
        /\ calls' \in [Call -> [at : {"free", "sent", "late", "over"}, undo : {NoUndo} \cup UndoRec]]
        /\ \A m \in Call : calls'[m].undo = calls[m].undo
    BY <1>1 DEF Submit, GiveUp, ItemsInd, PlatformTypeOK
  <2>2. PlatformTypeOK'
    BY <2>1 DEF ItemsInd, PlatformTypeOK
  <2>3. QED
    BY <2>1, <2>2, ItemsStep DEF ItemsInd
<1>2. CASE SubmitUndo(n)
  <2>1. PICK u \in undo : calls' = [calls EXCEPT ![n] = [at |-> "sent", undo |-> u]] /\ undo' = undo \ {u}
    BY <1>2 DEF SubmitUndo
  <2>2. u \in UndoRec /\ UNCHANGED <<items, shown, edits>>
    BY <1>2 DEF SubmitUndo, ItemsInd, PlatformTypeOK
  <2>3. /\ calls' \in [Call -> [at : {"free", "sent", "late", "over"}, undo : {NoUndo} \cup UndoRec]]
        /\ \A m \in Call : calls'[m].undo = calls[m].undo \/ calls'[m].undo = u
    BY <2>1, <2>2 DEF ItemsInd, PlatformTypeOK
  <2>4. PlatformTypeOK'
    BY <2>1, <2>2, <2>3 DEF ItemsInd, PlatformTypeOK
  <2>5. QED
    BY <2>1, <2>2, <2>3, <2>4, ItemsStep DEF ItemsInd
<1>3. QED
  BY <1>1, <1>2

\* What the user and the synchronisation do.
LEMMA UsersInd == ASSUME ItemsInd, UserAdds \/ UserDeletes \/ Resync PROVE ItemsInd'
<1>1. edits' \in 0..MaxEdits /\ UNCHANGED <<calls, undo, shown>>
  BY ItemsAssumption DEF ItemsInd, PlatformTypeOK, UserAdds, UserDeletes, Resync
<1>2. CASE UserAdds
  <2>1. PICK i \in Id, kind \in Kind, title \in Title, cal \in Calendar :
          Fresh(i) /\ items' = [items EXCEPT ![i] = [kind |-> kind, title |-> title, cal |-> cal,
                                                     days |-> {1}, by |-> 0, done |-> FALSE]]
    BY <1>2 DEF UserAdds
  <2> DEFINE it == [kind |-> kind, title |-> title, cal |-> cal, days |-> {1}, by |-> 0, done |-> FALSE]
  <2>2. it \in ItemRec /\ OneDay(it) /\ items[i].kind = "none" /\ items' = [items EXCEPT ![i] = it]
    BY <2>1 DEF ItemRec, AnyTitle, Fresh, Unused, OneDay
  <2> HIDE DEF it
  <2>3. PlatformTypeOK'
    BY <1>1, <2>2 DEF ItemsInd, PlatformTypeOK
  <2>4. \A j \in Id : items[j].kind # "none" => items'[j].by = items[j].by /\ items'[j].kind = items[j].kind
    BY <2>2 DEF ItemsInd, PlatformTypeOK
  <2>5. \A j \in Id : OneDay(items'[j])
    BY <2>2 DEF ItemsInd, PlatformTypeOK
  <2>6. QED
    BY <1>1, <2>3, <2>4, <2>5, ItemsStep
<1>3. CASE UserDeletes
  <2>1. PICK i \in Id : items' = [items EXCEPT ![i].days = {}]
    BY <1>3 DEF UserDeletes
  <2> DEFINE it == [items[i] EXCEPT !.days = {}]
  <2>2. it \in ItemRec /\ it.kind = items[i].kind /\ it.by = items[i].by /\ OneDay(it)
    BY DEF ItemsInd, PlatformTypeOK, ItemRec, OneDay
  <2>3. items' = [items EXCEPT ![i] = it]
    BY <2>1 DEF ItemsInd, PlatformTypeOK
  <2> HIDE DEF it
  <2>4. PlatformTypeOK'
    BY <1>1, <2>2, <2>3 DEF ItemsInd, PlatformTypeOK
  <2>5. \A j \in Id : items'[j].by = items[j].by /\ items'[j].kind = items[j].kind
    BY <2>2, <2>3 DEF ItemsInd, PlatformTypeOK
  <2>6. \A j \in Id : OneDay(items'[j])
    BY <2>2, <2>3 DEF ItemsInd, PlatformTypeOK
  <2>7. QED
    BY <1>1, <2>4, <2>5, <2>6, ItemsStep
<1>4. CASE Resync
  <2>1. PICK i \in Of("event"), j \in Id :
          Fresh(j) /\ items' = [items EXCEPT ![j] = items[i], ![i] = [items[i] EXCEPT !.days = {}]]
    BY <1>4 DEF Resync
  <2> DEFINE it == [items[i] EXCEPT !.days = {}]
  <2>2. i \in Id /\ items[j].kind = "none"
    BY <2>1 DEF Of, Fresh, Unused
  <2>3. it \in ItemRec /\ it.kind = items[i].kind /\ it.by = items[i].by /\ OneDay(it)
    BY <2>2 DEF ItemsInd, PlatformTypeOK, ItemRec, OneDay
  <2>4. items' = [[items EXCEPT ![j] = items[i]] EXCEPT ![i] = it]
    BY <2>1 DEF ItemsInd, PlatformTypeOK
  <2> HIDE DEF it
  <2>5. PlatformTypeOK'
    BY <1>1, <2>2, <2>3, <2>4 DEF ItemsInd, PlatformTypeOK
  <2>6. \A k \in Id : items[k].kind # "none" => items'[k].by = items[k].by /\ items'[k].kind = items[k].kind
    BY <2>2, <2>3, <2>4 DEF ItemsInd, PlatformTypeOK
  <2>7. \A k \in Id : OneDay(items'[k])
    BY <2>2, <2>3, <2>4 DEF ItemsInd, PlatformTypeOK
  <2>8. QED
    BY <1>1, <2>5, <2>6, <2>7, ItemsStep
<1>5. QED
  BY <1>2, <1>3, <1>4

\* The requests the server serves.
LEMMA ServeInd == ASSUME ItemsInd, NEW n \in Call, Serve(n) PROVE ItemsInd'
<1>1. CASE \/ CreateEvent(n) \/ CreateReminder(n) \/ AddContact(n) \/ CreateNote(n)
  <2>1. PICK kind \in Kind, cal \in Calendar, days \in SUBSET {1, 2} :
          /\ \E ask \in Asked(n, {"create"}, kind) : Adds(n, ask, cal, days)
          /\ kind # "event" => days = {1}
    <3>1. CASE CreateEvent(n)
      BY <3>1, ItemsAssumption DEF CreateEvent, Kind
    <3>2. CASE CreateReminder(n)
      BY <3>2, ItemsAssumption DEF CreateReminder, Kind
    <3>3. CASE AddContact(n)
      BY <3>3, ItemsAssumption DEF AddContact, Kind
    <3>4. CASE CreateNote(n)
      BY <3>4, ItemsAssumption DEF CreateNote, Kind
    <3>5. QED
      BY <1>1, <3>1, <3>2, <3>3, <3>4
  <2>2. QED
    BY <2>1, AddsInd
<1>2. CASE UpdateEvent(n) \/ UpdateReminder(n) \/ UpdateContact(n)
  <2>1. PICK kind \in Kind : \E ask \in Asked(n, {"update"}, kind) :
          /\ ask.id \in Of(kind)
          /\ Retitles(n, ask.id, ask.title) \/ Retitles(n, ask.id, items[ask.id].title)
    BY <1>2 DEF UpdateEvent, UpdateReminder, UpdateContact, Kind
  <2> PICK ask \in Asked(n, {"update"}, kind) :
          /\ ask.id \in Of(kind)
          /\ Retitles(n, ask.id, ask.title) \/ Retitles(n, ask.id, items[ask.id].title)
    BY <2>1
  <2>2. ask.id \in Id /\ ask.title \in AnyTitle
    BY AskTyped DEF Of
  <2>3. items[ask.id].title \in AnyTitle
    BY <2>2 DEF ItemsInd, PlatformTypeOK, ItemRec
  <2>4. QED
    BY <2>2, <2>3, RetitlesInd
<1>3. CASE DeleteEvent(n) \/ DeleteReminder(n) \/ DeleteContact(n) \/ DeleteNote(n) \/ UndoEvent(n) \/ UndoItem(n)
  <2>1. PICK i \in Id : \E days : Removes(n, i, days)
    BY <1>3 DEF DeleteEvent, DeleteReminder, DeleteContact, DeleteNote, UndoEvent, UndoItem, Of
  <2>2. PICK days : Removes(n, i, days)
    BY <2>1
  <2>3. QED
    BY <2>2, RemovesInd
<1>4. CASE \/ ListEvents(n) \/ SearchEvents(n) \/ ListReminders(n) \/ SearchContacts(n) \/ GetContact(n)
           \/ ListNotes(n) \/ ReadNote(n)
  <2>1. PICK ids : ids \subseteq Id /\ Shows(n, ids)
    BY <1>4 DEF ListEvents, SearchEvents, ListReminders, SearchContacts, GetContact, ListNotes, ReadNote, Of
  <2>2. QED
    BY <2>1, ShowsInd
<1>5. CASE CompleteReminder(n)
  BY <1>5, CompleteInd
<1>6. CASE Fails(n)
  BY <1>6, FailsInd
<1>7. QED
  BY <1>1, <1>2, <1>3, <1>4, <1>5, <1>6 DEF Serve, ServeEvents, ServeReminders, ServeContacts, ServeNotes

\* Every item a rollback is kept for, or is under way for, is still the one its call
\* made, and the state is typed.
THEOREM ItemsAreOwned == ItemsSpec => []ItemsInd
<1>1. ItemsInit => ItemsInd
  <2> SUFFICES ASSUME ItemsInit PROVE ItemsInd
    OBVIOUS
  <2>1. Gone \in ItemRec /\ Free \in [at : {"free", "sent", "late", "over"}, undo : {NoUndo} \cup UndoRec]
    BY ItemsAssumption DEF Gone, Free, ItemRec, AnyTitle
  <2>2. 0 \in 0..MaxEdits /\ OneDay(Gone)
    BY ItemsAssumption DEF OneDay, Gone
  <2>3. \A n \in Call : calls[n].undo = NoUndo
    BY DEF ItemsInit, Free
  <2>4. QED
    BY <2>1, <2>2, <2>3 DEF ItemsInit, ItemsInd, PlatformTypeOK
<1>2. ItemsInd /\ [ItemsNext]_itemVars => ItemsInd'
  <2> SUFFICES ASSUME ItemsInd, [ItemsNext]_itemVars PROVE ItemsInd'
    OBVIOUS
  <2>1. CASE UNCHANGED itemVars
    <3>1. UNCHANGED <<items, calls, undo, shown, edits>>
      BY <2>1 DEF itemVars
    <3>2. QED
      BY <3>1 DEF ItemsInd, PlatformTypeOK, Owned
  <2>2. CASE ItemsNext
    BY <2>2, CallsInd, ServeInd, UsersInd DEF ItemsNext
  <2>3. QED
    BY <2>1, <2>2
<1>3. QED
  BY <1>1, <1>2, PTL DEF ItemsSpec

\* A rollback takes nothing but what its call has made, and of that a day or all: for
\* all sets of calls and identifiers, whatever the user and the synchronisation do.
THEOREM UndoIsFaithful == ItemsSpec => UndoTakesItsOwn
<1> DEFINE Taken ==
      \A n \in Call :
        calls[n].undo # NoUndo /\ calls'[n] = Over =>
          \A i \in Id : items'[i] # items[i] =>
            /\ items[i].by = calls[n].undo.of
            /\ items'[i].days = {} \/ items[i].days = {1, 2}
<1>1. ItemsInd /\ [ItemsNext]_itemVars => [Taken]_itemVars
  <2> SUFFICES ASSUME ItemsInd, ItemsNext PROVE Taken
    OBVIOUS
  <2> SUFFICES ASSUME NEW n \in Call, calls[n].undo # NoUndo, calls'[n] = Over,
                      NEW i \in Id, items'[i] # items[i]
               PROVE  /\ items[i].by = calls[n].undo.of
                      /\ items'[i].days = {} \/ items[i].days = {1, 2}
    OBVIOUS
  <2>1. calls[n] # Over /\ Over.undo = NoUndo /\ Over.at = "over"
    BY DEF Over
  <2>2. Serve(n)
    <3>1. ASSUME NEW m \in Call, Submit(m) \/ SubmitUndo(m) \/ GiveUp(m) PROVE FALSE
      BY <3>1 DEF Submit, SubmitUndo, GiveUp
    <3>2. ASSUME UserAdds \/ UserDeletes \/ Resync PROVE FALSE
      BY <3>2, <2>1 DEF UserAdds, UserDeletes, Resync
    <3>3. ASSUME NEW m \in Call, Serve(m) PROVE m = n
      <4>1. calls' = [calls EXCEPT ![m] = Over]
        BY <3>3 DEF Serve, ServeEvents, ServeReminders, ServeContacts, ServeNotes, CreateEvent, UpdateEvent,
           DeleteEvent, ListEvents, SearchEvents, UndoEvent, CreateReminder, CompleteReminder, UpdateReminder,
           DeleteReminder, ListReminders, AddContact, UpdateContact, DeleteContact, SearchContacts, GetContact,
           CreateNote, DeleteNote, ListNotes, ReadNote, UndoItem, Fails, Adds, Removes, Retitles, Shows, Answers
      <4>2. QED
        BY <4>1, <2>1 DEF ItemsInd, PlatformTypeOK
    <3>4. QED
      BY <3>1, <3>2, <3>3 DEF ItemsNext
  <2>3. UndoEvent(n) \/ UndoItem(n)
    <3>1. ~Fails(n)
      BY DEF Fails
    <3>2. \A op, kind : Asked(n, op, kind) = {}
      BY DEF Asked
    <3>3. QED
      BY <2>2, <3>1, <3>2 DEF Serve, ServeEvents, ServeReminders, ServeContacts, ServeNotes, CreateEvent,
         UpdateEvent, DeleteEvent, ListEvents, SearchEvents, CreateReminder, CompleteReminder, UpdateReminder,
         DeleteReminder, ListReminders, AddContact, UpdateContact, DeleteContact, SearchContacts, GetContact,
         CreateNote, DeleteNote, ListNotes, ReadNote
  <2> DEFINE id == calls[n].undo.id
  <2>4. id \in Id /\ items[id].by = calls[n].undo.of /\ There(id)
    BY <2>3 DEF ItemsInd, Owned, UndoEvent, UndoItem, Of
  <2>5. PICK days : Removes(n, id, days) /\ ((days = {1} /\ items[id].kind # "event") \/ days = Span(id, FALSE))
    BY <2>3 DEF UndoEvent, UndoItem, Undoes, Of
  <2>6. items[id].days \in SUBSET {1, 2} /\ items[id].days # {}
    BY <2>4 DEF There, ItemsInd, PlatformTypeOK, ItemRec
  <2>7. i = id /\ items'[i].days = items[i].days \ days
    BY <2>4, <2>5 DEF Removes, ItemsInd, PlatformTypeOK, ItemRec
  <2>8. items[id].days = {1, 2} \/ items[id].days = {1} \/ items[id].days = {2}
    BY <2>6
  <2>9. ASSUME items[id].days # {1, 2} PROVE items[id].days \ days = {}
    <3>1. CASE days = {1} /\ items[id].kind # "event"
      BY <3>1, <2>4 DEF ItemsInd, OneDay
    <3>2. CASE days = Span(id, FALSE)
      <4>1. PICK d : items[id].days = {d} /\ d \in {1, 2}
        BY <2>8, <2>9
      <4>2. (CHOOSE e \in {d} : \A f \in {d} : e <= f) = d
        <5>1. \E e \in {d} : \A f \in {d} : e <= f
          BY <4>1
        <5>2. QED
          BY <5>1
      <4>3. QED
        BY <3>2, <4>1, <4>2 DEF Span
    <3>3. QED
      BY <2>5, <3>1, <3>2
  <2>10. QED
    BY <2>4, <2>7, <2>9
<1>2. QED
  BY <1>1, ItemsAreOwned, PTL DEF ItemsSpec, UndoTakesItsOwn

-------------------------------------------------------------------------------
(* The inspection of a script, for every command and every file: what the    *)
(* stages have put together when each of them begins, and that it tells.     *)

\* What the walk has put together when it comes to each stage.
Settled(c, says, seen) ==
  (/\ c.auto /\ c.script.size # "empty" /\ c.script.code \notin Unseen
   /\ (c.lang = "python") = (c.script.code \in PythonCode))
  => seen # {} \/ says \ {"edge:inline", "edge:referenced", "resolved:auto-read"} # {}

NodeOK(n) == n.found \subseteq PythonCode \cup ShellCode \cup {"syntax"}

NodesOK ==
  \/ nodes = <<>>
  \/ \E m : nodes = <<m>> /\ NodeOK(m) /\ m.body \in {call.inline, NoCode}
  \/ \E m, n : nodes = <<m, n>> /\ NodeOK(m) /\ NodeOK(n) /\ m.body \in {call.inline, NoCode} /\ n.body = NoCode

ReviewIInv ==
  /\ call.script.code \in PythonCode \cup ShellCode
  /\ stage \in {"edges", "script", "gate", "done"}
  /\ reviewer \in {"idle", "ran", "failed"}
  /\ reviewer # "idle" => stage = "done" /\ ShouldReview
  /\ stage = "edges" => nodes = <<>>
  /\ stage = "script" => Len(nodes) \in {0, 1}
  /\ NodesOK
  /\ stage \in {"gate", "done"} => Settled(call, signals, NodeFindings)

\* Only the node of the command's own code can have a body.
LEMMA PickedIsInline ==
  ASSUME NodesOK
  PROVE  PickedCode \in {call.inline, NoCode}
<1>1. CASE nodes = <<>>
  BY <1>1 DEF PickedCode
<1>2. ASSUME NEW m, nodes = <<m>>, m.body \in {call.inline, NoCode}
      PROVE  PickedCode \in {call.inline, NoCode}
  <2>1. DOMAIN nodes = {1} /\ nodes[1].body \in {call.inline, NoCode}
    BY <1>2
  <2>2. \A i \in DOMAIN nodes : nodes[i].body # NoCode => i = 1
    BY <2>1
  <2> QED BY <2>1, <2>2 DEF PickedCode
<1>3. ASSUME NEW m, NEW n, nodes = <<m, n>>, m.body \in {call.inline, NoCode}, n.body = NoCode
      PROVE  PickedCode \in {call.inline, NoCode}
  <2>1. DOMAIN nodes = {1, 2} /\ nodes[1].body \in {call.inline, NoCode} /\ nodes[2].body = NoCode
    BY <1>3
  <2> QED BY <2>1 DEF PickedCode
<1> QED BY <1>1, <1>2, <1>3 DEF NodesOK

\* Whatever code is inspected, its findings are of the kinds that are looked for.
LEMMA InspectedTypes ==
  ASSUME NEW code, NEW size, NEW binary, NEW language
  PROVE  Inspected(code, size, binary, language).found \subseteq PythonCode \cup ShellCode \cup {"syntax"}
<1>1. References(code) \subseteq PythonCode \cup ShellCode
  BY DEF References, PythonCode, ShellCode
<1>2. FoundInPython(code) \subseteq PythonCode \cup ShellCode \cup {"syntax"}
  BY <1>1 DEF FoundInPython, ListedImport, ListedCall, PythonCode, ShellCode
<1>3. FoundInShell(code) \subseteq PythonCode \cup ShellCode \cup {"syntax"}
  BY <1>1 DEF FoundInShell, PythonCode, ShellCode
<1> QED BY <1>2, <1>3 DEF Inspected

\* Code that is inspected in its own language and does what the rules are for
\* is found, or the answer says why it was not looked at.
LEMMA InspectedTells ==
  ASSUME NEW code \in PythonCode \cup ShellCode, code \notin Unseen, NEW size, size # "empty",
         NEW binary, NEW language, (language = "python") = (code \in PythonCode)
  PROVE  LET r == Inspected(code, size, binary, language)
         IN  r.found # {} \/ r.says \cap {"CODE_TOO_LARGE", "resolved:binary", "resolved:unsupported-language"} # {}
<1>1. CASE language = "python"
  <2>1. FoundInPython(code) # {}
    BY <1>1 DEF FoundInPython, ListedImport, ListedCall, References, PythonCode, ShellCode, Unseen
  <2> QED BY <1>1, <2>1 DEF Inspected
<1>2. CASE language # "python"
  <2>1. FoundInShell(code) # {}
    BY <1>2 DEF FoundInShell, References, PythonCode, ShellCode, Unseen
  <2> QED BY <1>2, <2>1 DEF Inspected
<1> QED BY <1>1, <1>2

\* What a sequence of one element is with another behind it.
LEMMA AppendSecond ==
  ASSUME NEW m, NEW n
  PROVE  Append(<<m>>, n) = <<m, n>>
<1>1. <<m>> \in Seq({m, n}) /\ n \in {m, n}
  OBVIOUS
<1>2. Append(<<m>>, n) \in Seq({m, n}) /\ Len(Append(<<m>>, n)) = 2
  BY <1>1
<1>3. Append(<<m>>, n)[1] = m /\ Append(<<m>>, n)[2] = n
  BY <1>1
<1>4. <<m, n>> \in Seq({m, n}) /\ Len(<<m, n>>) = 2 /\ <<m, n>>[1] = m /\ <<m, n>>[2] = n
  OBVIOUS
<1>5. \A i \in 1..2 : i = 1 \/ i = 2
  OBVIOUS
<1>6. \A i \in 1..2 : Append(<<m>>, n)[i] = <<m, n>>[i]
  BY <1>3, <1>4, <1>5
<1> QED BY <1>2, <1>4, <1>6, SeqEqual

\* Appending a node adds its findings.
LEMMA FindingsGrow ==
  ASSUME NEW n, nodes' = Append(nodes, n), NodesOK, Len(nodes) \in {0, 1}
  PROVE  NodeFindings' = NodeFindings \cup n.found
<1>1. CASE nodes = <<>>
  <2>1. nodes' = <<n>>
    BY <1>1
  <2>2. DOMAIN nodes = {} /\ DOMAIN nodes' = {1} /\ nodes'[1] = n
    BY <1>1, <2>1
  <2> QED BY <2>2 DEF NodeFindings
<1>2. ASSUME NEW m, nodes = <<m>>
      PROVE  NodeFindings' = NodeFindings \cup n.found
  <2>1. nodes' = <<m, n>>
    BY <1>2, AppendSecond
  <2>2. DOMAIN nodes = {1} /\ nodes[1] = m /\ DOMAIN nodes' = {1, 2} /\ nodes'[1] = m /\ nodes'[2] = n
    BY <1>2, <2>1
  <2> QED BY <2>2 DEF NodeFindings
<1>3. ASSUME NEW m, NEW k, nodes = <<m, k>>
      PROVE  FALSE
  BY <1>3
<1> QED BY <1>1, <1>2, <1>3 DEF NodesOK

\* The step from the edges to the script: the command's own code, if it has any.
LEMMA InlineStep ==
  ASSUME ReviewIInv, InspectInline
  PROVE  ReviewIInv'
<1> USE DEF InspectInline
<1> DEFINE scoped == HeadLanguage(call) \in AllowedLanguages
           body == Inspected(call.inline, "small", FALSE, call.lang)
<1>1. call' = call /\ reviewer' = reviewer /\ stage' \in {"script", "gate"} /\ reviewer = "idle"
  BY DEF ReviewIInv
<1>2. nodes' = <<>> \/ nodes' = <<[body |-> call.inline, found |-> body.found]>>
  BY DEF ReviewIInv
<1>3. NodeOK([body |-> call.inline, found |-> body.found])
  BY InspectedTypes DEF NodeOK
<1>4. NodesOK' /\ Len(nodes') \in {0, 1}
  BY <1>1, <1>2, <1>3 DEF NodesOK
<1>5. stage' = "gate" => Settled(call, signals', NodeFindings')
  <2>1. CASE ~call.auto
    BY <2>1 DEF Settled
  <2>2. CASE call.auto /\ stage' = "gate"
    <3>1. "OUT_OF_SCOPE" \in signals'
      BY <2>2
    <3> QED BY <3>1 DEF Settled
  <2> QED BY <2>1, <2>2
<1> QED BY <1>1, <1>4, <1>5 DEF ReviewIInv

\* The step of the script that the command names.
LEMMA ReferencedStep ==
  ASSUME ReviewIInv, InspectReferenced
  PROVE  ReviewIInv'
<1> USE DEF InspectReferenced
<1> DEFINE file == call.script
           taken == Sniffed(file)
           language == IF taken = "unknown" THEN call.lang ELSE taken
           code == Inspected(file.code, file.size, IsBinary(file), language)
<1>1. call' = call /\ reviewer' = reviewer /\ stage' = "gate" /\ reviewer = "idle" /\ Len(nodes) \in {0, 1}
  BY DEF ReviewIInv
<1>2. PICK n : /\ nodes' = Append(nodes, n) /\ n.body = NoCode
               /\ n = [body |-> NoCode, found |-> IF Failure(call) = "ok" /\ ~IsBinary(file) THEN code.found ELSE {}]
  <2>1. CASE Failure(call) # "ok"
    BY <2>1
  <2>2. CASE Failure(call) = "ok" /\ IsBinary(file)
    BY <2>2
  <2>3. CASE Failure(call) = "ok" /\ ~IsBinary(file)
    BY <2>3
  <2> QED BY <2>1, <2>2, <2>3
<1>3. NodeOK(n)
  BY <1>2, InspectedTypes DEF NodeOK
<1>4. NodesOK'
  <2>1. CASE nodes = <<>>
    <3>1. nodes' = <<n>>
      BY <2>1, <1>2
    <3> QED BY <3>1, <1>1, <1>2, <1>3 DEF NodesOK
  <2>2. ASSUME NEW m, nodes = <<m>>, NodeOK(m), m.body \in {call.inline, NoCode}
        PROVE  NodesOK'
    <3>1. nodes' = <<m, n>>
      BY <2>2, <1>2, AppendSecond
    <3> QED BY <3>1, <2>2, <1>1, <1>2, <1>3 DEF NodesOK
  <2>3. ASSUME NEW m, NEW k, nodes = <<m, k>>
        PROVE  FALSE
    BY <2>3, <1>1
  <2> QED BY <2>1, <2>2, <2>3 DEF ReviewIInv, NodesOK
<1>5. NodeFindings' = NodeFindings \cup n.found
  <2> HIDE DEF InspectReferenced, file, taken, language, code
  <2>1. nodes' = Append(nodes, n)
    BY <1>2
  <2>2. NodesOK
    BY DEF ReviewIInv
  <2>3. Len(nodes) \in {0, 1}
    BY <1>1
  <2> QED BY <2>1, <2>2, <2>3, FindingsGrow
<1>6. Settled(call, signals', NodeFindings')
  <2> SUFFICES ASSUME call.auto, file.size # "empty", file.code \notin Unseen,
                      (call.lang = "python") = (file.code \in PythonCode)
               PROVE  NodeFindings' # {} \/ signals' \ {"edge:inline", "edge:referenced", "resolved:auto-read"} # {}
    BY DEF Settled
  <2>1. CASE Failure(call) # "ok"
    <3>1. Failure(call) \in signals'
      BY <2>1
    <3>2. Failure(call) \notin {"edge:inline", "edge:referenced", "resolved:auto-read"}
      BY DEF Failure
    <3> QED BY <3>1, <3>2
  <2>2. CASE Failure(call) = "ok" /\ IsBinary(file)
    <3>1. "resolved:binary" \in signals'
      BY <2>2
    <3> QED BY <3>1
  <2>3. CASE Failure(call) = "ok" /\ ~IsBinary(file) /\ language # call.lang
    <3>1. "resolved:language-mismatch" \in signals'
      BY <2>3
    <3> QED BY <3>1
  <2>4. CASE Failure(call) = "ok" /\ ~IsBinary(file) /\ language = call.lang
    <3>1. n.found = code.found /\ code.says \subseteq signals'
      BY <2>4, <1>2
    <3>2. code.found # {} \/ code.says \cap {"CODE_TOO_LARGE", "resolved:binary", "resolved:unsupported-language"} # {}
      BY <2>4, InspectedTells DEF ReviewIInv
    <3> HIDE DEF code
    <3> QED BY <3>1, <3>2, <1>5
  <2> QED BY <2>1, <2>2, <2>3, <2>4
<1> QED BY <1>1, <1>4, <1>6 DEF ReviewIInv

\* Every step of an inspection keeps what its stages have put together.
LEMMA ReviewStep ==
  ASSUME ReviewIInv, [ReviewNext]_reviewVars
  PROVE  ReviewIInv'
<1>1. CASE InspectInline
  BY <1>1, InlineStep
<1>2. CASE InspectReferenced
  BY <1>2, ReferencedStep
<1>3. CASE ReviewCode
  <2>1. call' = call /\ signals' = signals /\ nodes' = nodes /\ stage' = "done" /\ stage = "gate"
    BY <1>3 DEF ReviewCode
  <2>2. ShouldReview' = ShouldReview /\ NodesOK' = NodesOK /\ NodeFindings' = NodeFindings
    BY <2>1 DEF ShouldReview, NodesOK, NodeFindings, PickedCode
  <2>3. reviewer' \in {"idle", "ran", "failed"} /\ (reviewer' # "idle" => ShouldReview)
    BY <1>3 DEF ReviewCode
  <2> QED BY <2>1, <2>2, <2>3 DEF ReviewIInv
<1>4. CASE UNCHANGED reviewVars
  <2>1. ShouldReview' = ShouldReview /\ NodesOK' = NodesOK /\ NodeFindings' = NodeFindings
    BY <1>4 DEF reviewVars, ShouldReview, NodesOK, NodeFindings, PickedCode
  <2> QED BY <1>4, <2>1 DEF ReviewIInv, reviewVars
<1> QED BY <1>1, <1>2, <1>3, <1>4 DEF ReviewNext

\* The invariant says what an inspection may end with.
LEMMA ReviewIsSafe ==
  ASSUME ReviewIInv
  PROVE  ReviewSafe
<1>1. ReviewTypeOK
  <2>1. Len(nodes) <= 2 /\ \A i \in DOMAIN nodes : NodeOK(nodes[i])
    <3>1. CASE nodes = <<>>
      BY <3>1
    <3>2. ASSUME NEW m, nodes = <<m>>, NodeOK(m)
          PROVE  Len(nodes) <= 2 /\ \A i \in DOMAIN nodes : NodeOK(nodes[i])
      BY <3>2
    <3>3. ASSUME NEW m, NEW n, nodes = <<m, n>>, NodeOK(m), NodeOK(n)
          PROVE  Len(nodes) <= 2 /\ \A i \in DOMAIN nodes : NodeOK(nodes[i])
      BY <3>3
    <3> QED BY <3>1, <3>2, <3>3 DEF ReviewIInv, NodesOK
  <2> QED BY <2>1 DEF ReviewTypeOK, ReviewIInv, NodeOK
<1>2. NoSilentMiss
  BY DEF NoSilentMiss, ReviewIInv, Settled
<1>3. ScriptsStayHome
  BY PickedIsInline DEF ScriptsStayHome, ReviewIInv, ShouldReview
<1> QED BY <1>1, <1>2, <1>3 DEF ReviewSafe

\* Whatever script a command names, it is not passed over in silence, and the
\* model is shown nothing but the code of the command itself.
THEOREM ReviewsAreSafe == ReviewSpec => []ReviewSafe
<1>1. ReviewInit => ReviewIInv
  BY InspectionAssumption DEF ReviewInit, ReviewStarts, ReviewIInv, NodesOK
<1>2. ReviewIInv /\ [ReviewNext]_reviewVars => ReviewIInv'
  BY ReviewStep
<1>3. ReviewIInv => ReviewSafe
  BY ReviewIsSafe
<1> QED BY <1>1, <1>2, <1>3, PTL DEF ReviewSpec

-------------------------------------------------------------------------------
(* The sandbox, for every configuration and every working directory: the     *)
(* order of a profile, from the general to the denials, is what the rule     *)
(* that matches last makes of it.                                            *)

\* What a profile is made of.
RuleRec == [allow : BOOLEAN, ops : SUBSET Operation, places : SUBSET Location]
HeadAllows(t) ==
  {Rule(TRUE, {"read"}, Location), Rule(TRUE, {"write"}, {"/tmp/intentframe"})}
  \cup (IF Rank(t) >= 4 THEN {Rule(TRUE, {"outbound"}, Location)} ELSE {})
  \cup (IF Rank(t) >= 5 THEN {Rule(TRUE, {"bind"}, Location)} ELSE {})
  \cup (IF Rank(t) >= 6 THEN {Rule(TRUE, Operation, Location)} ELSE {})
WriteAllows(plan) ==
  IF Rank(plan.template) <= 2 THEN {} ELSE {Rule(TRUE, {"write"}, Below(p)) : p \in plan.writes}
Denials ==
  {Rule(FALSE, {"write"}, Below(p)) : p \in DenyWrite}
  \cup {Rule(FALSE, {"read", "write"}, Below(p)) : p \in DenyAccess}

IsPlan(plan) ==
  /\ plan.template \in ToSet(Order)
  /\ IsFiniteSet(plan.writes) /\ plan.writes \subseteq Location \cup {"/"}

\* A sequence made of a finite set has its elements and no others.
LEMMA SetToSeqIs ==
  ASSUME NEW S, IsFiniteSet(S)
  PROVE  /\ SetToSeq(S) \in Seq(S)
         /\ \A x \in S : \E i \in 1..Len(SetToSeq(S)) : SetToSeq(S)[i] = x
<1> DEFINE n == Cardinality(S)
           f == SetToSeq(S)
<1>1. n \in Nat /\ ExistsBijection(1..n, S)
  BY FS_CardinalityType
<1>2. \E g \in [1..n -> S] : IsInjective(g)
  BY <1>1 DEF ExistsBijection, Bijection, Injection
<1>3. f \in [1..n -> S] /\ IsInjective(f)
  BY <1>2 DEF SetToSeq
<1>4. f \in Injection(1..n, S)
  BY <1>3 DEF Injection
<1>5. IsFiniteSet(1..n) /\ Cardinality(1..n) = n
  BY <1>1, FS_Interval
<1>6. f \in Surjection(1..n, S)
  BY <1>4, <1>5, FS_Injection
<1>7. \A x \in S : \E i \in 1..n : f[i] = x
  BY <1>6 DEF Surjection
<1>8. f \in Seq(S) /\ Len(f) = n
  BY <1>1, <1>3
<1> QED BY <1>7, <1>8

\* A template has the rank of its place in the order.
LEMMA RankIs ==
  ASSUME NEW i \in 1..6
  PROVE  Rank(Order[i]) = i
<1>1. DOMAIN Order = 1..6
  BY DEF Order
<1>2. \A j \in 1..6 : Order[j] = Order[i] => j = i
  BY DEF Order
<1> QED BY <1>1, <1>2 DEF Rank

\* So the ranks run from one to six, and only one template has the sixth.
LEMMA RankOfTemplate ==
  ASSUME NEW t \in ToSet(Order)
  PROVE  Rank(t) \in 1..6 /\ Order[Rank(t)] = t /\ (Rank(t) = 6 => t = "unrestricted")
<1>1. DOMAIN Order = 1..6 /\ Order[6] = "unrestricted"
  BY DEF Order
<1>2. PICK i \in 1..6 : t = Order[i]
  BY <1>1 DEF ToSet
<1>3. Rank(t) = i
  BY <1>2, RankIs
<1> QED BY <1>1, <1>2, <1>3

\* The template of a configuration is one of the order, also where none is allowed.
LEMMA TemplateIs ==
  ASSUME NEW allowed, allowed \subseteq ToSet(Order)
  PROVE  Template(allowed) \in ToSet(Order)
<1>1. CASE allowed = {}
  <2>1. Template(allowed) = Order[2] /\ 2 \in DOMAIN Order
    BY <1>1 DEF Template, Order
  <2> QED BY <2>1 DEF ToSet
<1>2. CASE allowed # {}
  <2> DEFINE R == {Rank(t) : t \in allowed}
  <2>1. R # {} /\ R \subseteq 1..6
    BY <1>2, RankOfTemplate
  <2> HIDE DEF R
  <2>2. \E x \in R : \A y \in R : x >= y
    <3>1. CASE 6 \in R
      BY <2>1, <3>1
    <3>2. CASE 6 \notin R /\ 5 \in R
      BY <2>1, <3>2
    <3>3. CASE R \cap {5, 6} = {} /\ 4 \in R
      BY <2>1, <3>3
    <3>4. CASE R \cap {4, 5, 6} = {} /\ 3 \in R
      BY <2>1, <3>4
    <3>5. CASE R \cap {3, 4, 5, 6} = {} /\ 2 \in R
      BY <2>1, <3>5
    <3>6. CASE R \cap {2, 3, 4, 5, 6} = {}
      <4>1. \A x \in R : x = 1
        BY <2>1, <3>6
      <4>2. PICK x \in R : x = 1
        BY <4>1, <2>1
      <4> QED BY <4>1, <4>2
    <3> QED BY <3>1, <3>2, <3>3, <3>4, <3>5, <3>6
  <2>3. Max(R) \in R
    BY <2>2 DEF Max
  <2>4. Max(R) \in DOMAIN Order
    <3>1. DOMAIN Order = 1..6
      BY DEF Order
    <3> QED BY <2>1, <2>3, <3>1
  <2>5. Template(allowed) = Order[Max(R)]
    BY <1>2 DEF Template, R
  <2> QED BY <2>4, <2>5 DEF ToSet
<1> QED BY <1>1, <1>2

\* What lies below a path is a set of places.
LEMMA BelowIs ==
  ASSUME NEW p \in Location \cup {"/"}
  PROVE  Below(p) \subseteq Location
BY DEF Below, Location, InHome

\* A rule is a record of a flag, operations and places.
LEMMA RuleIs ==
  ASSUME NEW a \in BOOLEAN, NEW deeds \in SUBSET Operation, NEW places \in SUBSET Location
  PROVE  Rule(a, deeds, places) \in RuleRec
BY DEF Rule, RuleRec

\* The denials are rules that deny.
LEMMA DeniesTyped == Denials \subseteq RuleRec /\ \A r \in Denials : ~r.allow
<1>1. \A p \in DenyWrite \cup DenyAccess : Below(p) \in SUBSET Location
  BY BelowIs DEF DenyWrite, DenyAccess, Location
<1>2. {"write"} \in SUBSET Operation /\ {"read", "write"} \in SUBSET Operation
  BY DEF Operation
<1>3. \A p \in DenyWrite : Rule(FALSE, {"write"}, Below(p)) \in RuleRec
  BY <1>1, <1>2, RuleIs
<1>4. \A p \in DenyAccess : Rule(FALSE, {"read", "write"}, Below(p)) \in RuleRec
  BY <1>1, <1>2, RuleIs
<1> QED BY <1>3, <1>4 DEF Denials, Rule

\* The last part of a profile: the denials and nothing else, each of them.
LEMMA DenyRulesAre ==
  /\ DenyRules \in Seq(RuleRec)
  /\ \A i \in 1..Len(DenyRules) : DenyRules[i] \in Denials
  /\ \A r \in Denials : \E i \in 1..Len(DenyRules) : DenyRules[i] = r
<1> DEFINE A == {Rule(FALSE, {"write"}, Below(p)) : p \in DenyWrite}
           B == {Rule(FALSE, {"read", "write"}, Below(p)) : p \in DenyAccess}
           s == SetToSeq(A)
           t == SetToSeq(B)
<1>1. IsFiniteSet(A) /\ IsFiniteSet(B)
  <2>1. A = {Rule(FALSE, {"write"}, Below("/usr"))} \cup {Rule(FALSE, {"write"}, Below("~/Library/LaunchAgents"))}
    BY DEF DenyWrite
  <2>2. B = {Rule(FALSE, {"read", "write"}, Below("~/.intentframe"))}
    BY DEF DenyAccess
  <2>3. IsFiniteSet({Rule(FALSE, {"write"}, Below("/usr"))})
    BY FS_Singleton
  <2>4. IsFiniteSet({Rule(FALSE, {"write"}, Below("/usr"))} \cup {Rule(FALSE, {"write"}, Below("~/Library/LaunchAgents"))})
    BY <2>3, FS_AddElement
  <2>5. IsFiniteSet(B)
    BY <2>2, FS_Singleton
  <2> QED BY <2>1, <2>4, <2>5
<1>2. A \cup B = Denials
  BY DEF Denials
<1>3. DenyRules = s \o t
  BY DEF DenyRules
<1> HIDE DEF A, B
<1>4. s \in Seq(A) /\ \A x \in A : \E i \in 1..Len(s) : s[i] = x
  BY <1>1, SetToSeqIs
<1>5. t \in Seq(B) /\ \A x \in B : \E i \in 1..Len(t) : t[i] = x
  BY <1>1, SetToSeqIs
<1> HIDE DEF s, t
<1>6. s \in Seq(Denials) /\ t \in Seq(Denials)
  BY <1>2, <1>4, <1>5, SeqMonotonic
<1>7. Len(s) \in Nat /\ Len(t) \in Nat
  BY <1>6, LenProperties
<1>8. /\ s \o t \in Seq(Denials) /\ Len(s \o t) = Len(s) + Len(t)
      /\ \A i \in 1..Len(s) + Len(t) : (s \o t)[i] = IF i <= Len(s) THEN s[i] ELSE t[i - Len(s)]
  BY <1>6, ConcatProperties
<1>9. DenyRules \in Seq(RuleRec)
  BY <1>3, <1>8, DeniesTyped, SeqMonotonic
<1>10. \A i \in 1..Len(DenyRules) : DenyRules[i] \in Denials
  BY <1>3, <1>8, ElementOfSeq
<1>11. \A r \in A : \E i \in 1..Len(DenyRules) : DenyRules[i] = r
  <2> TAKE r \in A
  <2>1. PICK i \in 1..Len(s) : s[i] = r
    BY <1>4
  <2>2. i \in 1..Len(DenyRules) /\ DenyRules[i] = r
    BY <2>1, <1>3, <1>7, <1>8
  <2> QED BY <2>2
<1>12. \A r \in B : \E i \in 1..Len(DenyRules) : DenyRules[i] = r
  <2> TAKE r \in B
  <2>1. PICK i \in 1..Len(t) : t[i] = r
    BY <1>5
  <2>2. i + Len(s) \in 1..Len(s) + Len(t) /\ ~(i + Len(s) <= Len(s)) /\ i + Len(s) - Len(s) = i
    BY <2>1, <1>7
  <2>3. i + Len(s) \in 1..Len(DenyRules) /\ DenyRules[i + Len(s)] = r
    BY <2>1, <2>2, <1>3, <1>8
  <2> QED BY <2>3
<1> QED BY <1>2, <1>9, <1>10, <1>11, <1>12

\* The part before it: a rule for each path that may be written.
LEMMA WriteRulesAre ==
  ASSUME NEW plan, IsPlan(plan)
  PROVE  /\ WriteRules(plan) \in Seq(RuleRec)
         /\ \A i \in 1..Len(WriteRules(plan)) : WriteRules(plan)[i] \in WriteAllows(plan)
         /\ \A r \in WriteAllows(plan) : r.allow /\ r.ops = {"write"}
<1> DEFINE W == {Rule(TRUE, {"write"}, Below(p)) : p \in plan.writes}
<1>1. W \subseteq RuleRec
  <2>1. \A p \in plan.writes : Below(p) \in SUBSET Location
    BY BelowIs DEF IsPlan
  <2>2. {"write"} \in SUBSET Operation
    BY DEF Operation
  <2> QED BY <2>1, <2>2, RuleIs
<1>2. \A r \in WriteAllows(plan) : r.allow /\ r.ops = {"write"}
  BY DEF WriteAllows, Rule
<1>3. CASE Rank(plan.template) <= 2
  <2>1. WriteRules(plan) = <<>>
    BY <1>3 DEF WriteRules
  <2>2. <<>> \in Seq(RuleRec) /\ Len(<<>>) = 0
    BY EmptySeq
  <2> QED BY <1>2, <2>1, <2>2
<1>4. CASE ~(Rank(plan.template) <= 2)
  <2>1. WriteRules(plan) = SetToSeq(W) /\ WriteAllows(plan) = W
    BY <1>4 DEF WriteRules, WriteAllows
  <2>2. IsFiniteSet(W)
    <3> DEFINE f == [p \in plan.writes |-> Rule(TRUE, {"write"}, Below(p))]
    <3>1. f \in Surjection(plan.writes, W)
      BY DEF Surjection
    <3> QED BY <3>1, FS_Surjection DEF IsPlan
  <2> HIDE DEF W
  <2>3. SetToSeq(W) \in Seq(W)
    BY <2>2, SetToSeqIs
  <2>4. SetToSeq(W) \in Seq(RuleRec)
    BY <2>3, <1>1, SeqMonotonic
  <2>5. \A i \in 1..Len(SetToSeq(W)) : SetToSeq(W)[i] \in W
    BY <2>3, ElementOfSeq
  <2> QED BY <1>2, <2>1, <2>4, <2>5
<1> QED BY <1>3, <1>4

\* The rules of a template; under the broadest one the last permits everything.
LEMMA TemplateRulesAre ==
  ASSUME NEW t \in ToSet(Order)
  PROVE  LET s == TemplateRules(t)
             o == Rule(TRUE, {"outbound"}, Location)
             b == Rule(TRUE, {"bind"}, Location)
             a == Rule(TRUE, Operation, Location)
         IN  /\ s \in Seq(RuleRec)
             /\ \A i \in 1..Len(s) :
                  (s[i] = o /\ Rank(t) >= 4) \/ (s[i] = b /\ Rank(t) >= 5) \/ (s[i] = a /\ Rank(t) >= 6)
             /\ Rank(t) >= 6 => Len(s) >= 1 /\ s[Len(s)] = a
<1> DEFINE o == Rule(TRUE, {"outbound"}, Location)
           b == Rule(TRUE, {"bind"}, Location)
           a == Rule(TRUE, Operation, Location)
           x == IF Rank(t) >= 4 THEN <<o>> ELSE <<>>
           y == IF Rank(t) >= 5 THEN <<b>> ELSE <<>>
           z == IF Rank(t) >= 6 THEN <<a>> ELSE <<>>
<1>1. o \in RuleRec /\ b \in RuleRec /\ a \in RuleRec
  BY RuleIs DEF Operation
<1>2. TemplateRules(t) = x \o y \o z
  BY DEF TemplateRules
<1>3. Rank(t) \in 1..6
  BY RankOfTemplate
<1> HIDE DEF o, b, a
<1>4. x \in Seq(RuleRec) /\ y \in Seq(RuleRec) /\ z \in Seq(RuleRec)
  BY <1>1
<1>5. /\ \A i \in 1..Len(x) : x[i] = o /\ Rank(t) >= 4
      /\ \A i \in 1..Len(y) : y[i] = b /\ Rank(t) >= 5
      /\ \A i \in 1..Len(z) : z[i] = a /\ Rank(t) >= 6
      /\ Rank(t) >= 6 => Len(z) = 1 /\ z[1] = a
  <2>1. \A i \in 1..Len(x) : x[i] = o /\ Rank(t) >= 4
    OBVIOUS
  <2>2. \A i \in 1..Len(y) : y[i] = b /\ Rank(t) >= 5
    OBVIOUS
  <2>3. \A i \in 1..Len(z) : z[i] = a /\ Rank(t) >= 6
    OBVIOUS
  <2>4. Rank(t) >= 6 => Len(z) = 1 /\ z[1] = a
    OBVIOUS
  <2> QED BY <2>1, <2>2, <2>3, <2>4
<1> HIDE DEF x, y, z
<1>6. /\ x \o y \in Seq(RuleRec) /\ Len(x \o y) = Len(x) + Len(y)
      /\ \A i \in 1..Len(x) + Len(y) : (x \o y)[i] = IF i <= Len(x) THEN x[i] ELSE y[i - Len(x)]
  BY <1>4, ConcatProperties
<1>7. Len(x) \in Nat /\ Len(y) \in Nat /\ Len(z) \in Nat
  BY <1>4, LenProperties
<1> DEFINE xy == x \o y
<1>8. \A i \in 1..Len(xy) : (xy[i] = o /\ Rank(t) >= 4) \/ (xy[i] = b /\ Rank(t) >= 5)
  BY <1>5, <1>6, <1>7
<1>9. xy \in Seq(RuleRec) /\ Len(xy) \in Nat
  BY <1>6, <1>7
<1> HIDE DEF xy
<1>10. /\ xy \o z \in Seq(RuleRec) /\ Len(xy \o z) = Len(xy) + Len(z)
       /\ \A i \in 1..Len(xy) + Len(z) : (xy \o z)[i] = IF i <= Len(xy) THEN xy[i] ELSE z[i - Len(xy)]
  BY <1>4, <1>9, ConcatProperties
<1>11. TemplateRules(t) = xy \o z
  BY <1>2 DEF xy
<1>12. \A i \in 1..Len(xy \o z) :
         \/ (xy \o z)[i] = o /\ Rank(t) >= 4
         \/ (xy \o z)[i] = b /\ Rank(t) >= 5
         \/ (xy \o z)[i] = a /\ Rank(t) >= 6
  BY <1>5, <1>7, <1>8, <1>9, <1>10
<1>13. Rank(t) >= 6 => Len(xy \o z) >= 1 /\ (xy \o z)[Len(xy \o z)] = a
  <2> SUFFICES ASSUME Rank(t) >= 6
               PROVE  Len(xy \o z) >= 1 /\ (xy \o z)[Len(xy \o z)] = a
    OBVIOUS
  <2>1. Len(z) = 1 /\ z[1] = a
    BY <1>5
  <2>2. Len(xy \o z) = Len(xy) + 1
    BY <1>10, <2>1
  <2>3. (xy \o z)[Len(xy) + 1] = z[1]
    BY <1>9, <1>10, <2>1
  <2> QED BY <1>9, <2>1, <2>2, <2>3
<1> QED BY <1>10, <1>11, <1>12, <1>13 DEF o, b, a

\* The essential rules and the template's.
LEMMA HeadIs ==
  ASSUME NEW t \in ToSet(Order)
  PROVE  LET h == Essential \o TemplateRules(t)
         IN  /\ h \in Seq(RuleRec) /\ Len(h) \in Nat /\ Len(h) >= 3
             /\ \A i \in 1..Len(h) : h[i].allow => h[i] \in HeadAllows(t)
             /\ h[2] = Rule(TRUE, {"read"}, Location)
             /\ \A i \in 3..Len(h) : "read" \in h[i].ops => Rank(t) >= 6
             /\ Rank(t) >= 6 => h[Len(h)] = Rule(TRUE, Operation, Location)
<1> DEFINE e == Essential
           s == TemplateRules(t)
           h == e \o s
           d == Rule(FALSE, Operation, Location)
           r == Rule(TRUE, {"read"}, Location)
           w == Rule(TRUE, {"write"}, {"/tmp/intentframe"})
           o == Rule(TRUE, {"outbound"}, Location)
           b == Rule(TRUE, {"bind"}, Location)
           a == Rule(TRUE, Operation, Location)
<1>1. d \in RuleRec /\ r \in RuleRec /\ w \in RuleRec
  BY RuleIs DEF Operation, Location
<1>2. /\ s \in Seq(RuleRec)
      /\ \A i \in 1..Len(s) :
           (s[i] = o /\ Rank(t) >= 4) \/ (s[i] = b /\ Rank(t) >= 5) \/ (s[i] = a /\ Rank(t) >= 6)
      /\ Rank(t) >= 6 => Len(s) >= 1 /\ s[Len(s)] = a
  BY TemplateRulesAre
<1>3. e = <<d, r, w>>
  BY DEF Essential
<1>4. /\ ~d.allow /\ r \in HeadAllows(t) /\ w \in HeadAllows(t) /\ "read" \notin w.ops
      /\ "read" \notin o.ops /\ "read" \notin b.ops
      /\ (Rank(t) >= 4 => o \in HeadAllows(t)) /\ (Rank(t) >= 5 => b \in HeadAllows(t))
      /\ (Rank(t) >= 6 => a \in HeadAllows(t))
  BY DEF Rule, HeadAllows
<1> HIDE DEF d, r, w, o, b, a, s
<1>5. /\ e \in Seq(RuleRec) /\ Len(e) = 3
      /\ e[1] = d /\ e[2] = r /\ e[3] = w
  BY <1>1, <1>3
<1> HIDE DEF e
<1>6. Len(s) \in Nat
  BY <1>2, LenProperties
<1>7. /\ h \in Seq(RuleRec) /\ Len(h) = 3 + Len(s)
      /\ \A i \in 1..3 + Len(s) : h[i] = IF i <= 3 THEN e[i] ELSE s[i - 3]
  <2>1. /\ h \in Seq(RuleRec) /\ Len(h) = Len(e) + Len(s)
        /\ \A i \in 1..Len(e) + Len(s) : h[i] = IF i <= Len(e) THEN e[i] ELSE s[i - Len(e)]
    BY <1>2, <1>5, ConcatProperties
  <2>2. Len(e) = 3
    BY <1>5
  <2> QED BY ONLY <2>1, <2>2
<1> HIDE DEF h
<1>8. h[1] = d /\ h[2] = r /\ h[3] = w
  BY <1>5, <1>6, <1>7
<1>9. \A i \in 4..Len(h) : i - 3 \in 1..Len(s) /\ h[i] = s[i - 3]
  BY <1>6, <1>7
<1>10. \A i \in 4..Len(h) :
         (h[i] = o /\ Rank(t) >= 4) \/ (h[i] = b /\ Rank(t) >= 5) \/ (h[i] = a /\ Rank(t) >= 6)
  BY <1>2, <1>9
<1>11. \A i \in 1..Len(h) : h[i].allow => h[i] \in HeadAllows(t)
  <2> TAKE i \in 1..Len(h)
  <2>1. i = 1 \/ i = 2 \/ i = 3 \/ i \in 4..Len(h)
    BY <1>6, <1>7
  <2> QED BY <2>1, <1>4, <1>8, <1>10
<1>12. \A i \in 3..Len(h) : "read" \in h[i].ops => Rank(t) >= 6
  <2> TAKE i \in 3..Len(h)
  <2>1. i = 3 \/ i \in 4..Len(h)
    BY <1>6, <1>7
  <2> QED BY <2>1, <1>4, <1>8, <1>10
<1>13. Rank(t) >= 6 => h[Len(h)] = a
  <2> HAVE Rank(t) >= 6
  <2>1. Len(h) \in 4..Len(h) /\ Len(h) - 3 = Len(s)
    BY <1>2, <1>6, <1>7
  <2> QED BY <2>1, <1>2, <1>9
<1>14. h = Essential \o TemplateRules(t)
  BY DEF h, e, s
<1>15. Len(h) \in Nat /\ Len(h) >= 3
  BY <1>6, <1>7
<1> QED BY <1>7, <1>8, <1>11, <1>12, <1>13, <1>14, <1>15 DEF r, a

\* The whole profile: m ends the head, n the write rules; the denials are last.
LEMMA ProfileIs ==
  ASSUME NEW plan, IsPlan(plan)
  PROVE  LET p == Profile(plan)
             t == plan.template
         IN  \E m \in Nat, n \in Nat :
               /\ 3 <= m /\ m <= n /\ n <= Len(p) /\ p \in Seq(RuleRec)
               /\ \A i \in 1..m : p[i].allow => p[i] \in HeadAllows(t)
               /\ p[2] = Rule(TRUE, {"read"}, Location)
               /\ \A i \in 3..m : "read" \in p[i].ops => Rank(t) >= 6
               /\ Rank(t) >= 6 => p[m] = Rule(TRUE, Operation, Location)
               /\ \A i \in (m + 1)..n : p[i] \in WriteAllows(plan)
               /\ \A i \in (n + 1)..Len(p) : p[i] \in Denials
               /\ \A r \in Denials : \E i \in (n + 1)..Len(p) : p[i] = r
<1> DEFINE t == plan.template
           h == Essential \o TemplateRules(t)
           w == WriteRules(plan)
           hw == h \o w
           d == DenyRules
           p == hw \o d
           r == Rule(TRUE, {"read"}, Location)
           a == Rule(TRUE, Operation, Location)
<1>1. p = Profile(plan)
  BY DEF Profile
<1>2. /\ h \in Seq(RuleRec) /\ Len(h) \in Nat /\ Len(h) >= 3
      /\ \A i \in 1..Len(h) : h[i].allow => h[i] \in HeadAllows(t)
      /\ h[2] = r
      /\ \A i \in 3..Len(h) : "read" \in h[i].ops => Rank(t) >= 6
      /\ Rank(t) >= 6 => h[Len(h)] = a
  BY HeadIs DEF IsPlan
<1> HIDE DEF h, r, a
<1>3. w \in Seq(RuleRec) /\ \A i \in 1..Len(w) : w[i] \in WriteAllows(plan)
  BY WriteRulesAre
<1>4. Len(w) \in Nat
  BY <1>3, LenProperties
<1> HIDE DEF w
<1>5. /\ hw \in Seq(RuleRec) /\ Len(hw) = Len(h) + Len(w)
      /\ \A i \in 1..Len(h) + Len(w) : hw[i] = IF i <= Len(h) THEN h[i] ELSE w[i - Len(h)]
  BY <1>2, <1>3, ConcatProperties
<1> HIDE DEF hw
<1>6. d \in Seq(RuleRec) /\ Len(d) \in Nat
  BY DenyRulesAre, LenProperties
<1> HIDE DEF d
<1>7. /\ p \in Seq(RuleRec) /\ Len(p) = Len(hw) + Len(d)
      /\ \A i \in 1..Len(hw) + Len(d) : p[i] = IF i <= Len(hw) THEN hw[i] ELSE d[i - Len(hw)]
  <2>1. hw \in Seq(RuleRec) /\ d \in Seq(RuleRec)
    BY <1>5, <1>6
  <2>2. p \in Seq(RuleRec)
    BY ONLY <2>1, ConcatProperties
  <2>3. Len(p) = Len(hw) + Len(d)
    BY ONLY <2>1, ConcatProperties
  <2>4. \A i \in 1..Len(hw) + Len(d) : p[i] = IF i <= Len(hw) THEN hw[i] ELSE d[i - Len(hw)]
    BY ONLY <2>1, ConcatProperties
  <2> QED BY <2>2, <2>3, <2>4
<1> HIDE DEF p
<1> DEFINE m == Len(h)
           n == Len(hw)
<1>8. m \in Nat /\ n \in Nat /\ 3 <= m /\ m <= n /\ n <= Len(p)
  BY <1>2, <1>4, <1>5, <1>6, <1>7
<1>9. \A i \in 1..m : p[i] = h[i]
  BY <1>2, <1>4, <1>5, <1>6, <1>7
<1>10. \A i \in (m + 1)..n : i - m \in 1..Len(w) /\ p[i] = w[i - m]
  BY <1>2, <1>4, <1>5, <1>6, <1>7
<1>11. \A i \in (n + 1)..Len(p) : i - n \in 1..Len(d) /\ p[i] = d[i - n]
  BY <1>8, <1>6, <1>7
<1>12. \A j \in 1..Len(d) : j + n \in (n + 1)..Len(p) /\ p[j + n] = d[j]
  <2> TAKE j \in 1..Len(d)
  <2>1. j + n \in (n + 1)..Len(p) /\ (j + n) - n = j
    BY <1>8, <1>6, <1>7
  <2> QED BY <2>1, <1>11
<1>13. /\ \A i \in 1..m : p[i].allow => p[i] \in HeadAllows(t)
       /\ p[2] = r
       /\ \A i \in 3..m : "read" \in p[i].ops => Rank(t) >= 6
       /\ Rank(t) >= 6 => p[m] = a
  <2>1. 2 \in 1..m /\ m \in 1..m /\ \A i \in 3..m : i \in 1..m
    BY <1>8
  <2> QED BY <2>1, <1>2, <1>9
<1>14. \A i \in (m + 1)..n : p[i] \in WriteAllows(plan)
  BY <1>3, <1>10
<1>15. \A i \in (n + 1)..Len(p) : p[i] \in Denials
  BY <1>11, DenyRulesAre DEF d
<1>16. \A q \in Denials : \E i \in (n + 1)..Len(p) : p[i] = q
  <2> TAKE q \in Denials
  <2>1. PICK j \in 1..Len(d) : d[j] = q
    BY DenyRulesAre DEF d
  <2> QED BY <2>1, <1>12
<1> HIDE DEF m, n
<1> QED BY <1>1, <1>7, <1>8, <1>13, <1>14, <1>15, <1>16 DEF r, a, t

\* What a profile permits, no denial covers and some rule that allows does.
LEMMA PermitsWithin ==
  ASSUME NEW plan, IsPlan(plan), NEW op, NEW where, Permits(Profile(plan), op, where)
  PROVE  /\ \A r \in Denials : ~Covers(r, op, where)
         /\ \E r \in HeadAllows(plan.template) \cup WriteAllows(plan) : Covers(r, op, where)
<1> DEFINE p == Profile(plan)
<1>1. PICK i \in DOMAIN p : /\ p[i].allow /\ Covers(p[i], op, where)
                            /\ \A j \in DOMAIN p : j > i => ~Covers(p[j], op, where)
  BY DEF Permits
<1>2. PICK m \in Nat, n \in Nat :
        /\ 3 <= m /\ m <= n /\ n <= Len(p) /\ p \in Seq(RuleRec)
        /\ \A k \in 1..m : p[k].allow => p[k] \in HeadAllows(plan.template)
        /\ \A k \in (m + 1)..n : p[k] \in WriteAllows(plan)
        /\ \A k \in (n + 1)..Len(p) : p[k] \in Denials
        /\ \A r \in Denials : \E k \in (n + 1)..Len(p) : p[k] = r
  BY ProfileIs
<1> HIDE DEF p
<1>3. DOMAIN p = 1..Len(p) /\ Len(p) \in Nat
  BY <1>2, LenProperties
<1>4. \A k \in (n + 1)..Len(p) : ~p[k].allow
  BY <1>2, DeniesTyped
<1>5. i \in 1..m \/ i \in (m + 1)..n
  BY <1>1, <1>2, <1>3, <1>4
<1>6. ASSUME NEW r \in Denials, Covers(r, op, where)
      PROVE  FALSE
  <2>1. PICK k \in (n + 1)..Len(p) : p[k] = r
    BY <1>2
  <2>2. k \in DOMAIN p /\ k > i
    BY <1>2, <1>3, <1>5
  <2> QED BY <1>1, <1>6, <2>1, <2>2
<1>7. p[i] \in HeadAllows(plan.template) \cup WriteAllows(plan)
  BY <1>1, <1>2, <1>5
<1> QED BY <1>1, <1>6, <1>7

\* Every place that is not denied can be read under every template.
LEMMA ReadPermitted ==
  ASSUME NEW plan, IsPlan(plan), NEW where \in Location, \A r \in Denials : ~Covers(r, "read", where)
  PROVE  Permits(Profile(plan), "read", where)
<1> DEFINE p == Profile(plan)
           t == plan.template
<1>1. PICK m \in Nat, n \in Nat :
        /\ 3 <= m /\ m <= n /\ n <= Len(p) /\ p \in Seq(RuleRec)
        /\ p[2] = Rule(TRUE, {"read"}, Location)
        /\ \A i \in 3..m : "read" \in p[i].ops => Rank(t) >= 6
        /\ Rank(t) >= 6 => p[m] = Rule(TRUE, Operation, Location)
        /\ \A k \in (m + 1)..n : p[k] \in WriteAllows(plan)
        /\ \A k \in (n + 1)..Len(p) : p[k] \in Denials
  BY ProfileIs
<1> HIDE DEF p, t
<1>2. DOMAIN p = 1..Len(p) /\ Len(p) \in Nat
  BY <1>1, LenProperties
<1>3. \A k \in DOMAIN p : k > m => ~Covers(p[k], "read", where)
  <2>1. \A k \in (m + 1)..n : ~Covers(p[k], "read", where)
    BY <1>1, WriteRulesAre DEF Covers
  <2>2. \A k \in (n + 1)..Len(p) : ~Covers(p[k], "read", where)
    BY <1>1
  <2>3. \A k \in DOMAIN p : k > m => k \in (m + 1)..n \/ k \in (n + 1)..Len(p)
    BY <1>1, <1>2
  <2> QED BY <2>1, <2>2, <2>3
<1>4. CASE Rank(t) >= 6
  <2>1. m \in DOMAIN p /\ p[m].allow /\ Covers(p[m], "read", where)
    <3>1. m \in DOMAIN p
      BY <1>1, <1>2
    <3>2. p[m] = Rule(TRUE, Operation, Location)
      BY <1>1, <1>4
    <3> QED BY <3>1, <3>2 DEF Rule, Covers, Operation
  <2> QED BY <2>1, <1>3 DEF Permits, p
<1>5. CASE ~(Rank(t) >= 6)
  <2>1. 2 \in DOMAIN p /\ p[2].allow /\ Covers(p[2], "read", where)
    <3>1. 2 \in DOMAIN p
      BY <1>1, <1>2
    <3> QED BY <3>1, <1>1 DEF Rule, Covers
  <2>2. \A k \in 3..m : ~Covers(p[k], "read", where)
    BY <1>1, <1>5 DEF Covers
  <2>3. \A k \in DOMAIN p : k > 2 => k \in 3..m \/ k > m
    BY <1>1, <1>2
  <2>4. \A k \in DOMAIN p : k > 2 => ~Covers(p[k], "read", where)
    BY <1>3, <2>2, <2>3
  <2> QED BY <2>1, <2>4 DEF Permits, p
<1> QED BY <1>4, <1>5

-------------------------------------------------------------------------------
(* The shield, for every command of one or two parts and any words: the      *)
(* floor finds nothing that the inspection does not, a read-only tag is      *)
(* earned, and a secret is tagged.                                           *)

\* Two sequences of words put together have the words of both.
LEMMA WordsOfConcat ==
  ASSUME NEW S, NEW s \in Seq(S), NEW t \in Seq(S)
  PROVE  ToSet(s \o t) = ToSet(s) \cup ToSet(t)
<1>1. /\ s \o t \in Seq(S) /\ Len(s \o t) = Len(s) + Len(t)
      /\ \A i \in 1..Len(s) + Len(t) : (s \o t)[i] = IF i <= Len(s) THEN s[i] ELSE t[i - Len(s)]
  BY ConcatProperties
<1>2. /\ Len(s) \in Nat /\ Len(t) \in Nat /\ DOMAIN s = 1..Len(s) /\ DOMAIN t = 1..Len(t)
      /\ DOMAIN (s \o t) = 1..Len(s) + Len(t)
  BY <1>1, LenProperties
<1> DEFINE st == s \o t
<1>3. ASSUME NEW i \in DOMAIN st
      PROVE  st[i] \in ToSet(s) \cup ToSet(t)
  <2>1. CASE i <= Len(s)
    <3>1. i \in DOMAIN s /\ st[i] = s[i]
      BY <2>1, <1>1, <1>2
    <3> QED BY <3>1 DEF ToSet
  <2>2. CASE ~(i <= Len(s))
    <3>1. i - Len(s) \in DOMAIN t /\ st[i] = t[i - Len(s)]
      BY <2>2, <1>1, <1>2
    <3> QED BY <3>1 DEF ToSet
  <2> QED BY <2>1, <2>2
<1>4. ASSUME NEW i \in DOMAIN s
      PROVE  s[i] \in ToSet(st)
  <2>1. i \in DOMAIN st /\ st[i] = s[i]
    BY <1>1, <1>2
  <2> QED BY <2>1 DEF ToSet
<1>5. ASSUME NEW i \in DOMAIN t
      PROVE  t[i] \in ToSet(st)
  <2>1. i + Len(s) \in DOMAIN st /\ st[i + Len(s)] = t[i]
    <3>1. i + Len(s) \in 1..Len(s) + Len(t) /\ ~(i + Len(s) <= Len(s)) /\ (i + Len(s)) - Len(s) = i
      BY <1>2
    <3> QED BY <3>1, <1>1, <1>2
  <2> QED BY <2>1 DEF ToSet
<1> HIDE DEF st
<1>6. ToSet(st) = ToSet(s) \cup ToSet(t)
  BY <1>3, <1>4, <1>5 DEF ToSet
<1> QED BY <1>6 DEF st

\* The words of a command's parts, and those that are none of its parts'.
Words(c) == UNION {ToSet(c.parts[i]) : i \in DOMAIN c.parts}
Signs == {"", ">", "f", "&"} \cup ShellToken
Word == STRING \cup Signs

\* A command has one part or two.
LEMMA PartsRange ==
  ASSUME NEW c, IsCommand(c)
  PROVE  DOMAIN c.parts = 1..Len(c.parts) /\ Len(c.parts) \in {1, 2}
<1> DEFINE S == Seq(STRING) \ {<<>>}
<1>1. c.parts \in Seq(S) /\ Len(c.parts) \in {1, 2}
  BY DEF IsCommand
<1> HIDE DEF S
<1> QED BY <1>1, LenProperties

\* A part is a sequence of words that is not empty.
LEMMA PartsAre ==
  ASSUME NEW c, IsCommand(c), NEW i \in DOMAIN c.parts
  PROVE  /\ c.parts[i] \in Seq(Word) /\ Len(c.parts[i]) \in Nat /\ Len(c.parts[i]) >= 1
         /\ DOMAIN c.parts[i] = 1..Len(c.parts[i])
         /\ i \in 1..Len(c.parts)
<1> DEFINE S == Seq(STRING) \ {<<>>}
<1>1. i \in 1..Len(c.parts) /\ c.parts \in Seq(S)
  BY PartsRange DEF IsCommand
<1> HIDE DEF S
<1>2. c.parts[i] \in S
  BY <1>1, ElementOfSeq
<1> USE DEF S
<1>3. Len(c.parts[i]) \in Nat \ {0}
  BY <1>2, EmptySeq
<1>4. c.parts[i] \in Seq(Word)
  BY <1>2, SeqMonotonic DEF Word
<1> QED BY <1>1, <1>3, <1>4, LenProperties

\* The words of a sequence of one word.
LEMMA SetOfOne ==
  ASSUME NEW x
  PROVE  ToSet(<<x>>) = {x}
<1>1. DOMAIN <<x>> = {1} /\ <<x>>[1] = x
  OBVIOUS
<1> DEFINE s == <<x>>
<1> HIDE DEF s
<1>2. DOMAIN s = {1} /\ s[1] = x
  BY <1>1 DEF s
<1>3. ToSet(s) = {x}
  BY <1>2 DEF ToSet
<1> QED BY <1>3 DEF s

\* One word, and two, are sequences of words.
LEMMA SeqOfOne ==
  ASSUME NEW S, NEW x \in S, NEW y \in S
  PROVE  <<x>> \in Seq(S) /\ <<x, y>> \in Seq(S)
OBVIOUS

\* The words of a sequence of two words.
LEMMA SetOfPair ==
  ASSUME NEW x, NEW y
  PROVE  ToSet(<<x, y>>) = {x, y}
<1>1. DOMAIN <<x, y>> = {1, 2} /\ <<x, y>>[1] = x /\ <<x, y>>[2] = y
  OBVIOUS
<1> DEFINE s == <<x, y>>
<1> HIDE DEF s
<1>2. DOMAIN s = {1, 2} /\ s[1] = x /\ s[2] = y
  BY <1>1 DEF s
<1>3. ToSet(s) = {x, y}
  BY <1>2 DEF ToSet
<1> QED BY <1>3 DEF s

\* An ending is the signs it is written with.
LEMMA EndingIs ==
  ASSUME NEW c, IsCommand(c)
  PROVE  /\ Ending(c) \in Seq(Word)
         /\ ToSet(Ending(c)) \subseteq {">", "f", "&"}
         /\ c.ends = ">" => ">" \in ToSet(Ending(c))
         /\ c.ends = "&" => "&" \in ToSet(Ending(c))
         /\ c.ends = "" => Ending(c) = <<>>
<1>1. CASE c.ends = ">"
  <2>1. Ending(c) = <<">", "f">>
    BY <1>1 DEF Ending
  <2>2. <<">", "f">> \in Seq(Word)
    <3>1. \A x \in Word, y \in Word : <<x, y>> \in Seq(Word)
      BY SeqOfOne
    <3>2. ">" \in Word /\ "f" \in Word
      BY DEF Word, Signs
    <3> QED BY <3>1, <3>2, Zenon
  <2>3. ToSet(<<">", "f">>) = {">", "f"}
    BY SetOfPair
  <2> QED BY <1>1, <2>1, <2>2, <2>3
<1>2. CASE c.ends = "&"
  <2>1. Ending(c) = <<"&">>
    BY <1>2 DEF Ending
  <2>2. <<"&">> \in Seq(Word)
    <3>1. \A x \in Word : <<x>> \in Seq(Word)
      BY SeqOfOne
    <3>2. "&" \in Word
      BY DEF Word, Signs
    <3> QED BY <3>1, <3>2, Zenon
  <2>3. ToSet(<<"&">>) = {"&"}
    BY SetOfOne
  <2> QED BY <1>2, <2>1, <2>2, <2>3
<1>3. CASE c.ends = ""
  <2>1. Ending(c) = <<>>
    BY <1>3 DEF Ending
  <2>2. <<>> \in Seq(Word) /\ ToSet(<<>>) = {}
    BY DEF ToSet
  <2> QED BY <1>3, <2>1, <2>2
<1> QED BY <1>1, <1>2, <1>3 DEF IsCommand

\* The raw command has the words of its parts and some signs, and begins with
\* the head of its first part.
LEMMA RawIs ==
  ASSUME NEW c, IsCommand(c)
  PROVE  /\ Raw(c) \in Seq(Word)
         /\ Words(c) \subseteq ToSet(Raw(c)) /\ ToSet(Raw(c)) \subseteq Words(c) \cup Signs
         /\ ToSet(Ending(c)) \subseteq ToSet(Raw(c))
         /\ DOMAIN c.parts = 1..Len(c.parts)
         /\ Len(c.parts) = 1 => Raw(c) = c.parts[1] \o Ending(c)
<1>1. DOMAIN c.parts = 1..Len(c.parts) /\ Len(c.parts) \in {1, 2}
  BY PartsRange
<1>2. c.joint \in Word /\ c.joint \in Signs
  BY DEF IsCommand, ShellToken, Signs, Word
<1> DEFINE j == <<c.joint>>
<1>3. j \in Seq(Word) /\ ToSet(j) = {c.joint}
  <2>1. \A x \in Word : <<x>> \in Seq(Word)
    BY SeqOfOne
  <2> QED BY <1>2, <2>1, SetOfOne, Zenon
<1>4. Ending(c) \in Seq(Word) /\ ToSet(Ending(c)) \subseteq Signs
  BY EndingIs DEF Signs
<1> HIDE DEF j
<1>5. CASE Len(c.parts) = 1
  <2>1. DOMAIN c.parts = {1} /\ 1 \in DOMAIN c.parts
    BY <1>1, <1>5
  <2>2. c.parts[1] \in Seq(Word)
    BY <2>1, PartsAre
  <2>3. Words(c) = ToSet(c.parts[1])
    BY <2>1 DEF Words
  <2>4. Raw(c) = c.parts[1] \o Ending(c)
    BY <1>5 DEF Raw
  <2>5. Raw(c) \in Seq(Word)
    BY <2>2, <2>4, <1>4, ConcatProperties
  <2>6. ToSet(Raw(c)) = ToSet(c.parts[1]) \cup ToSet(Ending(c))
    BY <2>2, <2>4, <1>4, WordsOfConcat
  <2> QED BY <1>1, <1>4, <2>3, <2>4, <2>5, <2>6
<1>6. CASE Len(c.parts) = 2
  <2>1. DOMAIN c.parts = {1, 2} /\ 1 \in DOMAIN c.parts /\ 2 \in DOMAIN c.parts
    BY <1>1, <1>6
  <2> DEFINE p == c.parts[1]
             q == c.parts[2]
             e == Ending(c)
  <2>2. p \in Seq(Word) /\ q \in Seq(Word)
    BY <2>1, PartsAre
  <2>3. Words(c) = ToSet(p) \cup ToSet(q)
    BY <2>1 DEF Words
  <2>4. Raw(c) = ((p \o j) \o q) \o e
    BY <1>6 DEF Raw, j
  <2> HIDE DEF p, q, e
  <2>5. p \o j \in Seq(Word)
    BY <2>2, <1>3, ConcatProperties
  <2>6. (p \o j) \o q \in Seq(Word)
    BY <2>2, <2>5, ConcatProperties
  <2>7. e \in Seq(Word) /\ ToSet(e) \subseteq Signs
    BY <1>4 DEF e
  <2>8. Raw(c) \in Seq(Word)
    BY <2>4, <2>6, <2>7, ConcatProperties
  <2>9. ToSet(p \o j) = ToSet(p) \cup {c.joint}
    <3>1. ToSet(p \o j) = ToSet(p) \cup ToSet(j)
      BY ZenonT(30), <2>2, <1>3, WordsOfConcat
    <3> QED BY ONLY <3>1, <1>3
  <2>10. ToSet((p \o j) \o q) = ToSet(p \o j) \cup ToSet(q)
    BY ZenonT(30), <2>2, <2>5, WordsOfConcat
  <2>11. ToSet(Raw(c)) = ToSet((p \o j) \o q) \cup ToSet(e)
    BY ZenonT(30), <2>4, <2>6, <2>7, WordsOfConcat
  <2>12. ToSet(Raw(c)) = ToSet(p) \cup {c.joint} \cup ToSet(q) \cup ToSet(e)
    BY ONLY <2>9, <2>10, <2>11
  <2> QED BY <1>1, <1>2, <1>6, <2>3, <2>7, <2>8, <2>12 DEF e
<1> QED BY <1>1, <1>5, <1>6

\* Word by word, a level of quotes is taken away.
LEMMA ShlexIs ==
  ASSUME NEW ws \in Seq(Word)
  PROVE  /\ DOMAIN Shlex(ws) = 1..Len(ws) /\ Len(ws) \in Nat
         /\ \A i \in 1..Len(ws) : Shlex(ws)[i] = Unquote(ws[i])
         /\ Len(Shlex(ws)) = Len(ws)
         /\ ToSet(Shlex(ws)) = {Unquote(w) : w \in ToSet(ws)}
<1>1. DOMAIN ws = 1..Len(ws) /\ Len(ws) \in Nat
  BY LenProperties
<1>2. DOMAIN Shlex(ws) = 1..Len(ws) /\ \A i \in 1..Len(ws) : Shlex(ws)[i] = Unquote(ws[i])
  BY <1>1 DEF Shlex
<1>3. Len(Shlex(ws)) = Len(ws)
  BY <1>1 DEF Shlex
<1>4. ToSet(Shlex(ws)) = {Unquote(w) : w \in ToSet(ws)}
  BY <1>1, <1>2 DEF ToSet
<1> QED BY <1>1, <1>2, <1>3, <1>4

\* The normal form of a command has the words of the command, with or without that level.
LEMMA NormalIs ==
  ASSUME NEW c, IsCommand(c)
  PROVE  /\ c.grammar \in {"broken", "remark"} => ToSet(Normal(c)) = ToSet(Raw(c))
         /\ c.grammar \notin {"broken", "remark"} =>
              ToSet(Normal(c)) = {Unquote(w) : w \in ToSet(Raw(c))}
BY RawIs, ShlexIs DEF Normal

\* What bashlex makes of a part: a substitution stays one, and without one every word
\* loses its level of quotes.
LEMMA ParsedIs ==
  ASSUME NEW ws \in Seq(Word)
  PROVE  /\ "$(" \in ToSet(ws) => "$(" \in ToSet(Parsed(ws))
         /\ "$(" \notin ToSet(ws) => Parsed(ws) = Shlex(ws)
<1>1. DOMAIN ws = 1..Len(ws) /\ Len(ws) \in Nat
  BY LenProperties
<1>2. DOMAIN Parsed(ws) = DOMAIN ws
      /\ \A i \in DOMAIN ws : Parsed(ws)[i] = IF Inside(ws, i) THEN ws[i] ELSE Unquote(ws[i])
  BY DEF Parsed
<1>3. ASSUME "$(" \in ToSet(ws)
      PROVE  "$(" \in ToSet(Parsed(ws))
  <2>1. PICK i \in DOMAIN ws : ws[i] = "$("
    BY <1>3 DEF ToSet
  <2>2. Unquote("$(") = "$("
    BY DEF Unquote
  <2>3. Parsed(ws)[i] = "$("
    BY <1>2, <2>1, <2>2
  <2> QED BY <1>2, <2>1, <2>3 DEF ToSet
<1>4. ASSUME "$(" \notin ToSet(ws)
      PROVE  Parsed(ws) = Shlex(ws)
  <2>1. \A i \in DOMAIN ws : ~Inside(ws, i)
    BY <1>1, <1>4 DEF Inside, ToSet
  <2> QED BY <2>1 DEF Parsed, Shlex
<1> QED BY <1>3, <1>4

\* What the unanchored expressions see is a matter of the words alone.
LEMMA TextIs ==
  ASSUME NEW ws
  PROVE  Text(ws) = UNION {ToSet(Inner(w)) : w \in ToSet(ws)}
BY DEF Text, ToSet

\* What an expression finds in one word is what is in the quotes of it.
LEMMA TextOfOne ==
  ASSUME NEW w
  PROVE  Text(<<w>>) = ToSet(Inner(w))
<1>1. Text(<<w>>) = UNION {ToSet(Inner(v)) : v \in ToSet(<<w>>)}
  BY TextIs
<1>2. ToSet(<<w>>) = {w}
  BY SetOfOne
<1> QED BY <1>1, <1>2

\* The words that a pattern or a rule can find in quotes.
LEMMA InnerIs ==
  /\ "wipe" \in ToSet(Inner("wipe"))
  /\ "security" \in ToSet(Inner("security"))
  /\ "security" \in ToSet(Inner("'security f'"))
  /\ \A w : "wipe" \in ToSet(Inner(w)) => w = "wipe"
<1>1. Inner("wipe") = <<"wipe">> /\ Inner("security") = <<"security">>
  BY DEF Inner
<1>2. Inner("'security f'") = <<"security", "f">>
  BY DEF Inner
<1>3. ASSUME NEW w, "wipe" \in ToSet(Inner(w))
      PROVE  w = "wipe"
  <2>1. CASE w = "'cat f'"
    <3>1. ToSet(Inner(w)) = {"cat", "f"}
      BY <2>1, SetOfPair DEF Inner
    <3> QED BY <3>1, <1>3
  <2>2. CASE w = "'security f'"
    <3>1. ToSet(Inner(w)) = {"security", "f"}
      BY <2>2, SetOfPair DEF Inner
    <3> QED BY <3>1, <1>3
  <2>6. CASE w = "'s'ecurity f'"
    <3>1. ToSet(Inner(w)) = {"s'ecurity", "f"}
      BY <2>6, SetOfPair DEF Inner
    <3> QED BY <3>1, <1>3
  <2>3. CASE w = "'source f'"
    <3>1. ToSet(Inner(w)) = {"source", "f"}
      BY <2>3, SetOfPair DEF Inner
    <3> QED BY <3>1, <1>3
  <2>4. CASE w = "'eval f'"
    <3>1. ToSet(Inner(w)) = {"eval", "f"}
      BY <2>4, SetOfPair DEF Inner
    <3> QED BY <3>1, <1>3
  <2>5. CASE w \notin {"'cat f'", "'security f'", "'s'ecurity f'", "'source f'", "'eval f'"}
    <3>1. Inner(w) = <<w>>
      BY <2>5 DEF Inner
    <3>2. ToSet(Inner(w)) = {w}
      BY <3>1, SetOfOne
    <3> QED BY <3>2, <1>3
  <2> QED BY <2>1, <2>2, <2>3, <2>4, <2>5, <2>6
<1>4. ToSet(<<"wipe">>) = {"wipe"} /\ ToSet(<<"security">>) = {"security"}
  BY SetOfOne
<1>5. ToSet(<<"security", "f">>) = {"security", "f"}
  BY SetOfPair
<1>6. "wipe" \in ToSet(Inner("wipe"))
  BY <1>1, <1>4, Zenon
<1>7. "security" \in ToSet(Inner("security"))
  BY <1>1, <1>4, Zenon
<1>8. "security" \in ToSet(Inner("'security f'"))
  BY <1>2, <1>5, Zenon
<1> QED BY <1>3, <1>6, <1>7, <1>8

\* The floor: what quick_check refuses in the executor, inspect_command has found in the
\* guardian, though the two split a command each in its own way; but for a substitution
\* and a word with an apostrophe, where their splits see different texts.
THEOREM QuickIsFound ==
  ASSUME NEW c, IsCommand(c), Quick(c), ~Apart(c)
  PROVE  FoundCatastrophic(c)
<1> DEFINE n == Normal(c)
           d == Decompose(c)
<1> SUFFICES ASSUME ~Catastrophic(n), ~Catastrophic(Raw(c))
             PROVE  \/ \E s \in d.subs : Catastrophic(Normalize(s))
                    \/ \E p \in d.payloads : PayloadIsCatastrophic(p)
  BY DEF FoundCatastrophic
<1>1. PICK p \in AdjacentPayloads(n) : PayloadIsCatastrophic(p)
  BY DEF Quick
<1>2. CASE c.grammar \notin {"parsed", "remark"}
  BY <1>1, <1>2 DEF Decompose
<1>3. CASE c.grammar \in {"parsed", "remark"}
  <2>1. Raw(c) \in Seq(Word) /\ n \in {Raw(c), Shlex(Raw(c))}
    BY <1>3, RawIs DEF Normal
  <2>2. DOMAIN n = 1..Len(n) /\ Len(n) \in Nat
    BY <2>1, ShlexIs, LenProperties
  <2> HIDE DEF n
  <2>3. PICK i \in 1..(Len(n) - 2) : p = n[i + 2]
    BY <1>1 DEF AdjacentPayloads
  <2>4. i + 2 \in DOMAIN n
    BY <2>2
  <2>5. p \in ToSet(n)
    BY <2>3, <2>4 DEF ToSet
  <2>6. "wipe" \in ToSet(Inner(p)) => "wipe" \in Text(n)
    BY <2>5, TextIs
  <2>7. p # "wipe"
    BY <2>6, InnerIs DEF Catastrophic
  <2>8. Unquote(p) = "wipe"
    <3>1. Text(<<p>>) = ToSet(Inner(p)) /\ Text(<<Unquote(p)>>) = ToSet(Inner(Unquote(p)))
      BY TextOfOne
    <3> QED BY <1>1, <2>7, <3>1, InnerIs DEF PayloadIsCatastrophic, Catastrophic
  <2>9. PICK w \in ToSet(Raw(c)) : p = Unquote(w) \/ p = w
    <3>1. ToSet(n) = ToSet(Raw(c)) \/ ToSet(n) = {Unquote(w) : w \in ToSet(Raw(c))}
      BY NormalIs DEF n
    <3> QED BY <2>5, <3>1
  <2>10. w \notin Signs
    BY <2>7, <2>8, <2>9 DEF Unquote, Signs, ShellToken
  <2>11. PICK k \in DOMAIN c.parts : w \in ToSet(c.parts[k])
    BY <2>9, <2>10, RawIs DEF Words
  <2> DEFINE s == Shlex(c.parts[k])
  <2>12. c.parts[k] \in Seq(Word)
    BY PartsAre
  <2>13. s \in d.subs
    <3>1. Parsed(c.parts[k]) = s
      BY <2>12, ParsedIs DEF Apart
    <3>2. d.subs = {Parsed(c.parts[m]) : m \in DOMAIN c.parts}
      BY <1>3 DEF Decompose
    <3> QED BY <3>1, <3>2
  <2>14. /\ DOMAIN s = 1..Len(c.parts[k])
         /\ ToSet(s) = {Unquote(v) : v \in ToSet(c.parts[k])}
    BY <2>12, ShlexIs
  <2> HIDE DEF s
  <2>15. Unquote(w) \in ToSet(s) /\ Unquote(Unquote(w)) = "wipe"
    <3>1. Unquote("wipe") = "wipe"
      BY DEF Unquote
    <3> QED BY <2>8, <2>9, <2>11, <2>14, <3>1
  <2>16. "wipe" \in ToSet(Shlex(s))
    <3>1. PICK j \in DOMAIN s : s[j] = Unquote(w)
      BY <2>15 DEF ToSet
    <3>2. DOMAIN Shlex(s) = DOMAIN s /\ Shlex(s)[j] = Unquote(s[j])
      BY <3>1 DEF Shlex
    <3>3. j \in DOMAIN Shlex(s) /\ Shlex(s)[j] = "wipe"
      BY <3>1, <3>2, <2>15
    <3> QED BY <3>3 DEF ToSet
  <2>17. Normalize(s) = Shlex(s)
    <3>1. \A v : Unquote(v) = "it's" => v \in {"'it's'", "it's"}
      BY DEF Unquote
    <3>2. "it's" \notin ToSet(c.parts[k]) /\ "'it's'" \notin ToSet(c.parts[k])
      BY <1>3 DEF IsCommand, Apart
    <3>3. "it's" \notin ToSet(s)
      BY <2>14, <3>1, <3>2
    <3> QED BY <3>3 DEF Normalize
  <2>18. Catastrophic(Normalize(s))
    BY <2>16, <2>17, TextIs, InnerIs DEF Catastrophic
  <2> QED BY <2>13, <2>18
<1> QED BY <1>2, <1>3

\* No rule but the read-only ones gives a read-only tag.
LEMMA RuleTagsAre ==
  ASSUME NEW ws, NEW t \in RuleTags(ws)
  PROVE  t[1] # "read_only"
<1>1. CASE \E w \in Text(ws) : t \in WordTag(w)
  BY <1>1 DEF WordTag
<1>2. CASE t \in PipeTags(ws)
  BY <1>2 DEF PipeTags
<1>3. CASE t \in ScriptTags(ws)
  BY <1>3 DEF ScriptTags
<1>4. CASE t \in EndTags(ws)
  BY <1>4 DEF EndTags
<1> QED BY <1>1, <1>2, <1>3, <1>4 DEF RuleTags

\* Nor does anything that the loop over the rules emits.
LEMMA EmittedAre ==
  ASSUME NEW c, NEW t \in Emitted(c)
  PROVE  t[1] # "read_only"
BY RuleTagsAre DEF Emitted

\* So a read-only tag is from the bare rule or from the composition.
LEMMA ReadOnlyIsEarned ==
  ASSUME NEW c, \E t \in Capabilities(c) : t[1] = "read_only"
  PROVE  \/ SafeForReadOnly(c) /\ ReadOnlyRule(Normal(c))
         \/ CompositionReadOnly(c)
<1>1. PICK t \in Capabilities(c) : t[1] = "read_only"
  OBVIOUS
<1>2. t \notin Emitted(c)
  BY <1>1, EmittedAre
<1>3. t \notin ProbeTags(c)
  BY <1>1 DEF ProbeTags
<1>4. t \in ReadOnlyTags(c)
  BY <1>1, <1>2, <1>3 DEF Capabilities
<1> QED BY <1>4 DEF ReadOnlyTags

\* A head that is trusted is one of two spellings of the reader.
LEMMA ReadersHead ==
  ASSUME NEW ws, TrustedHead(ws)[1] = "cat"
  PROVE  ws[1] \in {"cat", "/bin/cat"}
BY DEF TrustedHead

\* A part that a reader heads does nothing but read.
LEMMA PartReads ==
  ASSUME NEW ws \in Seq(Word), Shlex(ws)[1] \in {"cat", "/bin/cat", "cd"},
         ToSet(Shlex(ws)) \cap {"$(c)", "$("} = {}, "f>g" \notin ToSet(ws)
  PROVE  Runs(ws) \subseteq {"read"}
<1> DEFINE u == Shlex(ws)
<1>1. "f>g" \notin ToSet(u)
  <2>1. ToSet(u) = {Unquote(w) : w \in ToSet(ws)}
    BY ShlexIs
  <2>2. \A w : Unquote(w) = "f>g" => w = "f>g"
    BY DEF Unquote
  <2> QED BY <2>1, <2>2
<1>2. u[1] # "bash" /\ Deed(u[1]) \subseteq {"read"}
  BY DEF Deed
<1>3. {i \in DOMAIN u : u[i] = "$(" /\ i < Len(ws)} = {}
  BY DEF ToSet
<1>4. RunsAt(u, 1) \subseteq {"read"}
  BY <1>2 DEF RunsAt
<1> QED BY <1>1, <1>3, <1>4 DEF Runs

\* A word without quotes is in the normal form as it is in the command.
LEMMA SignsStay ==
  ASSUME NEW c, IsCommand(c), NEW w, w \in ToSet(Raw(c)), Unquote(w) = w
  PROVE  w \in ToSet(Normal(c))
BY NormalIs

\* The signs of a command have no quotes to lose, nor have the words of secrets.
LEMMA SignsAreThemselves ==
  Unquote(">") = ">" /\ Unquote("&") = "&" /\ Unquote("$(") = "$(" /\ Unquote("security") = "security"
  /\ Unquote("'security f'") = "'security f'"
BY DEF Unquote

\* A read-only tag is earned (_safe_for_read_only, _composition_is_all_read_only): what
\* carries one does nothing but read, but for a redirection glued to its word.
THEOREM ReadOnlyReads ==
  ASSUME NEW c, IsCommand(c), ~Glued(c), \E t \in Capabilities(c) : t[1] = "read_only"
  PROVE  Effects(c) \subseteq {"read"}
<1> DEFINE n == Normal(c)
           d == Decompose(c)
<1>0. DOMAIN c.parts = 1..Len(c.parts) /\ Len(c.parts) \in {1, 2}
  BY PartsRange
<1>1. ASSUME ~Undecided(d)
      PROVE  /\ c.grammar \in {"parsed", "remark"} /\ d.count = Len(c.parts)
             /\ \A i \in DOMAIN c.parts : /\ Shlex(c.parts[i]) \in d.subs
                                          /\ ToSet(Shlex(c.parts[i])) \cap {"$(c)", "$("} = {}
  <2>1. c.grammar \in {"parsed", "remark"}
    BY <1>1 DEF Undecided, Decompose
  <2>2. d.count = Len(c.parts)
    BY <2>1 DEF Decompose
  <2>3. d.subs = {Parsed(c.parts[i]) : i \in DOMAIN c.parts}
    BY <2>1 DEF Decompose
  <2>4. d.dynamic = \E s \in {Parsed(c.parts[i]) : i \in DOMAIN c.parts} :
                      ToSet(s) \cap {"$v", "$(c)", "$("} # {}
    BY <2>1 DEF Decompose
  <2>5. ASSUME NEW i \in DOMAIN c.parts
        PROVE  Shlex(c.parts[i]) \in d.subs /\ ToSet(Shlex(c.parts[i])) \cap {"$(c)", "$("} = {}
    <3>1. Parsed(c.parts[i]) \in d.subs /\ ToSet(Parsed(c.parts[i])) \cap {"$v", "$(c)", "$("} = {}
      BY <1>1, <2>3, <2>4 DEF Undecided
    <3>2. Parsed(c.parts[i]) = Shlex(c.parts[i])
      BY <3>1, PartsAre, ParsedIs
    <3> QED BY <3>1, <3>2
  <2> QED BY <2>1, <2>2, <2>5
<1>2. ASSUME ">" \notin ToSet(n)
      PROVE  c.ends # ">"
  BY <1>2, RawIs, EndingIs, SignsStay, SignsAreThemselves
<1>3. ASSUME "&" \notin ToSet(n)
      PROVE  c.ends # "&"
  BY <1>3, RawIs, EndingIs, SignsStay, SignsAreThemselves
<1>4. ASSUME ~Undecided(d), c.ends # ">",
             \A i \in DOMAIN c.parts : Shlex(c.parts[i])[1] \in {"cat", "/bin/cat", "cd"}
      PROVE  Effects(c) \subseteq {"read"}
  <2>1. ASSUME NEW i \in DOMAIN c.parts
        PROVE  Runs(c.parts[i]) \subseteq {"read"}
    <3>1. c.parts[i] \in Seq(Word)
      BY PartsAre
    <3>2. "f>g" \notin ToSet(c.parts[i])
      BY DEF Glued
    <3> QED BY <1>1, <1>4, <3>1, <3>2, PartReads
  <2> QED BY <1>4, <2>1 DEF Effects
<1>5. CASE SafeForReadOnly(c) /\ ReadOnlyRule(n)
  <2>1. ~Undecided(d) /\ d.count = 1 /\ Splits(c) /\ ToSet(n) \cap ShellToken = {}
    BY <1>5 DEF SafeForReadOnly, StructurallyBare
  <2>2. c.ends = "" /\ c.ends # ">"
    BY <2>1, <1>2, <1>3 DEF ShellToken, IsCommand
  <2>3. Len(c.parts) = 1 /\ c.grammar \notin {"broken", "remark"}
    BY <2>1, <1>1 DEF Splits
  <2>4. 1 \in DOMAIN c.parts /\ DOMAIN c.parts = {1}
    BY <2>3, <1>0
  <2>5. c.parts[1] \in Seq(Word)
    BY <2>4, PartsAre
  <2>6. Raw(c) = c.parts[1] \o <<>>
    BY <2>2, <2>3, RawIs, EndingIs
  <2>7. Raw(c) = c.parts[1]
    BY <2>5, <2>6, ConcatEmptySeq
  <2>8. n = Shlex(c.parts[1])
    BY <2>3, <2>7 DEF Normal
  <2>9. n[1] \in {"cat", "/bin/cat"}
    BY <1>5, ReadersHead DEF ReadOnlyRule
  <2> QED BY <2>1, <2>2, <2>4, <2>8, <2>9, <1>4
<1>6. CASE CompositionReadOnly(c)
  <2>1. /\ ~Undecided(d) /\ ToSet(n) \cap (ShellToken \ Joiner) = {}
        /\ \A s \in d.subs : IsSafeCd(s) \/ SubCommandMatches(s)
    BY <1>6 DEF CompositionReadOnly
  <2>2. c.ends # ">"
    BY <2>1, <1>2 DEF ShellToken, Joiner
  <2>3. ASSUME NEW i \in DOMAIN c.parts
        PROVE  Shlex(c.parts[i])[1] \in {"cat", "/bin/cat", "cd"}
    <3>1. CASE IsSafeCd(Shlex(c.parts[i]))
      BY <3>1 DEF IsSafeCd
    <3>2. CASE SubCommandMatches(Shlex(c.parts[i]))
      BY <3>2, ReadersHead DEF SubCommandMatches, ReadOnlyRule
    <3> QED BY <3>1, <3>2, <2>1, <1>1
  <2> QED BY <2>1, <2>2, <2>3, <1>4
<1> QED BY <1>5, <1>6, ReadOnlyIsEarned

\* The body of an interpreter is a word of the command.
LEMMA BodyIsWord ==
  ASSUME NEW ws, Len(ws) \in Nat, NEW i \in Nat \ {0}, InlineBody(ws, i) # 0
  PROVE  InlineBody(ws, i) \in 1..Len(ws)
<1> DEFINE at == {j \in (i + 1)..(Len(ws) - 1) :
                    ws[j] \in InlineFlag /\ \A k \in (i + 1)..(j - 1) : ws[k] \in Flag \ InlineFlag}
<1>1. InlineBody(ws, i) = IF at = {} THEN 0 ELSE Min(at) + 1
  BY DEF InlineBody
<1>2. PICK j \in at : TRUE
  BY <1>1
<1>3. ASSUME NEW k \in at
      PROVE  k = j
  <2>1. CASE k < j
    BY <2>1, <1>2, <1>3
  <2>2. CASE j < k
    BY <2>2, <1>2, <1>3
  <2> QED BY <2>1, <2>2, <1>2, <1>3
<1>4. at = {j}
  BY <1>2, <1>3
<1>5. j \in 2..(Len(ws) - 1)
  BY <1>2
<1>6. InlineBody(ws, i) = Min(at) + 1
  BY <1>1, <1>2
<1> HIDE DEF at
<1>7. Min({j}) = j
  BY <1>5 DEF Min
<1> QED BY <1>4, <1>5, <1>6, <1>7

\* classify_capabilities: a command that reads a secret, by itself, behind a joint, in a
\* substitution or in the text it gives a shell, has the tag that says so, unless it is
\* quoted within that text, which the rules read as it stands.
THEOREM SecretIsTagged ==
  ASSUME NEW c, IsCommand(c), ~Veiled(c), "secret" \in Effects(c)
  PROVE  <<"data_read", "credential_material">> \in Capabilities(c)
<1>1. c.grammar # "broken" /\ \E i \in DOMAIN c.parts : "secret" \in Runs(c.parts[i])
  BY DEF Effects
<1> PICK i \in DOMAIN c.parts : "secret" \in Runs(c.parts[i])
  BY <1>1
<1> DEFINE p == c.parts[i]
           u == Shlex(p)
<1>2. p \in Seq(Word) /\ Len(p) \in Nat /\ Len(p) >= 1
  BY PartsAre
<1>3. DOMAIN u = 1..Len(p) /\ Len(u) = Len(p) /\ ToSet(u) = {Unquote(w) : w \in ToSet(p)}
  BY <1>2, ShlexIs
<1>4. \A w : "secret" \in Deed(w) => w = "security"
  BY DEF Deed
<1>5. \A w : Unquote(w) = "security" => w \in {"security", "s'ecurity"}
  BY DEF Unquote
<1>6. \A w : /\ Inner(w)[1] = "security" => w \in {"security", "'security f'"}
             /\ Inner(w)[1] \in ToSet(Inner(w))
  <2>1. \A w : Len(Inner(w)) >= 1 /\ 1 \in DOMAIN Inner(w)
    BY DEF Inner
  <2> QED BY <2>1 DEF Inner, ToSet
<1>7. ASSUME NEW k \in 1..Len(p), "secret" \in RunsAt(u, k)
      PROVE  \E v \in {"security", "'security f'"} : v \in ToSet(u)
  <2>1. CASE "secret" \in Deed(u[k])
    <3>1. u[k] = "security"
      BY <2>1, <1>4
    <3> QED BY <3>1, <1>3 DEF ToSet
  <2>2. CASE InlineBody(u, k) # 0 /\ "secret" \in Deed(Unquote(Inner(u[InlineBody(u, k)])[1]))
    <3> DEFINE b == u[InlineBody(u, k)]
    <3>1. InlineBody(u, k) \in DOMAIN u
      BY <2>2, <1>2, <1>3, BodyIsWord
    <3>2. b \in ToSet(u)
      BY <3>1 DEF ToSet
    <3> HIDE DEF b
    <3>3. PICK w \in ToSet(p) : b = Unquote(w)
      BY <3>2, <1>3
    <3>4. Unquote(Inner(b)[1]) = Inner(b)[1]
      BY <3>3, <1>6 DEF Veiled
    <3>5. Inner(b)[1] = "security"
      BY <2>2, <3>4, <1>4 DEF b
    <3> QED BY <3>2, <3>5, <1>6
  <2> QED BY <1>7, <2>1, <2>2 DEF RunsAt
<1>8. \E v \in {"security", "'security f'"} : v \in ToSet(u)
  <2>1. "secret" \in RunsAt(u, 1) \/ \E k \in DOMAIN u : k < Len(p) /\ "secret" \in RunsAt(u, k + 1)
    BY DEF Runs
  <2>2. PICK k \in 1..Len(p) : "secret" \in RunsAt(u, k)
    <3>1. 1 \in 1..Len(p)
      BY <1>2
    <3>2. \A k \in DOMAIN u : k < Len(p) => k + 1 \in 1..Len(p)
      BY <1>2, <1>3
    <3> HIDE DEF u
    <3> QED BY <2>1, <3>1, <3>2
  <2> HIDE DEF u
  <2> QED BY <2>2, <1>7
<1>9. PICK v \in {"security", "'security f'"} : v \in ToSet(u)
  BY <1>8
<1> HIDE DEF u
<1>10. "security" \in ToSet(Inner(v))
  BY InnerIs
<1>11. PICK w \in ToSet(p) : v = Unquote(w)
  BY <1>9, <1>3
<1>12. <<"data_read", "credential_material">> \in WordTag("security")
  BY DEF WordTag
<1>13. CASE c.grammar # "remark"
  <2>1. w \in ToSet(Raw(c))
    BY <1>11, RawIs DEF Words
  <2>2. v \in ToSet(Normal(c))
    BY <1>1, <1>11, <1>13, <2>1, NormalIs
  <2>3. "security" \in Text(Normal(c))
    BY <1>10, <2>2, TextIs
  <2>4. <<"data_read", "credential_material">> \in RuleTags(Normal(c))
    BY <1>12, <2>3 DEF RuleTags
  <2> QED BY <2>4 DEF Emitted, Capabilities
<1>14. CASE c.grammar = "remark"
  <2>1. Parsed(p) = u
    BY <1>2, <1>14, ParsedIs DEF Veiled, u
  <2>2. u \in Decompose(c).subs
    BY <1>14, <2>1 DEF Decompose
  <2>3. "security" \in Text(u)
    BY <1>9, <1>10, TextIs
  <2>4. <<"data_read", "credential_material">> \in RuleTags(u)
    BY <1>12, <2>3 DEF RuleTags
  <2> QED BY <2>2, <2>4 DEF Emitted, Capabilities
<1> QED BY <1>13, <1>14

-------------------------------------------------------------------------------
(* A command from the bundle to its process.  The two inspections are apart, *)
(* the one before the constraints and the one before the process; the        *)
(* invariant carries from the first to the second what it has found out.     *)

\* What an inspection says of any command.
LEMMA InspectIs ==
  ASSUME NEW c, IsCommand(c)
  PROVE  LET r == Inspect(c) IN
         /\ r.verdict \in {"SAFE", "NEEDS_REVIEW", "CATASTROPHIC"}
         /\ r.edges \in BOOLEAN /\ r.found \in BOOLEAN
         /\ r.caps # {} => r.caps = Capabilities(c)
         /\ r.verdict # "CATASTROPHIC" /\ c.size # "large" => r.caps = Capabilities(c)
         /\ Quick(c) /\ ~Apart(c) => r.verdict = "CATASTROPHIC"
<1>1. FinalVerdict(c) \in {"SAFE", "NEEDS_REVIEW"}
  BY DEF FinalVerdict
<1>2. CASE c.size = "large"
  <2>1. Inspect(c) = Report("SAFE", {}, FALSE, FALSE)
    BY <1>2 DEF Inspect
  <2>2. ~Quick(c)
    BY <1>2 DEF Quick
  <2> QED BY <2>1, <2>2, <1>2 DEF Report
<1>3. CASE c.size # "large" /\ FoundCatastrophic(c)
  <2>1. Inspect(c) = Report("CATASTROPHIC", {}, FALSE, FALSE)
    BY <1>3 DEF Inspect
  <2> QED BY <2>1 DEF Report
<1>4. CASE c.size # "large" /\ ~FoundCatastrophic(c)
  <2>1. Inspect(c) = Report(FinalVerdict(c), Capabilities(c), AllEdges(c) # {}, Findings(c) # {})
    BY <1>4 DEF Inspect
  <2>2. ~(Quick(c) /\ ~Apart(c))
    BY <1>4, QuickIsFound
  <2>3. Inspect(c).verdict = FinalVerdict(c) /\ Inspect(c).caps = Capabilities(c)
    BY <2>1 DEF Report
  <2>4. Inspect(c).edges = (AllEdges(c) # {}) /\ Inspect(c).found = (Findings(c) # {})
    BY <2>1 DEF Report
  <2>5. Inspect(c).edges \in BOOLEAN
    BY <2>4, Zenon
  <2>6. Inspect(c).found \in BOOLEAN
    BY <2>4, Zenon
  <2> QED BY <1>1, <2>2, <2>3, <2>5, <2>6
<1> QED BY <1>2, <1>3, <1>4

\* A configuration of the executor gives a plan the profile can be made of.
LEMMA SetupGivesPlan ==
  ASSUME NEW cfg, IsSetup(cfg), NEW w \in Location \cup {"/"}
  PROVE  IsPlan(Plan(cfg, w))
<1>1. Template(cfg.allowed) \in ToSet(Order)
  BY TemplateIs DEF IsSetup
<1>2. IsFiniteSet(cfg.writes \cup {w})
  BY FS_AddElement DEF IsSetup
<1> QED BY <1>1, <1>2 DEF IsPlan, Plan, IsSetup

\* generate_sandbox_profile, for any configuration and working directory: what the profile
\* permits lies in the scope of the template and in no place that is denied.
THEOREM PermittedInScope ==
  ASSUME NEW cfg, IsSetup(cfg), NEW w \in Location \cup {"/"}, NEW op, NEW where,
         Permits(Profile(Plan(cfg, w)), op, where)
  PROVE  LET t == Template(cfg.allowed) IN
         /\ where \in DenyAccess => op \notin {"read", "write"}
         /\ where \in DenyWrite => op # "write"
         /\ op \in Grants(t) \/ op = "read" \/ (op = "write" /\ where = "/tmp/intentframe")
         /\ op = "write" /\ t # "unrestricted" =>
              where = "/tmp/intentframe" \/ \E p \in cfg.writes \cup {w} : where \in Below(p)
<1> DEFINE plan == Plan(cfg, w)
           t == Template(cfg.allowed)
<1>1. IsPlan(plan) /\ plan.template = t /\ plan.writes = cfg.writes \cup {w}
  BY SetupGivesPlan DEF Plan
<1>2. t \in ToSet(Order)
  BY <1>1 DEF IsPlan
<1>3. Rank(t) \in 1..6 /\ (Rank(t) = 6 => t = "unrestricted")
  BY <1>2, RankOfTemplate
<1> HIDE DEF plan, t
<1>4. /\ \A r \in Denials : ~Covers(r, op, where)
      /\ \E r \in HeadAllows(t) \cup WriteAllows(plan) : Covers(r, op, where)
  <2>1. Permits(Profile(plan), op, where)
    BY DEF plan
  <2> QED BY <2>1, <1>1, PermitsWithin
<1>5. ASSUME NEW i \in 1..6, i <= Rank(t)
      PROVE  (CASE i = 1 -> {} [] i = 2 -> {"read"} [] i = 3 -> {"write"} [] i = 4 -> {"outbound"}
                [] i = 5 -> {"bind"} [] i = 6 -> {"signal"}) \subseteq Grants(t)
  <2>1. i \in 1..Rank(t)
    BY <1>3, <1>5
  <2> QED BY <2>1 DEF Grants
<1>6. /\ Rank(t) >= 2 => "read" \in Grants(t)
      /\ Rank(t) >= 3 => "write" \in Grants(t)
      /\ Rank(t) >= 4 => "outbound" \in Grants(t)
      /\ Rank(t) >= 5 => "bind" \in Grants(t)
      /\ Rank(t) >= 6 => "signal" \in Grants(t)
  <2>1. ASSUME Rank(t) >= 2 PROVE "read" \in Grants(t)
    BY <2>1, <1>3, <1>5
  <2>2. ASSUME Rank(t) >= 3 PROVE "write" \in Grants(t)
    BY <2>2, <1>3, <1>5
  <2>3. ASSUME Rank(t) >= 4 PROVE "outbound" \in Grants(t)
    BY <2>3, <1>3, <1>5
  <2>4. ASSUME Rank(t) >= 5 PROVE "bind" \in Grants(t)
    BY <2>4, <1>3, <1>5
  <2>5. ASSUME Rank(t) >= 6 PROVE "signal" \in Grants(t)
    BY <2>5, <1>3, <1>5
  <2> QED BY <2>1, <2>2, <2>3, <2>4, <2>5
<1>7. ~(where \in DenyAccess /\ op \in {"read", "write"})
  <2>1. \A p \in DenyAccess : Rule(FALSE, {"read", "write"}, Below(p)) \in Denials
    BY DEF Denials
  <2>2. \A p \in DenyAccess : Below(p) = {p}
    BY DEF DenyAccess, Below
  <2> QED BY <2>1, <2>2, <1>4 DEF Covers, Rule
<1>8. ~(where \in DenyWrite /\ op = "write")
  <2>1. \A p \in DenyWrite : Rule(FALSE, {"write"}, Below(p)) \in Denials
    BY DEF Denials
  <2>2. \A p \in DenyWrite : Below(p) = {p}
    BY DEF DenyWrite, Below
  <2> QED BY <2>1, <2>2, <1>4 DEF Covers, Rule
<1>9. PICK r \in HeadAllows(t) \cup WriteAllows(plan) : Covers(r, op, where)
  BY <1>4
<1>10. \/ op = "read"
       \/ op = "write" /\ where = "/tmp/intentframe"
       \/ op = "outbound" /\ Rank(t) >= 4
       \/ op = "bind" /\ Rank(t) >= 5
       \/ op \in Operation /\ Rank(t) >= 6
       \/ op = "write" /\ ~(Rank(t) <= 2) /\ \E p \in cfg.writes \cup {w} : where \in Below(p)
  <2>1. CASE r = Rule(TRUE, {"read"}, Location)
    BY <2>1, <1>9 DEF Rule, Covers
  <2>2. CASE r = Rule(TRUE, {"write"}, {"/tmp/intentframe"})
    BY <2>2, <1>9 DEF Rule, Covers
  <2>3. CASE Rank(t) >= 4 /\ r = Rule(TRUE, {"outbound"}, Location)
    BY <2>3, <1>9 DEF Rule, Covers
  <2>4. CASE Rank(t) >= 5 /\ r = Rule(TRUE, {"bind"}, Location)
    BY <2>4, <1>9 DEF Rule, Covers
  <2>5. CASE Rank(t) >= 6 /\ r = Rule(TRUE, Operation, Location)
    BY <2>5, <1>9 DEF Rule, Covers
  <2>6. CASE ~(Rank(t) <= 2) /\ \E p \in plan.writes : r = Rule(TRUE, {"write"}, Below(p))
    BY <2>6, <1>1, <1>9 DEF Rule, Covers
  <2> QED BY <1>1, <2>1, <2>2, <2>3, <2>4, <2>5, <2>6 DEF HeadAllows, WriteAllows
<1>11. op \in Grants(t) \/ op = "read" \/ (op = "write" /\ where = "/tmp/intentframe")
  <2>1. CASE op \in Operation /\ Rank(t) >= 6
    BY <2>1, <1>3, <1>6 DEF Operation
  <2>2. CASE op = "write" /\ ~(Rank(t) <= 2)
    BY <2>2, <1>3, <1>6
  <2> QED BY <2>1, <2>2, <1>10, <1>6
<1>12. op = "write" /\ t # "unrestricted" =>
         where = "/tmp/intentframe" \/ \E p \in cfg.writes \cup {w} : where \in Below(p)
  <2>1. CASE op \in Operation /\ Rank(t) >= 6
    BY <2>1, <1>3
  <2> QED BY <2>1, <1>10
<1> QED BY <1>7, <1>8, <1>11, <1>12 DEF t

\* The interpreter that the planner names is in none of the places that are denied
\* (_find_deny_collision), so every profile lets it be read.
THEOREM VenvIsReadable ==
  ASSUME NEW cfg, IsSetup(cfg), NEW w \in Location \cup {"/"}, Venv(cfg) # "none"
  PROVE  Permits(Profile(Plan(cfg, w)), "read", Venv(cfg))
<1>1. Venv(cfg) = Resolved(cfg) /\ ~Collides(Venv(cfg))
  BY DEF Venv
<1>2. Venv(cfg) \in Location
  BY <1>1 DEF Resolved, IsSetup, Location
<1>3. ASSUME NEW r \in Denials
      PROVE  ~Covers(r, "read", Venv(cfg))
  BY <1>1 DEF Denials, Covers, Rule, Collides
<1> QED BY <1>2, <1>3, SetupGivesPlan, ReadPermitted

Given == IsCommand(cmd) /\ IsSetup(sandbox) /\ wd \in Location \cup {"/"}
Ahead == {"evidence", "constraints", "gates", "judge", "adapter"}
SecretDenied == {<<"data_read", "credential_material">>, <<"data_read", "*">>}
\* An intent of the guardian's is inspected once, before anything else, and
\* what is inspected is what the later gates read.
ReportIsItsOwn == via = "guardian" /\ phase \notin {"evidence", "blocked"} =>
  intel = Inspect(cmd) /\ Inspect(cmd).verdict # "CATASTROPHIC"
UnseenByGuardian == via = "direct" => phase \notin {"evidence", "constraints", "gates", "judge"}
\* Behind the constraints a denied secret is none of the command's effects.
SecretsStopped ==
  (/\ via = "guardian" /\ phase \notin {"evidence", "constraints", "blocked"}
   /\ limits.constrained /\ cmd.size # "large" /\ ~Veiled(cmd) /\ limits.deny \cap SecretDenied # {})
  => "secret" \notin Effects(cmd)
Unstarted == phase \in Ahead \cup {"blocked"} => proc = "none" /\ profile = <<>>
Confined ==
  /\ profile # <<>> => profile = Profile(Plan(sandbox, wd))
  /\ proc # "none" /\ sandbox.enabled => profile = Profile(Plan(sandbox, wd))
  /\ proc # "none" => phase \in {"waits", "done", "failed", "timeout"}
TerminalIInv ==
  /\ TerminalTypeOK /\ Given /\ ReportIsItsOwn /\ UnseenByGuardian /\ SecretsStopped /\ LicenseIsEarned
  /\ FloorAgrees /\ Unstarted /\ Confined

\* The invariant holds of every intent, seen by the guardian or not.
LEMMA TerminalStarts ==
  ASSUME TerminalInit
  PROVE  TerminalIInv
<1>1. PICK k \in Case : cmd = k.cmd /\ wd = k.wd /\ limits = k.policy /\ sandbox = k.setup
  BY DEF TerminalInit
<1>2. Given
  BY <1>1, CaseAssumption DEF Given
<1>3. via \in {"guardian", "direct"} /\ phase = IF via = "guardian" THEN "evidence" ELSE "adapter"
  BY DEF TerminalInit
<1>4. intel = Report("SAFE", {}, FALSE, FALSE) /\ how = "nothing" /\ profile = <<>> /\ proc = "none" /\ did = Nothing
  BY DEF TerminalInit
<1>5. TerminalTypeOK
  BY <1>3, <1>4 DEF TerminalTypeOK, Report, Nothing
<1>6. ReportIsItsOwn /\ UnseenByGuardian /\ SecretsStopped /\ LicenseIsEarned /\ FloorAgrees
  <2>1. ReportIsItsOwn
    BY <1>3, <1>4 DEF ReportIsItsOwn
  <2>2. UnseenByGuardian
    BY <1>3, <1>4 DEF UnseenByGuardian
  <2>3. SecretsStopped
    BY <1>3, <1>4 DEF SecretsStopped
  <2>4. LicenseIsEarned
    BY <1>4 DEF LicenseIsEarned
  <2>5. FloorAgrees
    BY <1>3, <1>4 DEF FloorAgrees
  <2> QED BY <2>1, <2>2, <2>3, <2>4, <2>5
<1>7. Unstarted /\ Confined
  BY <1>3, <1>4 DEF Unstarted, Confined
<1> QED BY <1>2, <1>5, <1>6, <1>7 DEF TerminalIInv

\* The evidence: what is CATASTROPHIC goes no further, and the rest takes its report along.
LEMMA PrepareEvidenceKeeps ==
  ASSUME TerminalIInv, PrepareEvidence
  PROVE  TerminalIInv'
<1> DEFINE r == Inspect(cmd)
<1>0. /\ phase = "evidence" /\ UNCHANGED <<intent, how, profile, proc, did>>
      /\ r.verdict = "CATASTROPHIC" => phase' = "blocked" /\ intel' = intel
      /\ r.verdict # "CATASTROPHIC" => phase' = "constraints" /\ intel' = r
  BY DEF PrepareEvidence
<1>1. Given' /\ UNCHANGED <<cmd, wd, limits, sandbox, via>>
  BY <1>0 DEF TerminalIInv, Given, intent
<1>2. /\ r.verdict \in {"SAFE", "NEEDS_REVIEW", "CATASTROPHIC"}
      /\ r.edges \in BOOLEAN /\ r.found \in BOOLEAN
  BY InspectIs DEF TerminalIInv, Given
<1> HIDE DEF r
<1>3. TerminalTypeOK'
  BY <1>0, <1>1, <1>2 DEF TerminalIInv, TerminalTypeOK, Outcome
<1>4. ReportIsItsOwn'
  BY <1>0, <1>1 DEF ReportIsItsOwn, r
<1>5. UnseenByGuardian' /\ FloorAgrees'
  BY <1>0, <1>1 DEF TerminalIInv, UnseenByGuardian, FloorAgrees
<1>6. SecretsStopped'
  BY <1>0, <1>1 DEF SecretsStopped
<1>7. LicenseIsEarned'
  BY <1>0, <1>1 DEF TerminalIInv, LicenseIsEarned
<1>8. Unstarted' /\ Confined'
  BY <1>0, <1>1 DEF TerminalIInv, Unstarted, Confined, Ahead
<1> QED BY <1>1, <1>3, <1>4, <1>5, <1>6, <1>7, <1>8 DEF TerminalIInv

\* A denial of secrets in the policy stops what could read one.
LEMMA DenialStops ==
  ASSUME Given, ReportIsItsOwn, via = "guardian", phase = "constraints", MeetsConstraints,
         cmd.size # "large", ~Veiled(cmd), limits.deny \cap SecretDenied # {}
  PROVE  "secret" \notin Effects(cmd)
<1> SUFFICES ASSUME "secret" \in Effects(cmd)
             PROVE  FALSE
  OBVIOUS
<1> DEFINE t == <<"data_read", "credential_material">>
<1>1. t \in Capabilities(cmd)
  BY SecretIsTagged DEF Given
<1>2. t \in intel.caps
  BY <1>1, InspectIs DEF Given, ReportIsItsOwn
<1>3. \A p \in SecretDenied : Matches(t, p)
  BY DEF SecretDenied, Matches
<1>4. AnyMatches(intel.caps, limits.deny)
  BY <1>2, <1>3 DEF AnyMatches
<1> QED BY <1>4 DEF MeetsConstraints

\* The constraints.
LEMMA EnforceConstraintsKeeps ==
  ASSUME TerminalIInv, EnforceConstraints
  PROVE  TerminalIInv'
<1>0. /\ phase = "constraints" /\ UNCHANGED <<cmd, wd, limits, sandbox, via, intel, how, profile, proc, did>>
      /\ phase' \in {"gates", "blocked"}
      /\ phase' = "gates" => ~limits.constrained \/ MeetsConstraints
  BY DEF EnforceConstraints, intent
<1>1. Given'
  BY <1>0 DEF TerminalIInv, Given
<1>2. via = "guardian"
  BY <1>0 DEF TerminalIInv, TerminalTypeOK, UnseenByGuardian
<1>3. TerminalTypeOK'
  BY <1>0 DEF TerminalIInv, TerminalTypeOK, Outcome
<1>4. ReportIsItsOwn'
  BY <1>0 DEF TerminalIInv, ReportIsItsOwn
<1>5. UnseenByGuardian' /\ FloorAgrees'
  BY <1>0, <1>2 DEF UnseenByGuardian, FloorAgrees
<1>6. SecretsStopped'
  <2> SUFFICES ASSUME phase' = "gates", limits.constrained, cmd.size # "large", ~Veiled(cmd),
                      limits.deny \cap SecretDenied # {}
               PROVE  "secret" \notin Effects(cmd)
    BY <1>0 DEF SecretsStopped
  <2> QED BY <1>0, <1>2, DenialStops DEF TerminalIInv
<1>7. LicenseIsEarned'
  BY <1>0 DEF TerminalIInv, LicenseIsEarned
<1>8. Unstarted' /\ Confined'
  BY <1>0 DEF TerminalIInv, Unstarted, Confined, Ahead
<1> QED BY <1>1, <1>3, <1>4, <1>5, <1>6, <1>7, <1>8 DEF TerminalIInv

\* The licence of the fast path: a read-only tag, and nothing that writes.
LEMMA FastPathReads ==
  ASSUME Given, ReportIsItsOwn, via = "guardian", phase = "gates", FastPath
  PROVE  Effects(cmd) \subseteq {"read"} \/ Glued(cmd)
<1>1. PICK t \in intel.caps : t[1] = "read_only"
  BY DEF FastPath
<1>2. intel = Inspect(cmd) /\ IsCommand(cmd)
  BY DEF ReportIsItsOwn, Given
<1>3. t \in Capabilities(cmd)
  BY <1>1, <1>2, InspectIs
<1> QED BY <1>1, <1>2, <1>3, ReadOnlyReads

\* The fast path, or on to the models.
LEMMA AllowGatesKeep ==
  ASSUME TerminalIInv, AllowGates
  PROVE  TerminalIInv'
<1>0. /\ phase = "gates" /\ UNCHANGED <<cmd, wd, limits, sandbox, via, intel, profile, proc, did>>
      /\ \/ FastPath /\ phase' = "adapter" /\ how' = "fast path"
         \/ phase' = "judge" /\ how' = how
  BY DEF AllowGates, intent
<1>1. Given'
  BY <1>0 DEF TerminalIInv, Given
<1>2. via = "guardian"
  BY <1>0 DEF TerminalIInv, TerminalTypeOK, UnseenByGuardian
<1>3. TerminalTypeOK'
  BY <1>0 DEF TerminalIInv, TerminalTypeOK, Outcome
<1>4. ReportIsItsOwn'
  BY <1>0 DEF TerminalIInv, ReportIsItsOwn
<1>5. UnseenByGuardian' /\ FloorAgrees'
  BY <1>0, <1>2 DEF UnseenByGuardian, FloorAgrees
<1>6. SecretsStopped'
  BY <1>0 DEF TerminalIInv, SecretsStopped
<1>7. LicenseIsEarned'
  <2>1. CASE FastPath
    <3>1. Effects(cmd) \subseteq {"read"} \/ Glued(cmd)
      BY <2>1, <1>0, <1>2, FastPathReads DEF TerminalIInv
    <3> QED BY <3>1, <1>0 DEF LicenseIsEarned
  <2>2. CASE how' = how
    BY <2>2, <1>0 DEF TerminalIInv, LicenseIsEarned
  <2> QED BY <2>1, <2>2, <1>0
<1>8. Unstarted' /\ Confined'
  BY <1>0 DEF TerminalIInv, Unstarted, Confined, Ahead
<1> QED BY <1>1, <1>3, <1>4, <1>5, <1>6, <1>7, <1>8 DEF TerminalIInv

\* The judgement, either way.
LEMMA JudgeKeeps ==
  ASSUME TerminalIInv, Judge
  PROVE  TerminalIInv'
<1>0. /\ phase = "judge" /\ UNCHANGED <<cmd, wd, limits, sandbox, via, intel, profile, proc, did>>
      /\ \/ phase' = "adapter" /\ how' = "judged"
         \/ phase' = "blocked" /\ how' = how
  BY DEF Judge, intent
<1>1. Given'
  BY <1>0 DEF TerminalIInv, Given
<1>2. via = "guardian"
  BY <1>0 DEF TerminalIInv, TerminalTypeOK, UnseenByGuardian
<1>3. TerminalTypeOK'
  BY <1>0 DEF TerminalIInv, TerminalTypeOK, Outcome
<1>4. ReportIsItsOwn'
  BY <1>0 DEF TerminalIInv, ReportIsItsOwn
<1>5. UnseenByGuardian' /\ FloorAgrees'
  BY <1>0, <1>2 DEF UnseenByGuardian, FloorAgrees
<1>6. SecretsStopped'
  BY <1>0 DEF TerminalIInv, SecretsStopped
<1>7. LicenseIsEarned'
  BY <1>0 DEF TerminalIInv, LicenseIsEarned
<1>8. Unstarted' /\ Confined'
  BY <1>0 DEF TerminalIInv, Unstarted, Confined, Ahead
<1> QED BY <1>1, <1>3, <1>4, <1>5, <1>6, <1>7, <1>8 DEF TerminalIInv

\* The adapter: its floor bites after a guardian only where the two inspections part, and its
\* sandbox is the plan's.
LEMMA ExecuteKeeps ==
  ASSUME TerminalIInv, Execute
  PROVE  TerminalIInv'
<1>0. /\ phase = "adapter" /\ UNCHANGED <<cmd, wd, limits, sandbox, via, intel, how, did>>
      /\ \/ phase' \in {"refused", "error"} /\ UNCHANGED <<profile, proc>>
         \/ Quick(cmd) /\ phase' = "floor" /\ UNCHANGED <<profile, proc>>
         \/ /\ phase' = "waits" /\ proc' = "runs"
            /\ profile' = IF sandbox.enabled THEN Profile(Plan(sandbox, wd)) ELSE <<>>
  BY DEF Execute, Refuse, intent
<1>1. Given'
  BY <1>0 DEF TerminalIInv, Given
<1>2. via = "guardian" /\ Quick(cmd) => Apart(cmd)
  BY <1>0, InspectIs DEF TerminalIInv, ReportIsItsOwn, Given
<1>3. TerminalTypeOK'
  BY ZenonT(30), <1>0 DEF TerminalIInv, TerminalTypeOK, Outcome
<1>4. ReportIsItsOwn'
  BY <1>0 DEF TerminalIInv, ReportIsItsOwn
<1>5. UnseenByGuardian' /\ FloorAgrees'
  BY <1>0, <1>2 DEF UnseenByGuardian, FloorAgrees
<1>6. SecretsStopped'
  BY <1>0 DEF TerminalIInv, SecretsStopped
<1>7. LicenseIsEarned'
  BY <1>0 DEF TerminalIInv, LicenseIsEarned
<1>8. Unstarted'
  BY <1>0 DEF Unstarted, Ahead
<1>9. Confined'
  BY <1>0 DEF TerminalIInv, Unstarted, Confined, Ahead
<1> QED BY <1>1, <1>3, <1>4, <1>5, <1>6, <1>7, <1>8, <1>9 DEF TerminalIInv

\* The steps of the process: what it does, its end, the end of the wait.
LEMMA ProcessKeeps ==
  ASSUME TerminalIInv, Does \/ Ends \/ TimesOut \/ UNCHANGED terminalVars
  PROVE  TerminalIInv'
<1>0. /\ UNCHANGED <<cmd, wd, limits, sandbox, via, intel, how, profile>>
      /\ \/ proc' = proc /\ phase' = phase
         \/ proc = "runs" /\ proc' = "gone" /\ phase = "waits" /\ phase' \in {"done", "failed"}
         \/ proc = "runs" /\ proc' = "gone" /\ phase # "waits" /\ phase' = phase
         \/ proc' = proc /\ phase = "waits" /\ phase' = "timeout"
      /\ did' \in [op : Operation \cup {"none"}, place : Location \cup {"none"}]
  <2>1. CASE Does
    <3>1. \A op \in Wants : op \in Operation
      BY DEF Wants, Operation
    <3> QED BY <2>1, <3>1 DEF Does, intent
  <2>2. CASE Ends
    BY <2>2 DEF Ends, intent, TerminalIInv, TerminalTypeOK
  <2>3. CASE TimesOut
    BY <2>3 DEF TimesOut, intent, TerminalIInv, TerminalTypeOK
  <2>4. CASE UNCHANGED terminalVars
    BY <2>4 DEF terminalVars, intent, TerminalIInv, TerminalTypeOK
  <2> QED BY <2>1, <2>2, <2>3, <2>4
<1>1. Given'
  BY <1>0 DEF TerminalIInv, Given
<1>3. TerminalTypeOK'
  BY <1>0 DEF TerminalIInv, TerminalTypeOK, Outcome
<1>4. ReportIsItsOwn'
  BY <1>0 DEF TerminalIInv, ReportIsItsOwn
<1>5. UnseenByGuardian' /\ FloorAgrees'
  BY <1>0 DEF TerminalIInv, UnseenByGuardian, FloorAgrees
<1>6. SecretsStopped'
  BY <1>0 DEF TerminalIInv, SecretsStopped
<1>7. LicenseIsEarned'
  BY <1>0 DEF TerminalIInv, LicenseIsEarned
<1>8. Unstarted'
  BY <1>0 DEF TerminalIInv, Unstarted, Ahead
<1>9. Confined'
  BY <1>0 DEF TerminalIInv, Confined
<1> QED BY <1>1, <1>3, <1>4, <1>5, <1>6, <1>7, <1>8, <1>9 DEF TerminalIInv

\* Every step keeps the invariant.
LEMMA TerminalStep ==
  ASSUME TerminalIInv, [TerminalNext]_terminalVars
  PROVE  TerminalIInv'
BY PrepareEvidenceKeeps, EnforceConstraintsKeeps, AllowGatesKeep, JudgeKeeps, ExecuteKeeps, ProcessKeeps
   DEF TerminalNext

\* The invariant implies what the run checks: the rest of it is the denials and the interpreter.
LEMMA TerminalIsSafe ==
  ASSUME TerminalIInv
  PROVE  TerminalSafe
<1>1. DenialsHold
  <2> SUFFICES ASSUME via = "guardian", proc # "none", limits.constrained, cmd.size # "large", ~Veiled(cmd),
                      limits.deny \cap SecretDenied # {}
               PROVE  "secret" \notin Effects(cmd)
    BY DEF DenialsHold, SecretDenied
  <2>1. phase \notin {"evidence", "constraints", "blocked"}
    BY DEF TerminalIInv, Confined
  <2> QED BY <2>1 DEF TerminalIInv, SecretsStopped
<1>2. PythonRuns
  <2> SUFFICES ASSUME profile # <<>>, Venv(sandbox) # "none"
               PROVE  Permits(profile, "read", Venv(sandbox))
    BY DEF PythonRuns
  <2>1. profile = Profile(Plan(sandbox, wd))
    BY DEF TerminalIInv, Confined
  <2> QED BY <2>1, VenvIsReadable DEF TerminalIInv, Given
<1> QED BY <1>1, <1>2 DEF TerminalSafe, TerminalIInv

\* What a process does under the sandbox lies in its scope.
LEMMA DoesInScope ==
  ASSUME TerminalIInv, Does, sandbox.enabled
  PROVE  Scope(did')
<1>1. PICK op \in Wants, where \in Location :
        (profile # <<>> => Permits(profile, op, where)) /\ did' = [op |-> op, place |-> where]
  BY DEF Does
<1>2. proc # "none" /\ Given
  BY DEF Does, TerminalIInv
<1>3. profile = Profile(Plan(sandbox, wd))
  BY <1>2 DEF TerminalIInv, Confined
<1>4. Profile(Plan(sandbox, wd)) # <<>>
  <2>1. IsPlan(Plan(sandbox, wd))
    BY <1>2, SetupGivesPlan DEF Given
  <2> DEFINE p == Profile(Plan(sandbox, wd))
  <2>2. \E m \in Nat, n \in Nat : 3 <= m /\ m <= n /\ n <= Len(p) /\ p \in Seq(RuleRec)
    BY <2>1, ProfileIs
  <2> HIDE DEF p
  <2>3. p # <<>>
    BY <2>2
  <2> QED BY <2>3 DEF p
<1>5. Permits(Profile(Plan(sandbox, wd)), op, where)
  BY <1>1, <1>3, <1>4
<1> DEFINE t == Template(sandbox.allowed)
<1>6. /\ where \in DenyAccess => op \notin {"read", "write"}
      /\ where \in DenyWrite => op # "write"
      /\ op \in Grants(t) \/ op = "read" \/ (op = "write" /\ where = "/tmp/intentframe")
      /\ op = "write" /\ t # "unrestricted" =>
           where = "/tmp/intentframe" \/ \E p \in sandbox.writes \cup {wd} : where \in Below(p)
  BY <1>2, <1>5, PermittedInScope DEF Given
<1>7. did'.op = op /\ did'.place = where
  BY <1>1
<1> QED BY <1>1, <1>6, <1>7 DEF Scope

\* At every step, of any commands under any policies and configurations: what no model
\* has judged only reads, what the policy denies of secrets is not done, the floor agrees
\* with the inspection, and the interpreter can be read.
THEOREM CommandsAreSafe == TerminalSpec => []TerminalSafe
<1>1. TerminalInit => TerminalIInv
  BY TerminalStarts
<1>2. TerminalIInv /\ [TerminalNext]_terminalVars => TerminalIInv'
  BY TerminalStep
<1>3. TerminalIInv => TerminalSafe
  BY TerminalIsSafe
<1> QED BY <1>1, <1>2, <1>3, PTL DEF TerminalSpec

\* Whatever a process does under the sandbox, at any time, lies in the scope of the
\* template and out of the places that are denied.
THEOREM ProcessesStayInScope == TerminalSpec => ScopeIsKept
<1>1. TerminalInit => TerminalIInv
  BY TerminalStarts
<1>2. TerminalIInv /\ [TerminalNext]_terminalVars => TerminalIInv'
  BY TerminalStep
<1>3. TerminalIInv /\ [TerminalNext]_terminalVars
        => [sandbox.enabled /\ did' # did => Scope(did')]_terminalVars
  <2> SUFFICES ASSUME TerminalIInv, TerminalNext, sandbox.enabled, did' # did
               PROVE  Scope(did')
    OBVIOUS
  <2>1. Does
    BY DEF TerminalNext, PrepareEvidence, EnforceConstraints, AllowGates, Judge, Execute, Ends, TimesOut
  <2> QED BY <2>1, DoesInScope
<1> QED BY <1>1, <1>2, <1>3, PTL DEF TerminalSpec, ScopeIsKept
===============================================================================
