--------------------------- MODULE CredentialsProofs ---------------------------
(***************************************************************************)
(* What the vault stores, for every set of clients, keys and values and     *)
(* every backend; and what the gateway that starts the vault owes to the    *)
(* processes it starts.                                                     *)
(*                                                                          *)
(* A change writes the secret and then its record, and the service works on *)
(* several at once.  The invariant says of each key that is not torn: while *)
(* a change is between its two writes, the secret is the value it will      *)
(* record; while none is, the record shows the secret, on disk as well.     *)
(***************************************************************************)
EXTENDS Credentials, AppGateway, SequenceTheorems, TLAPS

Fields == [Key -> Value \cup {Absent}]
JobRec == [do : {"put", "delete", "get"}, key : Key, value : Value \cup {Absent},
           seen : {<<>>} \cup Fields, at : {"read", "store", "record"}]
Seen == \A c \in Client : job[c].do \in Changes /\ job[c].at = "store" /\ backend = "hashicorp"
                            => job[c].seen \in Fields

Types ==
  /\ TypeOK
  /\ job \in [Client -> {Idle} \cup JobRec]
  /\ Seen

\* c has written the secret of k and not yet its record.
Halfway(c, k) == Doing(c, k) /\ job[c].at = "record"

Settled ==
  \A k \in Key : k \notin torn =>
    /\ \A c \in Client : Halfway(c, k) => fields[k] = job[c].value
    /\ (\A c \in Client : ~Halfway(c, k)) => records[k] = fields[k] /\ kept[k] = fields[k]

Ind == Types /\ Settled

-------------------------------------------------------------------------------
LEMMA MinOfTwo ==
  ASSUME NEW a \in Nat, NEW b \in Nat PROVE Min({a, b}) \in Nat /\ Min({a, b}) <= a /\ Min({a, b}) <= b
<1>1. CASE a <= b
  <2>1. \E x \in {a, b} : \A y \in {a, b} : x <= y
    BY <1>1
  <2> QED BY <2>1 DEF Min
<1>2. CASE b <= a
  <2>1. \E x \in {a, b} : \A y \in {a, b} : x <= y
    BY <1>2
  <2> QED BY <2>1 DEF Min
<1> QED BY <1>1, <1>2

LEMMA InitInd == Init => Ind
<1> SUFFICES ASSUME Init PROVE Ind
  OBVIOUS
<1>1. TypeOK
  BY VaultAssumption DEF Init, TypeOK
<1>2. job \in [Client -> {Idle} \cup JobRec] /\ \A c \in Client : job[c] = Idle
  BY DEF Init
<1>3. \A c \in Client : job[c].do \notin Changes
  BY <1>2 DEF Idle, Changes
<1> QED BY <1>1, <1>2, <1>3 DEF Ind, Types, Seen, Settled, Halfway, Doing, Init

\* A request is idle or has all its fields.
LEMMA JobFields ==
  ASSUME Types, NEW c \in Client
  PROVE  /\ job[c].do # "none" <=> job[c] \in JobRec
         /\ job[c].do = "none" <=> job[c] = Idle
  BY DEF Types, Idle, JobRec

\* What is not stored or recorded may change.
LEMMA StoreStays ==
  ASSUME Ind, TypeOK', fields' = fields, records' = records, kept' \in {kept, records},
         torn' = torn, backend' = backend,
         job' \in [Client -> {Idle} \cup JobRec], Seen',
         \A c \in Client : /\ job'[c].do \in Changes /\ job'[c].at = "record" => job'[c] = job[c]
                           /\ job[c].do \in Changes /\ job[c].at = "record" => job'[c] = job[c]
  PROVE  Ind'
<1>1. \A c \in Client, k \in Key : Halfway(c, k)' <=> Halfway(c, k)
  BY DEF Halfway, Doing
<1>2. \A c \in Client, k \in Key : Halfway(c, k) => job'[c] = job[c]
  BY DEF Halfway, Doing
<1>3. Settled'
  <2> SUFFICES ASSUME NEW k \in Key, k \notin torn'
               PROVE  /\ \A d \in Client : Halfway(d, k)' => fields'[k] = job'[d].value
                      /\ (\A d \in Client : ~Halfway(d, k)') => records'[k] = fields'[k] /\ kept'[k] = fields'[k]
    BY DEF Settled
  <2> QED BY <1>1, <1>2 DEF Ind, Settled
<1> QED BY <1>3 DEF Ind, Types

LEMMA RenewalKeeps ==
  ASSUME Ind, Renewal \/ Tick PROVE Ind'
<1>1. /\ fields' = fields /\ records' = records /\ kept' = kept
      /\ torn' = torn /\ backend' = backend /\ job' = job
      /\ role' = role /\ renewable' = renewable
  BY DEF Renewal, Lookup, Renew, CallFails, Login, Tick, store
<1>2. left' \in 0..Period /\ life' \in 0..Life
  <2>1. left \in 0..Period /\ life \in 0..Life /\ Period \in Nat /\ Life \in Nat
    BY VaultAssumption DEF Ind, Types, TypeOK
  <2>2. Min({Period, life}) \in 0..Period
    BY <2>1, MinOfTwo
  <2>3. \/ left' = left \/ left' = Min({Period, life}) \/ left' = Period
        \/ left' = IF left > 0 THEN left - 1 ELSE 0
    BY DEF Renewal, Lookup, Renew, CallFails, Login, Tick
  <2>4. life' = life \/ life' = Life \/ life' = IF life > 0 THEN life - 1 ELSE 0
    BY DEF Renewal, Lookup, Renew, CallFails, Login, Tick
  <2> QED BY <2>1, <2>2, <2>3, <2>4
<1>3. loop' \in {"idle", "lookup", "nap", "renew", "login", "backoff", "stopped"}
  BY DEF Renewal, Lookup, Renew, CallFails, Login, Tick, Recovery, Ind, Types, TypeOK
<1>4. TypeOK'
  BY <1>1, <1>2, <1>3 DEF Ind, Types, TypeOK
<1>5. job' \in [Client -> {Idle} \cup JobRec] /\ Seen'
  BY <1>1 DEF Ind, Types, Seen
<1> QED BY <1>1, <1>4, <1>5, StoreStays

LEMMA AsksKeeps ==
  ASSUME Ind, NEW c \in Client, Asks(c) PROVE Ind'
<1>1. PICK k \in Key, v \in Value \cup {Absent}, do \in {"put", "delete", "get"} : Request(c, do, k, v)
  BY DEF Asks
<1> DEFINE r == [do |-> do, key |-> k, value |-> v, seen |-> <<>>,
                 at |-> IF backend = "hashicorp" /\ do \in Changes THEN "read" ELSE "store"]
<1>2. /\ job[c] = Idle /\ job' = [job EXCEPT ![c] = r]
      /\ fields' = fields /\ records' = records /\ kept' = kept /\ torn' = torn /\ backend' = backend
      /\ role' = role /\ renewable' = renewable /\ left' = left /\ life' = life /\ loop' = Ensured
  BY <1>1 DEF Request
<1>3. TypeOK'
  BY <1>2 DEF Ind, Types, TypeOK, Ensured
<1>4. r \in JobRec /\ r.at # "record" /\ (backend = "hashicorp" /\ r.do \in Changes => r.at # "store")
  BY DEF JobRec
<1>5. job[c].do \notin Changes
  BY <1>2 DEF Idle, Changes
<1> HIDE DEF r
<1>6. job' \in [Client -> {Idle} \cup JobRec] /\ job'[c] = r /\ \A d \in Client \ {c} : job'[d] = job[d]
  BY <1>2, <1>4 DEF Ind, Types
<1>7. Seen'
  BY <1>2, <1>4, <1>6 DEF Ind, Types, Seen
<1> QED BY <1>2, <1>3, <1>4, <1>5, <1>6, <1>7, StoreStays

\* The requests of c that are read, answered or refused.
LEMMA OthersKeep ==
  ASSUME Ind, NEW c \in Client, ReadFields(c) \/ Get(c) \/ RequestFails(c) PROVE Ind'
<1>1. /\ fields' = fields /\ records' = records /\ kept' \in {kept, records}
      /\ torn' = torn /\ backend' = backend /\ UNCHANGED token /\ job[c].do # "none"
  BY DEF ReadFields, Get, RequestFails
<1>2. TypeOK'
  BY <1>1 DEF Ind, Types, TypeOK, token
<1>3. ~(job[c].do \in Changes /\ job[c].at = "record")
  BY DEF ReadFields, Get, RequestFails, Changes
<1>4. job[c] \in JobRec /\ fields \in Fields
  BY <1>1, JobFields DEF Ind, Types, TypeOK, Fields
<1>5. CASE ReadFields(c)
  <2> DEFINE r == [job[c] EXCEPT !.at = "store", !.seen = fields]
  <2>1. r \in JobRec /\ r.at = "store" /\ r.seen = fields
    BY <1>4 DEF JobRec
  <2>2. job' = [job EXCEPT ![c] = r]
    BY <1>5 DEF ReadFields
  <2> HIDE DEF r
  <2>3. job' \in [Client -> {Idle} \cup JobRec] /\ job'[c] = r /\ \A d \in Client \ {c} : job'[d] = job[d]
    BY <2>1, <2>2 DEF Ind, Types
  <2>4. Seen'
    BY <1>1, <1>4, <2>1, <2>3 DEF Ind, Types, Seen
  <2> QED BY <1>1, <1>2, <1>3, <2>1, <2>3, <2>4, StoreStays
<1>6. CASE Get(c) \/ RequestFails(c)
  <2>1. job' = [job EXCEPT ![c] = Idle]
    BY <1>6 DEF Get, RequestFails
  <2>2. job' \in [Client -> {Idle} \cup JobRec] /\ job'[c].do \notin Changes /\ \A d \in Client \ {c} : job'[d] = job[d]
    BY <2>1 DEF Ind, Types, Idle, Changes
  <2>3. Seen'
    BY <1>1, <2>2 DEF Ind, Types, Seen
  <2> QED BY <1>1, <1>2, <1>3, <2>2, <2>3, StoreStays
<1> QED BY <1>5, <1>6

\* What a write leaves: the value of its key, unless there is nothing to delete.
LEMMA LeftIs ==
  ASSUME Ind, NEW c \in Client, job[c].do \in Changes, job[c].at = "store"
  PROVE  /\ job[c] \in JobRec /\ job[c].key \in Key /\ job[c].value \in Value \cup {Absent}
         /\ Left(c) \in Fields /\ Undone(c) \subseteq Key
         /\ \A k \in Key \ {job[c].key} : k \notin Undone(c) => Left(c)[k] = fields[k]
<1>1. job[c] \in JobRec /\ job[c].do # "none"
  BY JobFields DEF Ind, Changes
<1>2. job[c].key \in Key /\ job[c].value \in Value \cup {Absent}
  BY <1>1 DEF JobRec
<1>3. fields \in Fields
  BY DEF Ind, Types, TypeOK, Fields
<1>4. backend = "hashicorp" => job[c].seen \in Fields
  BY DEF Ind, Types, Seen
<1>5. PICK b \in Fields : Written(c) = [b EXCEPT ![job[c].key] = job[c].value]
  BY <1>3, <1>4 DEF Written
<1>6. Written(c) \in Fields
  BY <1>2, <1>5 DEF Fields
<1>7. Left(c) \in Fields
  BY <1>3, <1>6 DEF Left
<1> QED BY <1>1, <1>2, <1>7 DEF Undone

\* The secret of one key is written; of another it may change too, and is torn then.
LEMMA WriteFieldsKeeps ==
  ASSUME Ind, NEW c \in Client, WriteFields(c) PROVE Ind'
<1> DEFINE key == job[c].key
           r == [job[c] EXCEPT !.at = "record", !.seen = <<>>]
<1>1. /\ job[c].do \in Changes /\ job[c].at = "store"
      /\ fields' = Left(c)
      /\ torn' = (torn \ {key}) \cup Undone(c) \cup IF Mends(c) THEN {} ELSE {key}
      /\ job' = [job EXCEPT ![c] = r]
      /\ backend' = backend /\ records' = records /\ kept' = kept /\ UNCHANGED token
  BY DEF WriteFields
<1>2. /\ job[c] \in JobRec /\ key \in Key /\ Left(c) \in Fields /\ Undone(c) \subseteq Key
      /\ \A k \in Key \ {key} : k \notin Undone(c) => Left(c)[k] = fields[k]
  BY <1>1, LeftIs
<1>3. r \in JobRec /\ r.do = job[c].do /\ r.key = key /\ r.value = job[c].value /\ r.at = "record"
  BY <1>2 DEF JobRec
<1>4. job' \in [Client -> {Idle} \cup JobRec] /\ job'[c] = r /\ \A d \in Client \ {c} : job'[d] = job[d]
  <2> HIDE DEF r
  <2> QED BY <1>1, <1>3 DEF Ind, Types
<1> HIDE DEF r, key
<1>5. TypeOK'
  <2>1. fields' \in [Key -> Value \cup {Absent}]
    BY <1>1, <1>2 DEF Fields
  <2>2. torn' \subseteq Key
    BY <1>1, <1>2 DEF Ind, Types, TypeOK
  <2> QED BY <1>1, <2>1, <2>2 DEF Ind, Types, TypeOK, token
<1>6. Seen'
  BY <1>1, <1>3, <1>4 DEF Ind, Types, Seen
<1>7. Settled'
  <2> SUFFICES ASSUME NEW k \in Key, k \notin torn'
               PROVE  /\ \A d \in Client : Halfway(d, k)' => fields'[k] = job'[d].value
                      /\ (\A d \in Client : ~Halfway(d, k)') => records'[k] = fields'[k] /\ kept'[k] = fields'[k]
    BY DEF Settled
  <2>1. CASE k = key
    <3>1. Alone(c) /\ Left(c)[key] = job[c].value
      BY <1>1, <2>1 DEF Mends, key
    <3>2. fields'[k] = r.value
      BY <1>1, <1>3, <2>1, <3>1
    <3>3. \A d \in Client \ {c} : ~Halfway(d, k)'
      BY <1>4, <2>1, <3>1 DEF Halfway, Doing, Alone, key
    <3>4. Halfway(c, k)'
      BY <1>1, <1>3, <1>4, <2>1 DEF Halfway, Doing
    <3> QED BY <1>4, <3>2, <3>3, <3>4
  <2>2. CASE k # key
    <3>1. k \notin torn /\ fields'[k] = fields[k]
      BY <1>1, <1>2, <2>2
    <3>2. \A d \in Client : Halfway(d, k)' <=> Halfway(d, k)
      BY <1>1, <1>3, <1>4, <2>2 DEF Halfway, Doing, key
    <3>3. \A d \in Client : Halfway(d, k) => job'[d] = job[d]
      BY <1>1, <1>4 DEF Halfway, Doing
    <3> QED BY <1>1, <3>1, <3>2, <3>3 DEF Ind, Settled
  <2> QED BY <2>1, <2>2
<1> QED BY <1>4, <1>5, <1>6, <1>7 DEF Ind, Types

\* A change whose answer or whose record fails ends there, and its key is torn.
LEMMA FailuresKeep ==
  ASSUME Ind, NEW c \in Client, AnswerLost(c) \/ RecordFails(c) PROVE Ind'
<1> DEFINE key == job[c].key
<1>1. /\ job[c].do \in Changes /\ job' = [job EXCEPT ![c] = Idle]
      /\ kept' = kept /\ backend' = backend /\ UNCHANGED token
      /\ torn \cup {key} \subseteq torn'
  BY DEF AnswerLost, RecordFails
<1>2. job[c] \in JobRec /\ job[c].do # "none"
  BY <1>1, JobFields DEF Ind, Changes
<1>3. key \in Key /\ job[c].value \in Value \cup {Absent}
  BY <1>2 DEF JobRec
<1>4. /\ job' \in [Client -> {Idle} \cup JobRec] /\ job'[c].do \notin Changes
      /\ \A d \in Client \ {c} : job'[d] = job[d]
  BY <1>1 DEF Ind, Types, Idle, Changes
<1>5. /\ fields' \in Fields /\ records' \in Fields /\ torn' \subseteq Key
      /\ \A k \in Key \ torn' : fields'[k] = fields[k] /\ records'[k] = records[k]
  <2>1. fields \in Fields /\ records \in Fields /\ torn \subseteq Key
    BY DEF Ind, Types, TypeOK, Fields
  <2>2. CASE AnswerLost(c)
    <3>1. job[c].at = "store" /\ fields' = Left(c) /\ records' = records /\ torn' = torn \cup Undone(c) \cup {key}
      BY <2>2 DEF AnswerLost
    <3>2. /\ Left(c) \in Fields /\ Undone(c) \subseteq Key
          /\ \A k \in Key \ {key} : k \notin Undone(c) => Left(c)[k] = fields[k]
      BY <1>1, <3>1, LeftIs
    <3> QED BY <1>3, <2>1, <3>1, <3>2
  <2>3. CASE RecordFails(c)
    <3>1. fields' = fields /\ records' \in {records, Recorded(c)} /\ torn' = torn \cup {key}
      BY <2>3 DEF RecordFails
    <3>2. Recorded(c) \in Fields /\ \A k \in Key \ {key} : Recorded(c)[k] = records[k]
      BY <1>3, <2>1 DEF Recorded, Fields
    <3> QED BY <1>3, <2>1, <3>1, <3>2
  <2> QED BY <2>2, <2>3
<1>6. TypeOK'
  BY <1>1, <1>5 DEF Ind, Types, TypeOK, token, Fields
<1>7. Seen'
  BY <1>1, <1>4 DEF Ind, Types, Seen
<1> HIDE DEF key
<1>8. Settled'
  <2> SUFFICES ASSUME NEW k \in Key, k \notin torn'
               PROVE  /\ \A d \in Client : Halfway(d, k)' => fields'[k] = job'[d].value
                      /\ (\A d \in Client : ~Halfway(d, k)') => records'[k] = fields'[k] /\ kept'[k] = fields'[k]
    BY DEF Settled
  <2>1. k \notin torn /\ k # key /\ fields'[k] = fields[k] /\ records'[k] = records[k] /\ kept'[k] = kept[k]
    BY <1>1, <1>5
  <2>2. \A d \in Client : Halfway(d, k)' <=> Halfway(d, k)
    BY <1>4, <2>1 DEF Halfway, Doing, key
  <2>3. \A d \in Client : Halfway(d, k) => job'[d] = job[d]
    BY <1>4, <2>1 DEF Halfway, Doing, key
  <2> QED BY <2>1, <2>2, <2>3 DEF Ind, Settled
<1> QED BY <1>4, <1>6, <1>7, <1>8 DEF Ind, Types

\* The keyring kept the secret; its key is torn.
LEMMA KeyringKeeps ==
  ASSUME Ind, NEW c \in Client, KeyringRefuses(c) PROVE Ind'
<1> DEFINE r == [job[c] EXCEPT !.at = "record"]
<1>1. /\ job[c].do = "delete" /\ job[c].at = "store" /\ torn' = torn \cup {job[c].key}
      /\ job' = [job EXCEPT ![c] = r]
      /\ fields' = fields /\ records' = records /\ kept' = kept /\ backend' = backend /\ UNCHANGED token
  BY DEF KeyringRefuses
<1>2. job[c] \in JobRec /\ job[c].key \in Key
  BY <1>1, LeftIs DEF Changes
<1>3. r \in JobRec /\ r.key = job[c].key /\ r.at = "record"
  BY <1>2 DEF JobRec
<1>4. job' \in [Client -> {Idle} \cup JobRec] /\ job'[c] = r /\ \A d \in Client \ {c} : job'[d] = job[d]
  <2> HIDE DEF r
  <2> QED BY <1>1, <1>3 DEF Ind, Types
<1> HIDE DEF r
<1>5. TypeOK'
  BY <1>1, <1>2 DEF Ind, Types, TypeOK, token
<1>6. Seen'
  BY <1>1, <1>3, <1>4 DEF Ind, Types, Seen
<1>7. Settled'
  <2> SUFFICES ASSUME NEW k \in Key, k \notin torn'
               PROVE  /\ \A d \in Client : Halfway(d, k)' => fields'[k] = job'[d].value
                      /\ (\A d \in Client : ~Halfway(d, k)') => records'[k] = fields'[k] /\ kept'[k] = fields'[k]
    BY DEF Settled
  <2>1. k \notin torn /\ k # job[c].key
    BY <1>1
  <2>2. \A d \in Client : Halfway(d, k)' <=> Halfway(d, k)
    BY <1>3, <1>4, <2>1 DEF Halfway, Doing
  <2>3. \A d \in Client : Halfway(d, k) => job'[d] = job[d]
    BY <1>4, <2>1 DEF Halfway, Doing
  <2> QED BY <1>1, <2>1, <2>2, <2>3 DEF Ind, Settled
<1> QED BY <1>4, <1>5, <1>6, <1>7 DEF Ind, Types

\* The record shows the value that was stored, unless another change overlapped.
LEMMA WriteRecordKeeps ==
  ASSUME Ind, NEW c \in Client, WriteRecord(c) PROVE Ind'
<1> DEFINE key == job[c].key
<1>1. /\ job[c].do \in Changes /\ job[c].at = "record"
      /\ records' = [records EXCEPT ![key] = job[c].value] /\ kept' = records'
      /\ job' = [job EXCEPT ![c] = Idle]
      /\ torn' = torn \cup IF Alone(c) THEN {} ELSE {key}
      /\ backend' = backend /\ fields' = fields /\ UNCHANGED token
  BY DEF WriteRecord, Recorded
<1>2. job[c] \in JobRec
  BY <1>1, JobFields DEF Ind, Changes
<1>3. key \in Key /\ job[c].value \in Value \cup {Absent}
  BY <1>2 DEF JobRec
<1>4. /\ job' \in [Client -> {Idle} \cup JobRec] /\ job'[c].do \notin Changes
      /\ \A d \in Client \ {c} : job'[d] = job[d]
  BY <1>1 DEF Ind, Types, Idle, Changes
<1>5. records' \in [Key -> Value \cup {Absent}] /\ records'[key] = job[c].value
      /\ \A k \in Key : k # key => records'[k] = records[k]
  BY <1>1, <1>3 DEF Ind, Types, TypeOK
<1>6. TypeOK'
  <2>1. torn' \subseteq Key
    BY <1>1, <1>3 DEF Ind, Types, TypeOK
  <2> QED BY <1>1, <1>5, <2>1 DEF Ind, Types, TypeOK, token
<1>7. Seen'
  BY <1>1, <1>4 DEF Ind, Types, Seen
<1> HIDE DEF key
<1>8. Settled'
  <2> SUFFICES ASSUME NEW k \in Key, k \notin torn'
               PROVE  /\ \A d \in Client : Halfway(d, k)' => fields'[k] = job'[d].value
                      /\ (\A d \in Client : ~Halfway(d, k)') => records'[k] = fields'[k] /\ kept'[k] = fields'[k]
    BY DEF Settled
  <2>1. k \notin torn
    BY <1>1
  <2>2. \A d \in Client \ {c} : Halfway(d, k)' <=> Halfway(d, k)
    BY <1>4 DEF Halfway, Doing
  <2>3. ~Halfway(c, k)'
    BY <1>4 DEF Halfway, Doing
  <2>4. \A d \in Client : Halfway(d, k)' => fields'[k] = job'[d].value
    BY <1>1, <1>4, <2>1, <2>2, <2>3 DEF Ind, Settled
  <2>5. ASSUME \A d \in Client : ~Halfway(d, k)' PROVE records'[k] = fields'[k] /\ kept'[k] = fields'[k]
    <3>1. CASE k = key
      <4>1. Halfway(c, k)
        BY <1>1, <3>1 DEF Halfway, Doing, key
      <4> QED BY <1>1, <1>5, <2>1, <3>1, <4>1 DEF Ind, Settled
    <3>2. CASE k # key
      <4>1. ~Halfway(c, k)
        BY <3>2 DEF Halfway, Doing, key
      <4>2. \A d \in Client : ~Halfway(d, k)
        BY <2>2, <2>5, <4>1
      <4> QED BY <1>1, <1>5, <2>1, <3>2, <4>2 DEF Ind, Settled
    <3> QED BY <3>1, <3>2
  <2> QED BY <2>4, <2>5
<1> QED BY <1>4, <1>6, <1>7, <1>8 DEF Ind, Types

\* A crash cuts the changes in two that are between their writes.
LEMMA CrashKeeps == ASSUME Ind, Crash PROVE Ind'
<1>1. /\ torn' = torn \cup {job[c].key : c \in {d \in Client : job[d].do \in Changes /\ job[d].at = "record"}}
                      \cup IF backend = "env" THEN Key ELSE {}
      /\ job' = [c \in Client |-> Idle]
      /\ fields' = IF backend = "env" THEN [k \in Key |-> Absent] ELSE fields
      /\ left' = Period /\ life' = Life /\ loop' = "idle"
      /\ backend' = backend /\ records' = kept /\ kept' = kept /\ role' = role /\ renewable' = renewable
  BY DEF Crash
<1>2. \A c \in Client : job'[c].do \notin Changes
  BY <1>1 DEF Idle, Changes
<1>3. \A c \in Client : job[c].do \in Changes => job[c].key \in Key
  <2> SUFFICES ASSUME NEW c \in Client, job[c].do \in Changes PROVE job[c].key \in Key
    OBVIOUS
  <2>1. job[c] \in JobRec
    BY JobFields DEF Ind, Changes
  <2> QED BY <2>1 DEF JobRec
<1>4. TypeOK'
  BY <1>1, <1>3, VaultAssumption DEF Ind, Types, TypeOK
<1>5. job' \in [Client -> {Idle} \cup JobRec] /\ Seen'
  BY <1>1, <1>2 DEF Seen
<1>6. Settled'
  <2> SUFFICES ASSUME NEW k \in Key, k \notin torn'
               PROVE  /\ \A d \in Client : Halfway(d, k)' => fields'[k] = job'[d].value
                      /\ (\A d \in Client : ~Halfway(d, k)') => records'[k] = fields'[k] /\ kept'[k] = fields'[k]
    BY DEF Settled
  <2>1. backend # "env" /\ k \notin torn /\ \A d \in Client : ~Halfway(d, k)
    BY <1>1 DEF Halfway, Doing
  <2>2. records'[k] = fields'[k] /\ kept'[k] = fields'[k]
    BY <1>1, <2>1 DEF Ind, Settled
  <2>3. \A d \in Client : ~Halfway(d, k)'
    BY <1>2 DEF Halfway, Doing
  <2> QED BY <2>2, <2>3
<1> QED BY <1>4, <1>5, <1>6 DEF Ind, Types

LEMMA NextInd == Ind /\ [Next]_vars => Ind'
<1> SUFFICES ASSUME Ind, [Next]_vars PROVE Ind'
  OBVIOUS
<1>1. CASE UNCHANGED vars
  BY <1>1 DEF Ind, Types, TypeOK, Seen, Settled, Halfway, Doing, vars, store, token
<1>2. CASE Next
  BY <1>2, RenewalKeeps, AsksKeeps, OthersKeep, WriteFieldsKeeps, FailuresKeep, KeyringKeeps,
     WriteRecordKeeps, CrashKeeps DEF Next, Serve
<1> QED BY <1>1, <1>2

THEOREM SpecInd == Spec => []Ind
<1>1. Init => Ind
  BY InitInd
<1>2. Ind /\ [Next]_vars => Ind'
  BY NextInd
<1> QED BY <1>1, <1>2, PTL DEF Spec

TroubleOK == trouble \in Nat

LEMMA SpecTrouble == Spec => []TroubleOK
<1>1. Init => TroubleOK
  BY VaultAssumption DEF Init, TroubleOK
<1>2. TroubleOK /\ [Next]_vars => TroubleOK'
  <2> SUFFICES ASSUME trouble \in Nat, [Next]_vars PROVE trouble' \in Nat
    BY DEF TroubleOK
  <2>1. trouble' = trouble \/ (trouble > 0 /\ trouble' = trouble - 1)
    <3>1. \A c \in Client : Asks(c) \/ Serve(c) => trouble' = trouble \/ (trouble > 0 /\ trouble' = trouble - 1)
      BY DEF Asks, Request, Serve, ReadFields, WriteFields, AnswerLost, KeyringRefuses,
             WriteRecord, RecordFails, Get, RequestFails
    <3>2. Renewal \/ Tick \/ Crash => trouble' = trouble \/ (trouble > 0 /\ trouble' = trouble - 1)
      BY DEF Renewal, Lookup, Renew, CallFails, Login, Tick, Crash
    <3> QED BY <3>1, <3>2 DEF Next, vars
  <2> QED BY <2>1
<1> QED BY <1>1, <1>2, PTL DEF Spec

\* Whatever overlaps, is lost, fails or crashes: once a change of a key is carried out
\* and recorded alone, its record shows the secret, on disk as well, until a HashiCorp
\* write of another key or a crash of env undoes it.
THEOREM VaultTellsAlways == Spec => []VaultTells
<1>1. Ind => VaultTells
  <2> SUFFICES ASSUME Ind, NEW k \in Key, \A c \in Client : ~Doing(c, k), k \notin torn
               PROVE  records[k] = fields[k] /\ kept[k] = fields[k]
    BY DEF VaultTells, RecordsTell, Ind, Types
  <2>1. \A c \in Client : ~Halfway(c, k)
    BY DEF Halfway
  <2> QED BY <2>1 DEF Ind, Settled
<1> QED BY <1>1, SpecInd, PTL

\* No request for one key changes another's secret, but HashiCorp's write of a
\* namespace that changed since it was read, and the env backend that forgets.
THEOREM ChangesOnlyItsKey == Spec => OnlyItsKey
<1> DEFINE Step ==
      \A k \in Key : fields'[k] # fields[k] =>
        \/ backend = "env" /\ trouble' < trouble
        \/ \E c \in Client :
             /\ job[c].do \in Changes /\ job[c].at = "store" /\ job'[c] # job[c]
             /\ \/ job[c].key = k
                \/ backend = "hashicorp" /\ job[c].seen # fields
<1>1. Ind /\ TroubleOK /\ [Next]_vars => [Step]_vars
  <2> SUFFICES ASSUME Ind, trouble \in Nat, Next, NEW k \in Key, fields'[k] # fields[k]
               PROVE  \/ backend = "env" /\ trouble' < trouble
                      \/ \E c \in Client :
                           /\ job[c].do \in Changes /\ job[c].at = "store" /\ job'[c] # job[c]
                           /\ \/ job[c].key = k
                              \/ backend = "hashicorp" /\ job[c].seen # fields
    BY DEF TroubleOK
  <2>1. Crash \/ \E c \in Client : WriteFields(c) \/ AnswerLost(c)
    <3>1. Renewal \/ Tick => fields' = fields
      BY DEF Renewal, Lookup, Renew, CallFails, Login, Tick, store
    <3>2. \A c \in Client :
            Asks(c) \/ ReadFields(c) \/ KeyringRefuses(c) \/ WriteRecord(c) \/ RecordFails(c) \/ Get(c) \/ RequestFails(c)
              => fields' = fields
      BY DEF Asks, Request, ReadFields, KeyringRefuses, WriteRecord, RecordFails, Get, RequestFails
    <3> QED BY <3>1, <3>2 DEF Next, Serve
  <2>2. CASE Crash
    <3>1. backend = "env" /\ trouble' = trouble - 1 /\ trouble > 0
      BY <2>2 DEF Crash
    <3> QED BY <3>1
  <2>3. ASSUME NEW c \in Client, WriteFields(c) \/ AnswerLost(c)
        PROVE  /\ job[c].do \in Changes /\ job[c].at = "store" /\ job'[c] # job[c]
               /\ \/ job[c].key = k
                  \/ backend = "hashicorp" /\ job[c].seen # fields
    <3>1. job[c].do \in Changes /\ job[c].at = "store" /\ fields' = Left(c)
      BY <2>3 DEF WriteFields, AnswerLost
    <3>2. job[c] \in JobRec
      BY <3>1, LeftIs
    <3>3. job'[c] # job[c]
      <4>1. CASE WriteFields(c)
        <5> DEFINE r == [job[c] EXCEPT !.at = "record", !.seen = <<>>]
        <5>1. r.at = "record" /\ job' = [job EXCEPT ![c] = r]
          BY <3>2, <4>1 DEF JobRec, WriteFields
        <5> HIDE DEF r
        <5>2. job'[c] = r
          BY <5>1 DEF Ind, Types
        <5> QED BY <3>1, <5>1, <5>2
      <4>2. CASE AnswerLost(c)
        <5>1. job'[c] = Idle
          BY <4>2 DEF AnswerLost, Ind, Types
        <5> QED BY <3>1, <5>1 DEF Idle, Changes
      <4> QED BY <2>3, <4>1, <4>2
    <3>4. job[c].key # k => Written(c)[k] # fields[k]
      BY <3>1 DEF Left
    <3>5. job[c].key # k => backend = "hashicorp" /\ job[c].seen # fields
      BY <3>1, <3>2, <3>4 DEF Written, Ind, Types, TypeOK, JobRec, Seen, Fields
    <3> QED BY <3>1, <3>3, <3>5
  <2> QED BY <2>1, <2>2, <2>3
<1> HIDE DEF Step
<1>2. Spec => [][Step]_vars
  BY <1>1, SpecInd, SpecTrouble, PTL DEF Spec
<1> QED BY <1>2 DEF OnlyItsKey, Step

-------------------------------------------------------------------------------
(***************************************************************************)
(* The application gateway.  Whatever runs and is not excused is owed: it   *)
(* is in the process table, or its PID file or supervisor_proc names it,    *)
(* and during the teardown its name is still ahead.  The vault is the first *)
(* of the table and the last of it to be stopped.                           *)
(***************************************************************************)

Copy(n) == {n} \X (1 .. Copies)
Row == Managed \X (1 .. Copies)
Listed == Range(table)
OnePerName(t) == \A i, j \in DOMAIN t : t[i][1] = t[j][1] => i = j

Machine ==
  /\ alive \subseteq Process
  /\ table \in Seq(Row) /\ OnePerName(table)
  /\ sup \in Copy("runtime") \cup {None} /\ daemon \in Copy("edi") \cup {None}
  /\ syncing \subseteq Copy("edi") \cap alive

\* The table begins with the vault until the teardown, and holds nothing else at first.
Begins ==
  /\ gw = "off" => table = <<>> /\ sup = None
  /\ gw \notin {"off", "stopping"} => table # <<>> /\ table[1][1] = "vault"
  /\ gw \in {"vault", "checks"} => sup = None /\ \A p \in Listed : p[1] = "vault"
  /\ gw \in {"runtime", "bootstrap", "seed", "jarvis", "answer", "ready"} => sup # None

\* What the gateway knows it has to stop.
Owed(p) ==
  \/ p \in Listed
  \/ p = daemon /\ \E q \in Listed : q[1] = "edi"
  \/ p = sup
  \/ p = Platform /\ sup # None

Known == \A p \in alive \ excused : Owed(p)
VaultServes == table # <<>> => \E p \in Listed : p[1] = "vault" /\ p \in alive

\* The teardown has everything before it: the vault last of the table.
Job == Managed \cup {"runtime", "platform"}

Ahead ==
  /\ todo \in Seq(Job)
  /\ \A p \in Listed : \E i \in DOMAIN todo : todo[i] = p[1]
  /\ sup \in alive \ excused => \E i \in DOMAIN todo : todo[i] = "runtime"
  /\ \A i, j \in DOMAIN todo : i < j /\ todo[i] = "vault" => todo[j] \notin Managed

\* The identity on its way from the configuration to Jarvis.
Slot ==
  ~edited /\ faults = MaxFaults =>
    /\ gw \in {"runtime", "bootstrap", "seed", "jarvis"} => env = config
    /\ gw = "seed" => check.for = config /\ (check.found => config \in seeded)
    /\ gw \in {"jarvis", "answer", "ready"} => config \in seeded
    /\ gw \in {"answer", "ready"} => speaks = config

Rest ==
  /\ earlier \subseteq Process
  /\ gw \in Starting \cup Yielded \cup {"off", "stopping", "quit"}
  /\ told \in BOOLEAN /\ telegram \in BOOLEAN
  /\ {env, config, speaks, check.for} \subseteq Identity /\ seeded \subseteq Identity
  /\ faults \in 0 .. MaxFaults /\ routes \in 0 .. MaxRoutes

Excused == gw = "off" /\ ~strayed => alive \subseteq excused

Core ==
  /\ Machine /\ Begins /\ Excused
  /\ gw # "off" => Known
  /\ gw # "off" /\ ~vaultLost => VaultServes
  /\ gw = "stopping" => Ahead

GatewayInd == Rest /\ Core /\ Slot

-------------------------------------------------------------------------------
(* The table *)

LEMMA RowsArePairs ==
  /\ \A p \in Row : p[1] \in Managed /\ p \in Process
  /\ \A n, p : p \in Copy(n) => p[1] = n
  /\ None[1] = "none" /\ None \notin Row /\ Platform[1] = "platform"
BY DEF Row, Copy, Managed, Process, Name, None, Platform

LEMMA NoneIsNoProcess == None \notin Process
BY DEF None, Process, Name, Managed

LEMMA FirstIsListed ==
  ASSUME NEW t \in Seq(Row), t # <<>> PROVE t[1] \in Range(t)
<1>1. 1 \in DOMAIN t
  BY EmptySeq, LenProperties
<1> QED BY <1>1 DEF Range

LEMMA SpawnedIsNew ==
  ASSUME NEW n, NEW p \in Spawned(n)
  PROVE  p \in Copy(n) /\ p[1] = n /\ p \notin alive /\ p \notin Listed /\ p # sup
BY DEF Spawned, Fresh, Copy, Listed

LEMMA TrackedIs ==
  ASSUME Machine, NEW n
  PROVE  \/ /\ Entry(n) = {} /\ Tracked(n) = None
            /\ \A p \in Listed : p[1] # n
         \/ /\ Entry(n) # {} /\ Position(n) \in DOMAIN table /\ table[Position(n)] = Tracked(n)
            /\ Tracked(n) \in Listed /\ Tracked(n)[1] = n
            /\ \A p \in Listed : p[1] = n => p = Tracked(n)
<1>1. CASE Entry(n) = {}
  BY <1>1 DEF Entry, Tracked, Listed, Range
<1>2. CASE Entry(n) # {}
  <2>1. Position(n) \in Entry(n)
    BY <1>2 DEF Position
  <2>2. Tracked(n) = table[Position(n)] /\ Position(n) \in DOMAIN table /\ table[Position(n)][1] = n
    BY <1>2, <2>1 DEF Tracked, Entry
  <2>3. \A p \in Listed : p[1] = n => p = Tracked(n)
    BY <2>2 DEF Machine, OnePerName, Listed, Range
  <2> QED BY <1>2, <2>2, <2>3 DEF Listed, Range
<1> QED BY <1>1, <1>2

LEMMA TableIs ==
  ASSUME Machine
  PROVE  /\ Len(table) \in Nat /\ DOMAIN table = 1..Len(table)
         /\ \A i \in 1..Len(table) : table[i] \in Row /\ table[i] \in Listed
         /\ \A p \in Listed : p \in Row /\ \E i \in 1..Len(table) : table[i] = p
         /\ table # <<>> <=> Len(table) > 0
         /\ table # <<>> => table[1] \in Listed
<1>1. /\ Len(table) \in Nat /\ DOMAIN table = 1..Len(table)
      /\ \A i \in 1..Len(table) : table[i] \in Row
  BY ElementOfSeq, LenProperties DEF Machine
<1>2. table # <<>> <=> Len(table) > 0
  BY <1>1, EmptySeq DEF Machine
<1> QED BY <1>1, <1>2 DEF Listed, Range

\* Registering p drops what the table knew under its name.
LEMMA RegisterKeeps ==
  ASSUME Machine, NEW p \in Row, NEW t, t = Registered(p)
  PROVE  /\ t \in Seq(Row) /\ OnePerName(t) /\ t # <<>>
         /\ \A q : q \in Range(t) <=> q = p \/ (q \in Listed /\ q[1] # p[1])
         /\ table # <<>> /\ table[1][1] # p[1] => t[1] = table[1]
<1>1. Len(table) \in Nat /\ DOMAIN table = 1..Len(table) /\ table \in Seq(Row)
  BY TableIs DEF Machine
<1>2. CASE Entry(p[1]) = {}
  <2>1. t = Append(table, p)
    BY <1>2 DEF Registered
  <2>2. /\ t \in Seq(Row) /\ t # <<>> /\ Len(t) = Len(table) + 1
        /\ \A i \in 1..Len(table) : t[i] = table[i]
        /\ t[Len(table) + 1] = p
    BY <1>1, <2>1, AppendProperties
  <2>3. DOMAIN t = 1..(Len(table) + 1)
    BY <2>2, LenProperties
  <2>4. \A i \in 1..Len(table) : table[i][1] # p[1]
    BY <1>1, <1>2 DEF Entry
  <2>5. OnePerName(t)
    BY <1>1, <2>2, <2>3, <2>4 DEF Machine, OnePerName
  <2>6. \A q : q \in Range(t) <=> q = p \/ q \in Listed
    BY <1>1, <2>2, <2>3 DEF Listed, Range
  <2>7. \A q \in Listed : q[1] # p[1]
    BY <1>1, <2>4 DEF Listed, Range
  <2>8. table # <<>> => t[1] = table[1]
    BY <1>1, <2>2, TableIs
  <2> QED BY <2>2, <2>5, <2>6, <2>7, <2>8
<1>3. CASE Entry(p[1]) # {}
  <2> DEFINE k == Position(p[1])
  <2>1. k \in 1..Len(table) /\ table[k][1] = p[1]
    BY <1>1, <1>3, TrackedIs
  <2>2. t = [table EXCEPT ![k] = p]
    BY <1>3 DEF Registered
  <2> HIDE DEF k
  <2>3. t \in Seq(Row) /\ Len(t) = Len(table)
    BY <1>1, <2>1, <2>2, ExceptSeq
  <2>4. DOMAIN t = 1..Len(table) /\ \A i \in 1..Len(table) : t[i] = IF i = k THEN p ELSE table[i]
    BY <1>1, <2>2
  <2>5. OnePerName(t)
    BY <1>1, <2>1, <2>4 DEF Machine, OnePerName
  <2>6. \A q : q \in Range(t) <=> \E i \in 1..Len(table) : q = t[i]
    BY <2>4 DEF Range
  <2>7. \A q : q \in Listed <=> \E i \in 1..Len(table) : q = table[i]
    BY <1>1 DEF Listed, Range
  <2>8. \A i \in 1..Len(table) : i # k => table[i][1] # p[1]
    BY <1>1, <2>1 DEF Machine, OnePerName
  <2>9. \A q : q \in Range(t) <=> q = p \/ (q \in Listed /\ q[1] # p[1])
    BY <2>1, <2>4, <2>6, <2>7, <2>8
  <2>10. table # <<>> /\ table[1][1] # p[1] => t[1] = table[1]
    BY <1>1, <2>1, <2>4, TableIs
  <2>11. t # <<>>
    BY <1>1, <2>1, <2>3, EmptySeq
  <2> QED BY <2>3, <2>5, <2>9, <2>10, <2>11
<1> QED BY <1>2, <1>3

\* Popping n drops its entry, and nothing else.
LEMMA PopKeeps ==
  ASSUME Machine, NEW n, NEW t, t = Popped(n)
  PROVE  /\ t \in Seq(Row) /\ OnePerName(t)
         /\ \A q : q \in Range(t) <=> q \in Listed /\ q[1] # n
         /\ table # <<>> /\ table[1][1] # n => t # <<>> /\ t[1] = table[1]
         /\ t # <<>> => table # <<>>
<1>1. Len(table) \in Nat /\ DOMAIN table = 1..Len(table) /\ table \in Seq(Row)
  BY TableIs DEF Machine
<1>2. CASE Entry(n) = {}
  <2>1. t = table
    BY <1>2 DEF Popped
  <2> QED BY <1>1, <1>2, <2>1, TrackedIs DEF Machine, Listed
<1>3. CASE Entry(n) # {}
  <2> DEFINE k == Position(n)
             front == SubSeq(table, 1, k - 1)
             back == SubSeq(table, k + 1, Len(table))
  <2>1. k \in 1..Len(table) /\ table[k][1] = n
    BY <1>1, <1>3, TrackedIs
  <2>2. t = front \o back
    BY <1>3 DEF Popped, RemoveAt
  <2> HIDE DEF k
  <2>3. /\ front \in Seq(Row) /\ Len(front) = k - 1
        /\ \A i \in 1..(k - 1) : front[i] = table[i]
    BY <1>1, <2>1, TableIs, SubSeqProperties
  <2>4. /\ back \in Seq(Row) /\ Len(back) = Len(table) - k
        /\ \A i \in 1..(Len(table) - k) : back[i] = table[k + i]
    <3>1. \A i \in (k + 1)..Len(table) : table[i] \in Row
      BY <1>1, <2>1, TableIs
    <3>2. /\ back \in Seq(Row)
          /\ Len(back) = IF k + 1 <= Len(table) THEN Len(table) - (k + 1) + 1 ELSE 0
          /\ \A i \in 1..(Len(table) - (k + 1) + 1) : back[i] = table[(k + 1) + i - 1]
      BY <1>1, <2>1, <3>1, SubSeqProperties
    <3>3. k \in Nat /\ Len(table) \in Nat /\ k <= Len(table)
      BY <1>1, <2>1
    <3> HIDE DEF back
    <3>4. Len(back) = Len(table) - k
      <4>1. CASE k = Len(table)
        <5>1. ~(k + 1 <= Len(table)) /\ Len(table) - k = 0
          BY ONLY <3>3, <4>1
        <5> QED BY ONLY <3>2, <5>1
      <4>2. CASE k # Len(table)
        <5>1. k + 1 <= Len(table) /\ Len(table) - k = Len(table) - (k + 1) + 1
          BY ONLY <3>3, <4>2
        <5> QED BY ONLY <3>2, <5>1
      <4> QED BY <4>1, <4>2
    <3>5. ASSUME NEW i \in 1..(Len(table) - k) PROVE back[i] = table[k + i]
      <4>1. i \in 1..(Len(table) - (k + 1) + 1) /\ (k + 1) + i - 1 = k + i
        BY <1>1, <2>1
      <4> QED BY <3>2, <4>1
    <3> QED BY <3>2, <3>4, <3>5
  <2> HIDE DEF front, back
  <2>5. /\ t \in Seq(Row) /\ Len(t) = Len(table) - 1
        /\ \A i \in 1..(Len(table) - 1) : t[i] = IF i < k THEN table[i] ELSE table[i + 1]
    <3>1. /\ t \in Seq(Row) /\ Len(t) = Len(front) + Len(back)
          /\ \A i \in 1..(Len(front) + Len(back)) :
               t[i] = IF i <= Len(front) THEN front[i] ELSE back[i - Len(front)]
      BY <2>2, <2>3, <2>4, ConcatProperties
    <3>2. Len(front) + Len(back) = Len(table) - 1
      BY <1>1, <2>1, <2>3, <2>4
    <3>3. ASSUME NEW i \in 1..(Len(table) - 1)
          PROVE  t[i] = IF i < k THEN table[i] ELSE table[i + 1]
      <4>1. CASE i < k
        <5>1. i <= Len(front) /\ i \in 1..(k - 1)
          BY <1>1, <2>1, <2>3, <4>1
        <5>2. t[i] = front[i]
          BY <3>1, <3>2, <5>1
        <5> QED BY <2>3, <4>1, <5>1, <5>2
      <4>2. CASE ~(i < k)
        <5>1. ~(i <= Len(front)) /\ i - Len(front) \in 1..(Len(table) - k) /\ k + (i - Len(front)) = i + 1
          BY <1>1, <2>1, <2>3, <4>2
        <5>2. t[i] = back[i - Len(front)]
          BY <3>1, <3>2, <5>1
        <5> QED BY <2>4, <4>2, <5>1, <5>2
      <4> QED BY <4>1, <4>2
    <3> QED BY <3>1, <3>2, <3>3
  <2>6. DOMAIN t = 1..(Len(table) - 1)
    BY <2>5, LenProperties
  <2>7. OnePerName(t)
    <3> DEFINE old(i) == IF i < k THEN i ELSE i + 1
    <3>1. \A i \in 1..(Len(table) - 1) : old(i) \in 1..Len(table) /\ t[i] = table[old(i)]
      BY <1>1, <2>1, <2>5
    <3>2. \A i, j \in 1..(Len(table) - 1) : old(i) = old(j) => i = j
      BY <1>1, <2>1
    <3>3. \A i, j \in 1..Len(table) : table[i][1] = table[j][1] => i = j
      BY <1>1 DEF Machine, OnePerName
    <3> HIDE DEF old
    <3>4. ASSUME NEW i \in 1..(Len(table) - 1), NEW j \in 1..(Len(table) - 1), t[i][1] = t[j][1] PROVE i = j
      <4>1. old(i) \in 1..Len(table) /\ old(j) \in 1..Len(table) /\ t[i] = table[old(i)] /\ t[j] = table[old(j)]
        BY <3>1
      <4>2. table[old(i)][1] = table[old(j)][1]
        BY <3>4, <4>1
      <4> QED BY <3>2, <3>3, <4>1, <4>2
    <3> QED BY <2>6, <3>4 DEF OnePerName
  <2>8. \A q : q \in Listed <=> \E i \in 1..Len(table) : q = table[i]
    BY <1>1 DEF Listed, Range
  <2>9. \A i \in 1..Len(table) : i # k => table[i][1] # n
    BY <1>1, <2>1 DEF Machine, OnePerName
  <2>10. \A q : q \in Range(t) <=> \E i \in 1..Len(table) : i # k /\ q = table[i]
    <3>1. ASSUME NEW i \in 1..(Len(table) - 1)
          PROVE \E j \in 1..Len(table) : j # k /\ t[i] = table[j]
      <4>1. CASE i < k
        <5>1. i \in 1..Len(table) /\ i # k /\ t[i] = table[i]
          BY <1>1, <2>1, <2>5, <4>1
        <5> QED BY <5>1
      <4>2. CASE ~(i < k)
        <5>1. i + 1 \in 1..Len(table) /\ i + 1 # k /\ t[i] = table[i + 1]
          BY <1>1, <2>1, <2>5, <4>2
        <5> QED BY <5>1
      <4> QED BY <4>1, <4>2
    <3>2. ASSUME NEW j \in 1..Len(table), j # k PROVE \E i \in 1..(Len(table) - 1) : t[i] = table[j]
      <4>1. CASE j < k
        BY <1>1, <2>1, <2>5, <4>1
      <4>2. CASE j > k
        <5>1. j - 1 \in 1..(Len(table) - 1) /\ ~(j - 1 < k) /\ (j - 1) + 1 = j
          BY <1>1, <2>1, <4>2
        <5> QED BY <2>5, <5>1
      <4> QED BY <2>1, <3>2, <4>1, <4>2
    <3>3. \A q : q \in Range(t) <=> \E i \in 1..(Len(table) - 1) : t[i] = q
      BY <2>6 DEF Range
    <3>4. ASSUME NEW q, q \in Range(t) PROVE \E i \in 1..Len(table) : i # k /\ q = table[i]
      BY <3>1, <3>3, <3>4
    <3>5. ASSUME NEW q, NEW i \in 1..Len(table), i # k, q = table[i] PROVE q \in Range(t)
      BY <3>2, <3>3, <3>5
    <3> QED BY <3>4, <3>5
  <2>11. \A q : q \in Range(t) <=> q \in Listed /\ q[1] # n
    BY <2>1, <2>8, <2>9, <2>10
  <2>12. ASSUME table # <<>>, table[1][1] # n PROVE t # <<>> /\ t[1] = table[1]
    <3>1. k # 1
      BY <2>1, <2>12
    <3>2. 1 \in 1..(Len(table) - 1) /\ 1 < k
      BY <1>1, <2>1, <3>1
    <3> QED BY <2>5, <3>2, EmptySeq
  <2>13. table # <<>>
    BY <2>1, <1>1, TableIs
  <2> QED BY <2>5, <2>7, <2>11, <2>12, <2>13
<1> QED BY <1>2, <1>3

-------------------------------------------------------------------------------
(* What a step does to the processes and the table *)

\* A process is started and takes its name's place in the table.
LEMMA LaunchKeeps ==
  ASSUME Machine, NEW n \in Managed, n # "vault", Launch(n), daemon' = daemon, sup' = sup,
         table # <<>>, table[1][1] = "vault"
  PROVE  /\ Machine'
         /\ Known => Known'
         /\ VaultServes => VaultServes'
         /\ table' # <<>> /\ table'[1][1] = "vault"
<1>1. PICK p \in Spawned(n) :
        /\ Popen(p)
        /\ table' = Registered(p)
        /\ excused' = (excused \cup ({Tracked(n)} \cap alive)) \ Adopted(p)
  BY DEF Launch
<1>2. p \in Copy(n) /\ p[1] = n /\ p \in Row /\ p \in Process
  BY SpawnedIsNew, RowsArePairs DEF Copy, Row
<1>3. /\ alive' \subseteq alive \cup {p} /\ alive \subseteq alive'
      /\ n # "edi" => syncing' = syncing
      /\ n = "edi" => syncing' \subseteq syncing \cup (alive' \cap {p})
  BY <1>1, <1>2 DEF Popen
<1>4. /\ table' \in Seq(Row) /\ OnePerName(table') /\ table' # <<>>
      /\ \A q : q \in Listed' <=> q = p \/ (q \in Listed /\ q[1] # p[1])
      /\ table # <<>> /\ table[1][1] # p[1] => table'[1] = table[1]
  BY <1>1, <1>2, RegisterKeeps DEF Listed
<1>5. Machine'
  BY <1>2, <1>3, <1>4 DEF Machine
<1>6. ASSUME Known PROVE Known'
  <2> SUFFICES ASSUME NEW q \in alive' \ excused' PROVE Owed(q)'
    BY DEF Known
  <2>1. CASE q = p
    BY <1>4, <2>1 DEF Owed
  <2>2. CASE q # p /\ q \in excused
    <3>1. n = "edi" /\ q = daemon
      BY <1>1, <1>2, <2>2 DEF Adopted
    <3> QED BY <1>2, <1>4, <3>1 DEF Owed
  <2>3. CASE q # p /\ q \notin excused
    <3>1. q \in alive \ excused
      BY <1>3, <2>3
    <3>2. Owed(q)
      BY <3>1, <1>6 DEF Known
    <3>3. CASE q \in Listed /\ q[1] = n
      <4>1. q = Tracked(n)
        BY <3>3, TrackedIs
      <4>2. q \in Adopted(p)
        BY <1>1, <3>1, <4>1
      <4>3. n = "edi" /\ q = daemon
        BY <1>2, <2>3, <4>2 DEF Adopted
      <4> QED BY <1>2, <1>4, <4>3 DEF Owed
    <3>4. CASE q \in Listed /\ q[1] # n
      BY <1>2, <1>4, <3>4 DEF Owed
    <3>5. CASE q = daemon /\ \E r \in Listed : r[1] = "edi"
      <4>1. \E r \in Listed' : r[1] = "edi"
        BY <1>2, <1>4, <3>5
      <4> QED BY <3>5, <4>1 DEF Owed
    <3>6. CASE q = sup \/ (q = Platform /\ sup # None)
      BY <3>6 DEF Owed
    <3> QED BY <3>2, <3>3, <3>4, <3>5, <3>6 DEF Owed
  <2> QED BY <2>1, <2>2, <2>3
<1>7. ASSUME VaultServes PROVE VaultServes'
  <2>1. PICK r \in Listed : r[1] = "vault" /\ r \in alive
    BY <1>7 DEF VaultServes
  <2> QED BY <1>2, <1>3, <1>4, <2>1 DEF VaultServes
<1>8. table' # <<>> /\ table'[1][1] = "vault"
  BY <1>2, <1>4
<1> QED BY <1>5, <1>6, <1>7, <1>8

\* A process is stopped: its entry goes, and nothing else.
LEMMA StopKeeps ==
  ASSUME Machine, NEW n \in Managed, Stop(n), sup' = sup
  PROVE  /\ Machine'
         /\ Known => Known'
         /\ \A q : q \in Listed' <=> q \in Listed /\ q[1] # n
         /\ n # "vault" /\ VaultServes => VaultServes'
         /\ n # "vault" /\ table # <<>> /\ table[1][1] = "vault" => table' # <<>> /\ table'[1][1] = "vault"
<1>1. /\ table' = Popped(n) /\ alive' = alive \ Victims(n) /\ syncing' = syncing \ Victims(n)
      /\ daemon' = IF n = "edi" THEN None ELSE daemon
      /\ excused' = excused \cup IF n = "edi" THEN Running(n) \ {daemon} ELSE {}
  BY DEF Stop
<1>2. /\ table' \in Seq(Row) /\ OnePerName(table')
      /\ \A q : q \in Listed' <=> q \in Listed /\ q[1] # n
      /\ table # <<>> /\ table[1][1] # n => table' # <<>> /\ table'[1] = table[1]
      /\ table' # <<>> => table # <<>>
  BY <1>1, PopKeeps DEF Listed
<1>3. \A q \in Victims(n) : q = None \/ q[1] = n
  BY TrackedIs, RowsArePairs DEF Victims, Machine
<1>4. Machine'
  BY <1>1, <1>2 DEF Machine
<1>5. ASSUME Known PROVE Known'
  <2> SUFFICES ASSUME NEW q \in alive' \ excused' PROVE Owed(q)'
    BY DEF Known
  <2>1. q \in alive /\ q \notin excused /\ q \notin Victims(n) /\ (n = "edi" => q \notin Running(n) \ {daemon})
    BY <1>1
  <2>2. Owed(q)
    BY <1>5, <2>1 DEF Known
  <2>3. CASE q \in Listed
    <3>1. q[1] # n
      BY <2>1, <2>3, TrackedIs DEF Victims, Running
    <3> QED BY <1>2, <2>3, <3>1 DEF Owed
  <2>4. CASE q = daemon /\ \E r \in Listed : r[1] = "edi"
    <3>1. n # "edi"
      BY <2>1, <2>4 DEF Victims
    <3>2. \E r \in Listed' : r[1] = "edi"
      BY <1>2, <2>4, <3>1
    <3> QED BY <1>1, <2>4, <3>1, <3>2 DEF Owed
  <2>5. CASE q = sup \/ (q = Platform /\ sup # None)
    BY <2>5 DEF Owed
  <2> QED BY <2>2, <2>3, <2>4, <2>5 DEF Owed
<1>6. ASSUME n # "vault", VaultServes PROVE VaultServes'
  <2> SUFFICES ASSUME table' # <<>> PROVE \E p \in Listed' : p[1] = "vault" /\ p \in alive'
    BY DEF VaultServes
  <2>1. table # <<>>
    BY <1>2
  <2>2. PICK r \in Listed : r[1] = "vault" /\ r \in alive
    BY <1>6, <2>1 DEF VaultServes
  <2>3. r \notin Victims(n)
    BY <1>3, <1>6, <2>2, RowsArePairs
  <2> QED BY <1>1, <1>2, <1>6, <2>2, <2>3
<1> QED BY <1>2, <1>4, <1>5, <1>6

\* Processes end, or are excused.
LEMMA ShrinkKeeps ==
  ASSUME Machine, alive' \subseteq alive, table' = table, sup' = sup,
         daemon' = daemon \/ (daemon' = None /\ daemon \notin alive'),
         syncing' \subseteq syncing \cap alive', excused \subseteq excused'
  PROVE  Machine' /\ (Known => Known')
<1>1. Machine'
  BY DEF Machine
<1>2. ASSUME Known PROVE Known'
  BY <1>2 DEF Known, Owed, Listed
<1> QED BY <1>1, <1>2

\* An EDI writes its PID file over another's.
LEMMA SettleKeeps ==
  ASSUME Machine, NEW p \in Process, EdiSettles(p)
  PROVE  /\ Machine' /\ (Known => Known') /\ (VaultServes => VaultServes')
         /\ alive \ excused' \subseteq alive \ excused
<1>1. /\ p \in syncing /\ syncing' = syncing \ {p} /\ daemon' = p
      /\ excused' = excused \cup ({daemon} \cap alive)
      /\ alive' = alive /\ table' = table /\ sup' = sup
  BY DEF EdiSettles, manager
<1>2. Machine'
  BY <1>1 DEF Machine
<1>3. ASSUME Known PROVE Known'
  BY <1>1, <1>3 DEF Known, Owed, Listed
<1>4. ASSUME VaultServes PROVE VaultServes'
  BY <1>1, <1>4 DEF VaultServes, Listed
<1> QED BY <1>1, <1>2, <1>3, <1>4

-------------------------------------------------------------------------------
(* The steps of the gateway *)

\* What is not the machine.
LEMMA RestKeeps ==
  ASSUME Rest, Machine, GatewayNext PROVE Rest'
<1> USE GatewayAssumption DEF Rest
<1>1. Anyone \in Identity
  BY DEF Anyone
<1>2. ASSUME Ends, faults' \in 0..MaxFaults, earlier' = earlier PROVE Rest'
  BY <1>1, <1>2 DEF Ends, Unchecked
<1>3. \A n : Launch(n) => earlier' \subseteq Process
  BY DEF Launch
<1>4. CASE CliStart
  BY <1>4 DEF CliStart, Machine, Starting, Yielded, identity
<1>5. CASE VaultUp \/ VaultFails \/ RuntimeUp \/ RuntimeFails \/ JarvisFails \/ StartupRaises
  <2>1. gw' \in Starting \cup Yielded \cup {"quit"}
    BY <1>5 DEF VaultUp, VaultFails, RuntimeUp, RuntimeFails, JarvisFails, StartupRaises, Yield, Starting, Yielded
  <2>2. faults' \in 0..MaxFaults
    <3>1. faults' = faults \/ (faults > 0 /\ faults' = faults - 1)
      BY <1>5 DEF VaultUp, VaultFails, RuntimeUp, RuntimeFails, JarvisFails, StartupRaises, Blamed, budget
    <3> QED BY <3>1
  <2>3. /\ earlier' = earlier /\ told' = told /\ env' = env /\ check' = check /\ config' = config
        /\ seeded' = seeded /\ speaks' = speaks /\ routes' = routes /\ telegram' \in BOOLEAN
    BY <1>5 DEF VaultUp, VaultFails, RuntimeUp, RuntimeFails, JarvisFails, StartupRaises, machine, identity, budget
  <2> QED BY <2>1, <2>2, <2>3
<1>6. CASE \E mandatory, edi, bot \in BOOLEAN : Checks(mandatory, edi, bot)
  <2>1. PICK mandatory, edi, bot \in BOOLEAN : Checks(mandatory, edi, bot)
    BY <1>6
  <2>2. gw' \in Starting \cup Yielded \cup {"quit"}
    BY <2>1 DEF Checks, Yield, Starting, Yielded
  <2>3. earlier' \subseteq Process
    BY <2>1 DEF Checks, machine
  <2>4. env' \in Identity /\ telegram' \in BOOLEAN
    BY <2>1 DEF Checks
  <2>5. /\ told' = told /\ check' = check /\ config' = config /\ seeded' = seeded /\ speaks' = speaks
        /\ faults' = faults /\ routes' = routes
    BY <2>1 DEF Checks, identity, budget
  <2> QED BY <2>2, <2>3, <2>4, <2>5
<1>7. CASE BootstrapReads
  BY <1>7 DEF BootstrapReads, Starting, machine, identity, budget
<1>8. CASE BootstrapSeeds
  BY <1>1, <1>8 DEF BootstrapSeeds, Starting, Unchecked, machine
<1>9. CASE SpawnJarvis
  BY <1>1, <1>3, <1>9 DEF SpawnJarvis, Starting, budget
<1>10. CASE JarvisAnswers
  BY <1>3, <1>10 DEF JarvisAnswers, Yield, Yielded, identity, budget
<1>11. CASE \E n \in Managed \ {"vault"} : StartService(n)
  BY <1>3, <1>11 DEF StartService, Serving, lifespan
<1>12. CASE \E n \in Managed \ {"vault"} : StopService(n)
  BY <1>12 DEF StopService, Serving, lifespan, identity
<1>13. CASE RunBootstrap
  BY <1>13 DEF RunBootstrap, Serving, machine, lifespan
<1>14. CASE \E i \in Identity : SetIdentity(i)
  BY <1>14 DEF SetIdentity, machine, lifespan
<1>15. CASE Terminate
  BY <1>15 DEF Terminate, machine, identity, budget
<1>16. CASE BeginTeardown
  BY <1>16 DEF BeginTeardown, machine, identity, budget
<1>17. CASE StopNext
  BY <1>17 DEF StopNext, identity
<1>18. CASE Gone
  BY <1>2, <1>18 DEF Gone, machine
<1>19. CASE Quit
  BY <1>2, <1>19 DEF Quit, machine
<1>20. CASE ForceKill
  BY <1>2, <1>20 DEF ForceKill
<1>21. CASE \E p \in Process : EdiSettles(p) \/ Dies(p)
  BY <1>21 DEF EdiSettles, Dies, lifespan, identity, budget
<1> QED BY <1>4, <1>5, <1>6, <1>7, <1>8, <1>9, <1>10, <1>11, <1>12, <1>13, <1>14, <1>15, <1>16, <1>17,
           <1>18, <1>19, <1>20, <1>21 DEF GatewayNext, Startup, Routes, Teardown

\* The identity Jarvis gets is the one that was seeded.
LEMMA SlotKeeps ==
  ASSUME Rest, Slot, GatewayNext PROVE Slot'
<1> USE GatewayAssumption DEF Rest, Slot
<1>1. ASSUME gw' \in {"off", "vault", "checks", "partial", "stopping", "quit"} PROVE Slot'
  BY <1>1
<1>2. ASSUME faults' = faults - 1 PROVE Slot'
  <2>1. faults' # MaxFaults
    BY <1>2
  <2> QED BY <2>1
<1>3. ASSUME edited' PROVE Slot'
  BY <1>3
<1>4. ASSUME gw' = gw, env' = env, check' = check, config' = config, seeded' = seeded, edited' = edited,
             faults' = faults, speaks' \in {speaks, config}
      PROVE  Slot'
  BY <1>4
<1>5. CASE CliStart \/ VaultUp \/ VaultFails \/ BeginTeardown \/ Gone \/ Quit \/ ForceKill
  BY <1>1, <1>5 DEF CliStart, VaultUp, VaultFails, BeginTeardown, Gone, Quit, ForceKill, Ends, Yield
<1>6. CASE RuntimeFails \/ StartupRaises
  BY <1>1, <1>6 DEF RuntimeFails, StartupRaises, Yield
<1>7. CASE \E mandatory, edi, bot \in BOOLEAN : Checks(mandatory, edi, bot)
  BY <1>1, <1>7 DEF Checks, Yield, identity, budget
<1>8. CASE RuntimeUp
  BY <1>8 DEF RuntimeUp, identity, budget, history
<1>9. CASE BootstrapReads
  BY <1>9 DEF BootstrapReads, identity, budget, history
<1>10. CASE BootstrapSeeds
  <2>1. CASE seeded' = seeded \cup {check.for} /\ faults' = faults
    BY <1>10, <2>1 DEF BootstrapSeeds, history
  <2>2. CASE faults' = faults - 1
    BY <1>2, <2>2
  <2> QED BY <1>10, <2>1, <2>2 DEF BootstrapSeeds
<1>11. CASE SpawnJarvis
  BY <1>11 DEF SpawnJarvis, budget
<1>12. CASE JarvisAnswers
  BY <1>12 DEF JarvisAnswers, Yield, identity, budget
<1>13. CASE JarvisFails
  <2>1. CASE faults' = faults
    BY <1>13, <2>1 DEF JarvisFails, Yield, identity, history
  <2>2. CASE faults' = faults - 1
    BY <1>2, <2>2
  <2> QED BY <1>13, <2>1, <2>2 DEF JarvisFails, Blamed
<1>14. CASE \E n \in Managed \ {"vault"} : StartService(n) \/ StopService(n)
  BY <1>4, <1>14 DEF StartService, StopService, Serving, lifespan, identity
<1>15. CASE RunBootstrap
  BY <1>15 DEF RunBootstrap, Serving, lifespan, history
<1>16. CASE \E i \in Identity : SetIdentity(i)
  <2>1. CASE gw = "off"
    BY <1>1, <1>16, <2>1 DEF SetIdentity, lifespan
  <2>2. CASE gw # "off"
    BY <1>3, <1>16, <2>2 DEF SetIdentity
  <2> QED BY <2>1, <2>2
<1>17. CASE Terminate
  BY <1>4, <1>17 DEF Terminate, identity, budget, history
<1>18. CASE StopNext
  BY <1>1, <1>18 DEF StopNext
<1>19. CASE \E p \in Process : EdiSettles(p)
  BY <1>4, <1>19 DEF EdiSettles, lifespan, identity, budget
<1>20. CASE \E p \in Process : Dies(p)
  BY <1>2, <1>20 DEF Dies
<1> QED BY <1>5, <1>6, <1>7, <1>8, <1>9, <1>10, <1>11, <1>12, <1>13, <1>14, <1>15, <1>16, <1>17,
           <1>18, <1>19, <1>20 DEF GatewayNext, Startup, Routes, Teardown

\* A step that leaves the machine alone.
Calm ==
  /\ UNCHANGED <<alive, table, sup, daemon, syncing, excused, strayed, vaultLost>>
  /\ gw \notin {"off", "stopping"} /\ gw' \notin {"off", "stopping"}
  /\ gw' \in {"vault", "checks"} => gw \in {"vault", "checks"}
  /\ gw' \in {"runtime", "bootstrap", "seed", "jarvis", "answer", "ready"} =>
       gw \in {"runtime", "bootstrap", "seed", "jarvis", "answer", "ready"}

LEMMA CalmKeeps ==
  ASSUME Core, Calm PROVE Core'
<1>1. Machine' /\ Listed' = Listed
  BY DEF Core, Calm, Machine, Listed
<1>2. Begins'
  BY <1>1 DEF Core, Calm, Begins
<1>3. Known' /\ (vaultLost' \/ VaultServes')
  BY <1>1 DEF Core, Calm, Known, Owed, VaultServes
<1> QED BY <1>1, <1>2, <1>3 DEF Core, Calm, Excused

LEMMA QuietSteps ==
  ASSUME \/ VaultUp \/ RuntimeUp \/ RuntimeFails \/ BootstrapReads \/ BootstrapSeeds \/ StartupRaises
         \/ RunBootstrap \/ Terminate
  PROVE  Calm
BY DEF VaultUp, RuntimeUp, RuntimeFails, BootstrapReads, BootstrapSeeds, StartupRaises, RunBootstrap,
       Terminate, Serving, Yield, Starting, Yielded, Calm, machine, manager, lifespan, history

LEMMA SetIdentityKeeps ==
  ASSUME Core, NEW i \in Identity, SetIdentity(i) PROVE Core'
<1>1. /\ UNCHANGED <<alive, table, sup, daemon, syncing, excused, strayed, vaultLost, gw, todo>>
  BY DEF SetIdentity, machine, manager, lifespan
<1>2. Machine' /\ Listed' = Listed /\ Begins' /\ Excused'
  BY <1>1 DEF Core, Machine, Listed, Begins, Excused
<1>3. (gw # "off" => Known') /\ (gw # "off" /\ ~vaultLost => VaultServes')
  BY <1>1, <1>2 DEF Core, Known, Owed, VaultServes
<1>4. gw = "stopping" => Ahead'
  BY <1>1, <1>2 DEF Core, Ahead
<1> QED BY <1>1, <1>2, <1>3, <1>4 DEF Core

\* Nothing is left of a gateway that has ended but what is excused.
LEMMA EndKeeps ==
  ASSUME Core, Ends, alive' \subseteq alive, syncing' \subseteq syncing \cap alive',
         daemon' \in {daemon, None}, strayed' \/ alive' \subseteq excused'
  PROVE  Core'
<1>1. gw' = "off" /\ table' = <<>> /\ sup' = None
  BY DEF Ends
<1>2. table' \in Seq(Row) /\ OnePerName(table')
  BY <1>1, EmptySeq DEF OnePerName
<1>3. Machine'
  BY <1>1, <1>2 DEF Core, Machine
<1> QED BY <1>1, <1>3 DEF Core, Begins, Excused

LEMMA CliStartKeeps ==
  ASSUME Core, Rest, CliStart PROVE Core'
<1>1. PICK p \in {<<"vault", k>> : k \in 1 .. Copies} \ alive :
        alive' = alive \cup {p} /\ table' = <<p>>
  BY DEF CliStart
<1>2. gw' = "vault" /\ sup' = None /\ sup = None /\ daemon' = daemon /\ syncing' = syncing /\ excused' = alive
  BY DEF CliStart, Core, Begins
<1>3. p \in Row /\ p[1] = "vault" /\ p \in Process
  BY <1>1, RowsArePairs DEF Row, Managed
<1>4. table' \in Seq(Row) /\ DOMAIN table' = {1} /\ table'[1] = p /\ table' # <<>>
  BY <1>1, <1>3
<1>5. OnePerName(table') /\ Listed' = {p}
  BY <1>4 DEF OnePerName, Listed, Range
<1>6. Machine'
  BY <1>1, <1>2, <1>3, <1>4, <1>5 DEF Core, Machine
<1>7. Begins' /\ Known' /\ VaultServes'
  BY <1>1, <1>2, <1>3, <1>4, <1>5 DEF Begins, Known, Owed, VaultServes
<1> QED BY <1>2, <1>6, <1>7 DEF Core, Excused

\* A service that does not answer is given up.
LEMMA GivenUpKeeps ==
  ASSUME Core, VaultFails \/ JarvisFails PROVE Core'
<1>1. PICK n \in {"vault", "jarvis"} :
        /\ alive' = alive \ {Tracked(n)}
        /\ n = "vault" => vaultLost'
        /\ n = "jarvis" => vaultLost' = vaultLost /\ gw' \in {"ready", "quit"} /\ gw = "answer"
        /\ n = "vault" => gw' \in {"partial", "quit"} /\ gw = "vault"
  BY DEF VaultFails, JarvisFails, Yield, history
<1>2. UNCHANGED <<table, sup, daemon, syncing, excused, strayed>>
  BY DEF VaultFails, JarvisFails, manager, history
<1>3. Tracked(n) = None \/ Tracked(n)[1] = n
  BY TrackedIs DEF Core
<1>4. Tracked(n) \notin Copy("edi")
  BY <1>3, RowsArePairs DEF Copy
<1>5. Machine' /\ Known'
  <2>1. syncing' \subseteq syncing \cap alive'
    BY <1>1, <1>2, <1>4 DEF Core, Machine
  <2>2. gw # "off"
    BY <1>1
  <2> QED BY <1>1, <1>2, <2>1, <2>2, ShrinkKeeps DEF Core
<1>6. Begins'
  BY <1>1, <1>2 DEF Core, Begins, Listed
<1>7. ~vaultLost' => VaultServes'
  <2> SUFFICES ASSUME ~vaultLost' PROVE VaultServes'
    OBVIOUS
  <2>1. n = "jarvis" /\ ~vaultLost /\ gw # "off"
    BY <1>1
  <2>2. Tracked(n)[1] # "vault"
    BY <1>3, <2>1, RowsArePairs
  <2> QED BY <1>1, <1>2, <2>1, <2>2 DEF Core, VaultServes, Listed
<1> QED BY <1>1, <1>5, <1>6, <1>7 DEF Core, Excused

\* What the checks start: the supervisor, and EDI unless its file names one that runs.
LEMMA ChecksKeeps ==
  ASSUME Core, NEW mandatory \in BOOLEAN, NEW edi \in BOOLEAN, NEW bot \in BOOLEAN,
         Checks(mandatory, edi, bot)
  PROVE  Core'
<1>1. gw = "checks" /\ strayed' = strayed /\ vaultLost' = vaultLost /\ todo' = todo
  BY DEF Checks
<1>2. CASE ~mandatory
  <2>1. gw' \in {"partial", "quit"} /\ UNCHANGED <<machine, manager, excused>>
    BY <1>2 DEF Checks, Yield
  <2> QED BY <1>1, <2>1, CalmKeeps DEF Calm, machine, manager
<1>3. CASE mandatory
  <2>1. PICK platform \in PlatformMayRun, p \in {<<"runtime", k>> : k \in 1 .. Copies},
             e \in IF edi THEN Spawned("edi") ELSE {None} :
               LET mail == IF edi /\ daemon \notin alive THEN {e} ELSE {}
                   adopted == IF edi THEN Adopted(e) ELSE {}
               IN /\ StartSupervisor(p)
                  /\ alive' = alive \cup platform \cup {p} \cup mail
                  /\ syncing' = syncing \cup mail
                  /\ table' = IF edi THEN Registered(e) ELSE table
                  /\ excused' = excused \ ({Platform, p} \cup adopted)
    BY <1>3 DEF Checks
  <2>2. gw' = "runtime" /\ daemon' = daemon /\ sup' = p
    BY <1>3, <2>1 DEF Checks, StartSupervisor
  <2>3. p \in Copy("runtime") /\ p \in Process /\ platform \subseteq {Platform} /\ Platform \in Process
    <3>1. 1 \in 1..Copies
      BY GatewayAssumption
    <3> QED BY <2>1, <3>1 DEF Copy, Process, Name, Platform, PlatformMayRun
  <2>4. edi => e \in Copy("edi") /\ e[1] = "edi" /\ e \in Row /\ e \in Process /\ e \notin alive
    BY <2>1, SpawnedIsNew, RowsArePairs DEF Copy, Row, Managed
  <2>5. /\ alive \subseteq alive' /\ alive' \subseteq alive \cup {Platform, p} \cup {q \in {e} : edi}
        /\ syncing' \subseteq alive' \cap (syncing \cup {q \in {e} : edi})
    BY <2>1, <2>3 DEF Core, Machine
  <2>6. /\ table' \in Seq(Row) /\ OnePerName(table') /\ table' # <<>>
        /\ table'[1][1] = "vault"
        /\ \A q : q \in Listed' <=> ((q \in Listed /\ (edi => q[1] # "edi")) \/ (edi /\ q = e))
    <3>1. table # <<>> /\ table[1][1] = "vault"
      BY <1>1 DEF Core, Begins
    <3>2. CASE edi
      <4>1. e \in Row /\ e[1] = "edi" /\ table' = Registered(e) /\ Machine
        BY <2>1, <2>4, <3>2 DEF Core
      <4>2. /\ table' \in Seq(Row) /\ OnePerName(table') /\ table' # <<>> /\ table'[1] = table[1]
            /\ \A q : q \in Range(table') <=> q = e \/ (q \in Listed /\ q[1] # e[1])
        BY <3>1, <4>1, RegisterKeeps
      <4>3. \A q : q \in Listed' <=> q = e \/ (q \in Listed /\ q[1] # "edi")
        BY <4>1, <4>2 DEF Listed
      <4> QED BY <3>1, <3>2, <4>2, <4>3
    <3>3. CASE ~edi
      <4>1. table' = table
        BY <2>1, <3>3
      <4>2. Listed' = Listed
        BY <4>1 DEF Listed
      <4> QED BY <3>1, <3>3, <4>1, <4>2 DEF Core, Machine
    <3> QED BY <3>2, <3>3
  <2>7. Machine'
    BY <2>2, <2>3, <2>4, <2>5, <2>6 DEF Core, Machine
  <2>8. Begins'
    <3>1. p # None
      BY <2>3, RowsArePairs
    <3> QED BY <2>2, <2>6, <3>1 DEF Begins
  <2>9. Known'
    <3> SUFFICES ASSUME NEW q \in alive' \ excused' PROVE Owed(q)'
      BY DEF Known
    <3>1. p # None
      BY <2>3, RowsArePairs
    <3>2. CASE q = p \/ q = Platform
      BY <2>2, <3>1, <3>2 DEF Owed
    <3>3. CASE edi /\ q \in {e, daemon}
      <4>1. e \in Listed' /\ e[1] = "edi"
        BY <2>4, <2>6, <3>3
      <4> QED BY <2>2, <3>3, <4>1 DEF Owed
    <3>4. CASE q \notin {p, Platform} /\ ~(edi /\ q \in {e, daemon})
      <4>1. q \in alive
        BY <2>5, <3>4
      <4>2. q \notin excused
        BY <2>1, <2>4, <3>4 DEF Adopted
      <4>3. sup = None /\ q # None
        <5>1. None \notin Process
          BY DEF None, Process, Name, Managed
        <5> QED BY <1>1, <4>1, <5>1 DEF Core, Begins, Machine
      <4>4. Owed(q)
        BY <1>1, <4>1, <4>2 DEF Core, Known
      <4>5. CASE q \in Listed
        <5>1. q[1] = "vault"
          BY <1>1, <4>5 DEF Core, Begins
        <5>2. q \in Listed'
          BY <2>6, <4>5, <5>1
        <5> QED BY <5>2 DEF Owed
      <4>6. CASE q = daemon /\ \E r \in Listed : r[1] = "edi"
        BY <1>1, <4>6 DEF Core, Begins
      <4> QED BY <3>4, <4>3, <4>4, <4>5, <4>6 DEF Owed
    <3> QED BY <3>2, <3>3, <3>4
  <2>10. ~vaultLost' => VaultServes'
    <3> SUFFICES ASSUME ~vaultLost PROVE VaultServes'
      BY <1>1
    <3>1. PICK r \in Listed : r[1] = "vault" /\ r \in alive
      BY <1>1 DEF Core, Begins, VaultServes
    <3>2. r \in Listed' /\ r \in alive'
      BY <2>5, <2>6, <3>1
    <3> QED BY <3>1, <3>2 DEF VaultServes
  <2> QED BY <2>2, <2>7, <2>8, <2>9, <2>10 DEF Core, Excused
<1> QED BY <1>2, <1>3

LEMMA LaunchesKeep ==
  ASSUME Core, SpawnJarvis \/ JarvisAnswers \/ (\E n \in Managed \ {"vault"} : StartService(n)) PROVE Core'
<1>1. /\ gw \in {"jarvis", "answer", "partial", "ready"} /\ gw' \in {"answer", "partial", "ready", "quit"}
      /\ gw' \in {"answer", "ready"} => gw \in {"jarvis", "answer", "ready"}
      /\ UNCHANGED <<daemon, sup, strayed, vaultLost>>
  BY DEF SpawnJarvis, JarvisAnswers, StartService, Serving, Yield, Yielded, lifespan
<1>2. \/ \E n \in Managed : n # "vault" /\ Launch(n)
      \/ UNCHANGED <<alive, syncing, table, excused>>
  BY DEF SpawnJarvis, JarvisAnswers, StartService, Managed
<1>3. CASE UNCHANGED <<alive, syncing, table, excused>>
  BY <1>1, <1>3, CalmKeeps DEF Calm
<1>4. CASE \E n \in Managed : n # "vault" /\ Launch(n)
  <2>1. Machine' /\ Known' /\ table' # <<>> /\ table'[1][1] = "vault" /\ (VaultServes => VaultServes')
    BY <1>1, <1>4, LaunchKeeps DEF Core, Begins
  <2> QED BY <1>1, <2>1 DEF Core, Begins, Excused
<1> QED BY <1>2, <1>3, <1>4

LEMMA StopServiceKeeps ==
  ASSUME Core, NEW n \in Managed, n # "vault", StopService(n) PROVE Core'
<1>1. gw \in {"partial", "ready"} /\ gw' = gw /\ UNCHANGED <<sup, strayed, vaultLost>> /\ Stop(n)
  BY DEF StopService, Serving, Yielded, lifespan
<1>2. Machine' /\ Known' /\ table' # <<>> /\ table'[1][1] = "vault" /\ (VaultServes => VaultServes')
  BY <1>1, StopKeeps DEF Core, Begins
<1> QED BY <1>1, <1>2 DEF Core, Begins, Excused

-------------------------------------------------------------------------------
(* The teardown *)

\* The names of the table, last inserted first, end with the vault.
LEMMA ReversedIs ==
  ASSUME Machine, table # <<>> => table[1][1] = "vault"
  PROVE  /\ Reversed \in Seq(Job) /\ Len(Reversed) = Len(table)
         /\ \A p \in Listed : \E i \in 1..Len(Reversed) : Reversed[i] = p[1]
         /\ \A i \in 1..Len(Reversed) : Reversed[i] = "vault" => i = Len(Reversed)
<1> DEFINE names == [i \in DOMAIN table |-> table[i][1]]
<1>1. Len(table) \in Nat /\ DOMAIN table = 1..Len(table)
  BY TableIs
<1>2. \A i \in 1..Len(table) : table[i][1] \in Job
  BY TableIs, RowsArePairs DEF Job
<1>3. names \in [1..Len(table) -> Job]
  BY <1>1, <1>2
<1>4. names \in Seq(Job) /\ Len(names) = Len(table) /\ \A i \in 1..Len(table) : names[i] = table[i][1]
  <2>1. names \in Seq(Job)
    BY <1>1, <1>3, SeqDef
  <2>2. Len(names) \in Nat /\ DOMAIN names = 1..Len(names)
    BY <2>1, LenProperties
  <2>3. DOMAIN names = 1..Len(table)
    BY <1>1
  <2>4. Len(names) = Len(table)
    BY <1>1, <2>2, <2>3
  <2> QED BY <1>1, <2>1, <2>4
<1>5. Reversed = Reverse(names)
  BY DEF Reversed
<1> HIDE DEF names
<1>6. Reversed = [i \in 1..Len(table) |-> names[(Len(table) - i) + 1]]
  BY <1>4, <1>5 DEF Reverse
<1>7. Reversed \in [1..Len(table) -> Job]
  <2>1. \A i \in 1..Len(table) : (Len(table) - i) + 1 \in 1..Len(table)
    BY <1>1
  <2> QED BY <1>3, <1>6, <2>1
<1>8. Reversed \in Seq(Job) /\ Len(Reversed) = Len(table)
  <2>1. Reversed \in Seq(Job)
    BY <1>1, <1>7, SeqDef
  <2>2. Len(Reversed) \in Nat /\ 1..Len(Reversed) = 1..Len(table)
    <3>1. Len(Reversed) \in Nat /\ DOMAIN Reversed = 1..Len(Reversed)
      BY <2>1, LenProperties
    <3>2. DOMAIN Reversed = 1..Len(table)
      BY <1>7
    <3> QED BY <3>1, <3>2
  <2>3. Len(Reversed) = Len(table)
    BY <1>1, <2>2
  <2> QED BY <2>1, <2>3
<1>9. \A i \in 1..Len(table) : Reversed[i] = table[(Len(table) - i) + 1][1]
  <2>1. \A i \in 1..Len(table) : (Len(table) - i) + 1 \in 1..Len(table)
    BY <1>1
  <2> QED BY <1>4, <1>6, <2>1
<1>10. ASSUME NEW p \in Listed PROVE \E i \in 1..Len(table) : Reversed[i] = p[1]
  <2>1. PICK j \in 1..Len(table) : table[j] = p
    BY TableIs
  <2>2. (Len(table) - j) + 1 \in 1..Len(table) /\ (Len(table) - ((Len(table) - j) + 1)) + 1 = j
    BY <1>1
  <2>3. Reversed[(Len(table) - j) + 1] = p[1]
    BY <1>9, <2>1, <2>2
  <2> QED BY <2>2, <2>3
<1>11. ASSUME NEW i \in 1..Len(table), Reversed[i] = "vault" PROVE i = Len(table)
  <2> DEFINE j == (Len(table) - i) + 1
  <2>1. j \in 1..Len(table) /\ 1 \in 1..Len(table)
    BY <1>1
  <2>2. table[j][1] = table[1][1]
    BY <1>9, <1>11, <2>1, TableIs
  <2>3. j = 1
    BY <1>1, <2>1, <2>2 DEF Machine, OnePerName
  <2>4. Len(table) \in Nat /\ i \in Nat /\ (Len(table) - i) + 1 = 1
    BY <1>1, <2>3
  <2> QED BY ONLY <2>4
<1> QED BY <1>8, <1>10, <1>11

LEMMA BeginKeeps ==
  ASSUME Core, BeginTeardown PROVE Core'
<1> DEFINE R == Reversed
           L == Len(table)
           Ordered(t) == \A i, j \in DOMAIN t : i < j /\ t[i] = "vault" => t[j] \notin Managed
           Has(t, x) == \E i \in DOMAIN t : t[i] = x
<1>1. /\ gw \in Yielded /\ gw' = "stopping" /\ UNCHANGED <<machine, manager, history>>
      /\ todo' = IF gw = "ready" THEN <<"platform">> \o Reversed \o <<"runtime">>
                 ELSE IF sup # None THEN <<"runtime">> \o Reversed ELSE Reversed
  BY DEF BeginTeardown
<1>2. /\ R \in Seq(Job) /\ Len(R) = L /\ L \in Nat
      /\ \A p \in Listed : \E i \in 1..L : R[i] = p[1]
      /\ \A i \in 1..L : R[i] = "vault" => i = L
  BY <1>1, ReversedIs, TableIs DEF Core, Begins, Yielded
<1> HIDE DEF R
<1>3. /\ <<"platform">> \in Seq(Job) /\ Len(<<"platform">>) = 1 /\ <<"platform">>[1] = "platform"
      /\ <<"runtime">> \in Seq(Job) /\ Len(<<"runtime">>) = 1 /\ <<"runtime">>[1] = "runtime"
  BY DEF Job
<1>4. "runtime" \notin Managed /\ "platform" \notin Managed /\ "platform" # "vault" /\ "runtime" # "vault"
  BY DEF Managed
<1>5. /\ todo' \in Seq(Job) /\ Ordered(todo')
      /\ \A p \in Listed : Has(todo', p[1])
      /\ sup # None => Has(todo', "runtime")
  <2>1. CASE gw = "ready"
    <3> DEFINE a == <<"platform">> \o R
               t == a \o <<"runtime">>
    <3>1. a \in Seq(Job) /\ Len(a) = L + 1 /\ a[1] = "platform" /\ \A i \in 1..L : a[i + 1] = R[i]
      <4>1. /\ a \in Seq(Job) /\ Len(a) = 1 + L
            /\ \A i \in 1..(1 + L) : a[i] = IF i <= 1 THEN <<"platform">>[i] ELSE R[i - 1]
        BY <1>2, <1>3, ConcatProperties
      <4> HIDE DEF a
      <4>2. a[1] = "platform"
        BY <1>2, <1>3, <4>1
      <4>3. ASSUME NEW i \in 1..L PROVE a[i + 1] = R[i]
        BY <1>2, <4>1
      <4> QED BY <1>2, <4>1, <4>2, <4>3
    <3> HIDE DEF a
    <3>2. /\ t \in Seq(Job) /\ Len(t) = L + 2 /\ t[L + 2] = "runtime" /\ \A i \in 1..(L + 1) : t[i] = a[i]
      <4>1. /\ t \in Seq(Job) /\ Len(t) = (L + 1) + 1
            /\ \A i \in 1..((L + 1) + 1) : t[i] = IF i <= L + 1 THEN a[i] ELSE <<"runtime">>[i - (L + 1)]
        BY <1>3, <3>1, ConcatProperties
      <4> HIDE DEF t
      <4>2. L + 2 \in 1..((L + 1) + 1) /\ ~(L + 2 <= L + 1) /\ (L + 2) - (L + 1) = 1 /\ (L + 1) + 1 = L + 2
        BY <1>2
      <4>3. t[L + 2] = "runtime"
        BY <1>3, <4>1, <4>2
      <4>4. ASSUME NEW i \in 1..(L + 1) PROVE t[i] = a[i]
        BY <1>2, <4>1
      <4> QED BY <4>1, <4>2, <4>3, <4>4
    <3>3. todo' = t
      BY <1>1, <2>1 DEF R, a
    <3> HIDE DEF t
    <3>4. DOMAIN t = 1..(L + 2)
      BY <3>2, LenProperties
    <3>5. ASSUME NEW i \in 1..(L + 2), t[i] = "vault" PROVE i = L + 1
      <4>1. i # L + 2 /\ i # 1
        BY <1>2, <1>4, <3>1, <3>2, <3>5
      <4>2. i - 1 \in 1..L /\ (i - 1) + 1 = i /\ i \in 1..(L + 1)
        BY <1>2, <4>1
      <4>3. R[i - 1] = "vault"
        BY <3>1, <3>2, <3>5, <4>2
      <4>4. i - 1 = L
        BY <1>2, <4>2, <4>3
      <4> QED BY <1>2, <4>2, <4>4
    <3>6. Ordered(t)
      <4> SUFFICES ASSUME NEW i \in 1..(L + 2), NEW j \in 1..(L + 2), i < j, t[i] = "vault" PROVE t[j] \notin Managed
        BY <3>4
      <4>1. i = L + 1
        BY <3>5
      <4>2. j = L + 2
        BY <1>2, <4>1
      <4> QED BY <1>4, <3>2, <4>2
    <3>7. ASSUME NEW p \in Listed PROVE Has(t, p[1])
      <4>1. PICK i \in 1..L : R[i] = p[1]
        BY <1>2
      <4>2. i + 1 \in 1..(L + 1) /\ i + 1 \in 1..(L + 2)
        BY <1>2
      <4>3. t[i + 1] = p[1]
        BY <3>1, <3>2, <4>1, <4>2
      <4> QED BY <3>4, <4>2, <4>3
    <3>8. Has(t, "runtime")
      <4>1. L + 2 \in 1..(L + 2)
        BY <1>2
      <4> QED BY <3>2, <3>4, <4>1
    <3> QED BY <3>2, <3>3, <3>6, <3>7, <3>8
  <2>2. CASE gw # "ready" /\ sup # None
    <3> DEFINE t == <<"runtime">> \o R
    <3>1. /\ t \in Seq(Job) /\ Len(t) = 1 + L
          /\ \A i \in 1..(1 + L) : t[i] = IF i <= 1 THEN <<"runtime">>[i] ELSE R[i - 1]
      BY <1>2, <1>3, ConcatProperties
    <3>2. todo' = t
      BY <1>1, <2>2 DEF R
    <3> HIDE DEF t
    <3>3. DOMAIN t = 1..(1 + L)
      BY <3>1, LenProperties
    <3>4. 1 \in 1..(1 + L) /\ t[1] = "runtime"
      BY <1>2, <1>3, <3>1
    <3>5. ASSUME NEW i \in 1..(1 + L), t[i] = "vault" PROVE i = 1 + L
      <4>1. i - 1 \in 1..L /\ ~(i <= 1)
        BY <1>2, <1>4, <3>4, <3>5
      <4>2. R[i - 1] = "vault"
        BY <3>1, <3>5, <4>1
      <4>3. i - 1 = L
        BY <1>2, <4>1, <4>2
      <4> QED BY <1>2, <4>3
    <3>6. Ordered(t)
      BY <1>2, <3>3, <3>5
    <3>7. ASSUME NEW p \in Listed PROVE Has(t, p[1])
      <4>1. PICK i \in 1..L : R[i] = p[1]
        BY <1>2
      <4>2. i + 1 \in 1..(1 + L) /\ ~(i + 1 <= 1) /\ (i + 1) - 1 = i
        BY <1>2
      <4>3. t[i + 1] = p[1]
        BY <3>1, <4>1, <4>2
      <4> QED BY <3>3, <4>2, <4>3
    <3>8. Has(t, "runtime")
      BY <3>3, <3>4
    <3> QED BY <3>1, <3>2, <3>6, <3>7, <3>8
  <2>3. CASE gw # "ready" /\ sup = None
    <3>1. todo' = R
      BY <1>1, <2>3 DEF R
    <3>2. DOMAIN R = 1..L
      BY <1>2, LenProperties
    <3>3. Ordered(R)
      <4> SUFFICES ASSUME NEW i \in 1..L, NEW j \in 1..L, i < j, R[i] = "vault" PROVE FALSE
        BY <3>2
      <4>1. i = L
        BY <1>2
      <4> QED BY <1>2, <4>1
    <3>4. \A p \in Listed : Has(R, p[1])
      BY <1>2, <3>2
    <3> QED BY <1>2, <2>3, <3>1, <3>3, <3>4
  <2> QED BY <2>1, <2>2, <2>3
<1>6. Machine' /\ Listed' = Listed
  BY <1>1 DEF Core, Machine, Listed, machine, manager
<1>7. Begins' /\ Known' /\ (~vaultLost' => VaultServes')
  BY <1>1, <1>6 DEF Core, Begins, Known, Owed, VaultServes, Yielded, machine, manager, history
<1>8. Ahead'
  <2>1. sup \in alive => sup # None
    BY NoneIsNoProcess DEF Core, Machine
  <2> QED BY <1>1, <1>5, <1>6, <2>1 DEF Ahead, machine, manager, history
<1> QED BY <1>1, <1>6, <1>7, <1>8 DEF Core, Excused

LEMMA StopNextKeeps ==
  ASSUME Core, StopNext PROVE Core'
<1> DEFINE n == Head(todo)
<1>1. /\ gw = "stopping" /\ gw' = "stopping" /\ todo # <<>> /\ todo' = Tail(todo)
      /\ sup' = sup /\ vaultLost' = vaultLost /\ Ahead
  BY DEF StopNext, Core
<1>2. /\ todo' \in Seq(Job) /\ Len(todo) \in Nat /\ Len(todo') = Len(todo) - 1 /\ n = todo[1]
      /\ \A i \in 1..Len(todo') : todo'[i] = todo[i + 1]
      /\ DOMAIN todo = 1..Len(todo) /\ DOMAIN todo' = 1..Len(todo')
  BY <1>1, HeadTailProperties, LenProperties DEF Ahead
<1>3. ASSUME NEW i \in DOMAIN todo, todo[i] # n PROVE \E j \in DOMAIN todo' : todo'[j] = todo[i]
  <2>1. i - 1 \in 1..Len(todo') /\ (i - 1) + 1 = i
    BY <1>2, <1>3
  <2> QED BY <1>2, <2>1
<1>4. \A i, j \in DOMAIN todo' : i < j /\ todo'[i] = "vault" => todo'[j] \notin Managed
  <2> SUFFICES ASSUME NEW i \in DOMAIN todo', NEW j \in DOMAIN todo', i < j, todo'[i] = "vault"
               PROVE  todo'[j] \notin Managed
    OBVIOUS
  <2>1. /\ i + 1 \in DOMAIN todo /\ j + 1 \in DOMAIN todo /\ i + 1 < j + 1
        /\ todo'[i] = todo[i + 1] /\ todo'[j] = todo[j + 1]
    BY <1>2
  <2> QED BY <1>1, <2>1 DEF Ahead
<1> HIDE DEF n
<1>5. CASE n \in Managed
  <2>1. Stop(n)
    BY <1>5 DEF StopNext, n
  <2>2. /\ Machine' /\ Known' /\ (n # "vault" /\ VaultServes => VaultServes')
        /\ \A q : q \in Listed' <=> q \in Listed /\ q[1] # n
    BY <1>1, <1>5, <2>1, StopKeeps DEF Core
  <2>3. \A p \in Listed' : \E j \in DOMAIN todo' : todo'[j] = p[1]
    BY <1>1, <1>3, <2>2 DEF Ahead
  <2>4. sup' \in alive' \ excused' => \E j \in DOMAIN todo' : todo'[j] = "runtime"
    <3>1. alive' \ excused' \subseteq alive \ excused
      BY <2>1 DEF Stop
    <3>2. n # "runtime"
      BY <1>5 DEF Managed
    <3> QED BY <1>1, <1>3, <3>1, <3>2 DEF Ahead
  <2>5. n = "vault" => VaultServes'
    <3> SUFFICES ASSUME n = "vault", table' # <<>> PROVE FALSE
      BY DEF VaultServes
    <3>1. PICK p : p \in Listed'
      BY <2>2, FirstIsListed DEF Machine, Listed
    <3>2. p[1] \in Managed /\ p[1] # "vault"
      BY <2>2, <3>1, TableIs, RowsArePairs DEF Core
    <3>3. PICK j \in DOMAIN todo' : todo'[j] = p[1]
      BY <2>3, <3>1
    <3>4. j + 1 \in DOMAIN todo /\ 1 \in DOMAIN todo /\ 1 < j + 1 /\ todo[j + 1] = p[1] /\ todo[1] = "vault"
      BY <1>2, <3>3
    <3> QED BY <1>1, <3>2, <3>4 DEF Ahead
  <2>6. Ahead'
    BY <1>2, <1>4, <2>3, <2>4 DEF Ahead
  <2> QED BY <1>1, <2>2, <2>5, <2>6 DEF Core, Begins, Excused
<1>6. CASE n \notin Managed
  <2> DEFINE p == IF n = "runtime" THEN sup ELSE Platform
  <2>1. /\ table' = table /\ daemon' = daemon /\ syncing' = syncing
        /\ \/ alive' = alive \ {p} /\ excused' = excused
           \/ alive' = alive /\ excused' = excused \cup {p}
    BY <1>6 DEF StopNext, n
  <2>2. p[1] # "edi" /\ p[1] # "vault"
    BY RowsArePairs DEF Core, Machine
  <2>3. n = "runtime" => p = sup
    OBVIOUS
  <2> HIDE DEF p
  <2>4. syncing' \subseteq syncing \cap alive'
    BY <2>1, <2>2, RowsArePairs DEF Core, Machine
  <2>5. Machine' /\ Known' /\ Listed' = Listed
    BY <1>1, <2>1, <2>4, ShrinkKeeps DEF Core, Listed
  <2>6. VaultServes => VaultServes'
    BY <2>1, <2>2, <2>5 DEF VaultServes
  <2>7. Ahead'
    <3>1. \A q \in Listed' : \E j \in DOMAIN todo' : todo'[j] = q[1]
      <4> SUFFICES ASSUME NEW q \in Listed PROVE \E j \in DOMAIN todo' : todo'[j] = q[1]
        BY <2>5
      <4>1. q[1] # n
        BY <1>6, TableIs, RowsArePairs DEF Core
      <4> QED BY <1>1, <1>3, <4>1 DEF Ahead
    <3>2. sup' \in alive' \ excused' => \E j \in DOMAIN todo' : todo'[j] = "runtime"
      <4> SUFFICES ASSUME sup \in alive' \ excused' PROVE \E j \in DOMAIN todo' : todo'[j] = "runtime"
        BY <1>1
      <4>1. n # "runtime"
        BY <2>1, <2>3
      <4>2. sup \in alive \ excused
        BY <2>1
      <4> QED BY <1>1, <1>3, <4>1, <4>2 DEF Ahead
    <3> QED BY <1>2, <1>4, <3>1, <3>2 DEF Ahead
  <2> QED BY <1>1, <2>5, <2>6, <2>7 DEF Core, Begins, Excused
<1> QED BY <1>5, <1>6

LEMMA EndsKeep ==
  ASSUME Core, Gone \/ Quit \/ ForceKill PROVE Core'
<1>1. CASE Quit
  BY <1>1, EndKeeps DEF Quit, machine, Core, Machine
<1>2. CASE ForceKill
  <2>1. Ends /\ alive' \subseteq alive /\ alive' \subseteq excused' /\ daemon' \in {daemon, None}
        /\ syncing' \subseteq syncing \cap alive'
    BY <1>2 DEF ForceKill
  <2> QED BY <2>1, EndKeeps
<1>3. CASE Gone
  <2>1. /\ gw = "stopping" /\ todo = <<>> /\ Ends /\ UNCHANGED <<alive, daemon, syncing>>
        /\ excused' = excused \cup IF sup # None THEN {Platform} ELSE {}
    BY <1>3 DEF Gone, machine
  <2>2. Known /\ Ahead /\ DOMAIN todo = {}
    BY <2>1 DEF Core
  <2>3. Listed = {} /\ sup \notin alive \ excused
    BY <2>2 DEF Ahead
  <2>4. alive' \subseteq excused'
    BY <2>1, <2>2, <2>3 DEF Known, Owed
  <2> QED BY <2>1, <2>4, EndKeeps DEF Core, Machine
<1> QED BY <1>1, <1>2, <1>3

LEMMA ProcessesKeep ==
  ASSUME Core, NEW p \in Process, EdiSettles(p) \/ Dies(p) PROVE Core'
<1>1. UNCHANGED <<table, sup, gw, todo, strayed>> /\ Listed' = Listed
  BY DEF EdiSettles, Dies, manager, lifespan, Listed
<1>2. CASE EdiSettles(p)
  <2>1. Machine' /\ (Known => Known') /\ (VaultServes => VaultServes') /\ alive \ excused' \subseteq alive \ excused
    BY <1>2, SettleKeeps DEF Core
  <2>2. alive' = alive /\ vaultLost' = vaultLost
    BY <1>2 DEF EdiSettles
  <2> QED BY <1>1, <2>1, <2>2 DEF Core, Begins, Ahead, Excused
<1>3. CASE Dies(p)
  <2>1. /\ alive' = alive \ {p} /\ syncing' = syncing \ {p} /\ excused' = excused
        /\ daemon' = IF p = daemon THEN None ELSE daemon
        /\ vaultLost' = (vaultLost \/ p = Tracked("vault"))
    BY <1>3 DEF Dies
  <2>2. Machine' /\ (Known => Known')
    <3>1. syncing' \subseteq syncing \cap alive' /\ (daemon' = daemon \/ (daemon' = None /\ daemon \notin alive'))
      BY <2>1 DEF Core, Machine
    <3> QED BY <1>1, <2>1, <3>1, ShrinkKeeps DEF Core
  <2>3. ~vaultLost' /\ VaultServes => VaultServes'
    <3> SUFFICES ASSUME ~vaultLost', VaultServes, table # <<>> PROVE VaultServes'
      BY <1>1 DEF VaultServes
    <3>1. PICK r \in Listed : r[1] = "vault" /\ r \in alive
      BY DEF VaultServes
    <3>2. r = Tracked("vault")
      BY <3>1, TrackedIs DEF Core
    <3>3. r # p
      BY <2>1, <3>2
    <3> QED BY <1>1, <2>1, <3>1, <3>3 DEF VaultServes
  <2> QED BY <1>1, <2>1, <2>2, <2>3 DEF Core, Begins, Ahead, Excused
<1> QED BY <1>2, <1>3

-------------------------------------------------------------------------------
LEMMA GatewayStep == GatewayInd /\ [GatewayNext]_gatewayVars => GatewayInd'
<1>1. ASSUME GatewayInd, GatewayNext PROVE GatewayInd'
  <2>1. Rest' /\ Slot'
    BY <1>1, RestKeeps, SlotKeeps DEF GatewayInd, Core
  <2>2. Core'
    <3>1. Core /\ Rest
      BY <1>1 DEF GatewayInd
    <3>2. CASE CliStart
      BY <3>1, <3>2, CliStartKeeps
    <3>3. CASE VaultFails \/ JarvisFails
      BY <3>1, <3>3, GivenUpKeeps
    <3>4. CASE \E mandatory, edi, bot \in BOOLEAN : Checks(mandatory, edi, bot)
      BY <3>1, <3>4, ChecksKeeps
    <3>5. CASE \/ VaultUp \/ RuntimeUp \/ RuntimeFails \/ BootstrapReads \/ BootstrapSeeds \/ StartupRaises
               \/ RunBootstrap \/ Terminate
      BY <3>1, <3>5, QuietSteps, CalmKeeps
    <3>6. CASE SpawnJarvis \/ JarvisAnswers \/ (\E n \in Managed \ {"vault"} : StartService(n))
      BY <3>1, <3>6, LaunchesKeep
    <3>7. CASE \E n \in Managed \ {"vault"} : StopService(n)
      BY <3>1, <3>7, StopServiceKeeps
    <3>8. CASE \E i \in Identity : SetIdentity(i)
      BY <3>1, <3>8, SetIdentityKeeps
    <3>9. CASE BeginTeardown
      BY <3>1, <3>9, BeginKeeps
    <3>10. CASE StopNext
      BY <3>1, <3>10, StopNextKeeps
    <3>11. CASE Gone \/ Quit \/ ForceKill
      BY <3>1, <3>11, EndsKeep
    <3>12. CASE \E p \in Process : EdiSettles(p) \/ Dies(p)
      BY <3>1, <3>12, ProcessesKeep
    <3> QED BY <1>1, <3>2, <3>3, <3>4, <3>5, <3>6, <3>7, <3>8, <3>9, <3>10, <3>11, <3>12
            DEF GatewayNext, Startup, Routes, Teardown
  <2> QED BY <2>1, <2>2 DEF GatewayInd
<1>2. ASSUME GatewayInd, UNCHANGED gatewayVars PROVE GatewayInd'
  <2>1. UNCHANGED <<alive, earlier, daemon, syncing, table, sup, gw, todo, told, env, check, telegram,
                    config, seeded, speaks, faults, routes, excused, vaultLost, strayed, edited>>
    BY <1>2 DEF gatewayVars, machine, manager, lifespan, identity, budget, history
  <2>2. Rest' /\ Slot'
    BY <1>2, <2>1 DEF GatewayInd, Rest, Slot
  <2>3. Machine' /\ Begins' /\ Excused' /\ Listed' = Listed
    BY <1>2, <2>1 DEF GatewayInd, Core, Machine, Begins, Excused, Listed
  <2>4. (gw # "off" => Known') /\ (gw # "off" /\ ~vaultLost => VaultServes') /\ (gw = "stopping" => Ahead')
    BY <1>2, <2>1, <2>3 DEF GatewayInd, Core, Known, Owed, VaultServes, Ahead
  <2> QED BY <2>1, <2>2, <2>3, <2>4 DEF GatewayInd, Core
<1> QED BY <1>1, <1>2

\* What the invariant says at the moments the property looks at.
LEMMA GatewayFollows == GatewayInd => GatewayKeeps
<1> SUFFICES ASSUME GatewayInd PROVE GatewayKeeps
  OBVIOUS
<1>1. GatewayTypeOK
  <2>1. table \in Seq(Process)
    <3>1. Len(table) \in Nat /\ DOMAIN table = 1..Len(table) /\ \A i \in 1..Len(table) : table[i] \in Process
      BY TableIs, RowsArePairs DEF GatewayInd, Core
    <3>2. table \in [1..Len(table) -> Process]
      BY <3>1 DEF GatewayInd, Core, Machine
    <3> QED BY <3>1, <3>2, SeqDef
  <2>2. /\ alive \subseteq Process /\ syncing \subseteq Process
        /\ daemon \in Process \cup {None} /\ sup \in Process \cup {None}
    BY DEF GatewayInd, Core, Machine, Copy, Process, Name, Managed
  <2> QED BY <2>1, <2>2 DEF GatewayInd, Rest, GatewayTypeOK
<1>2. Survivors
  BY DEF GatewayInd, Core, Excused, Survivors
<1>3. VaultOutlives
  <2> SUFFICES ASSUME gw # "off", ~vaultLost, NEW p \in Listed PROVE Tracked("vault") \in alive
    BY DEF VaultOutlives, Listed
  <2>1. table # <<>>
    BY DEF Listed, Range
  <2>2. PICK r \in Listed : r[1] = "vault" /\ r \in alive
    BY <2>1 DEF GatewayInd, Core, VaultServes
  <2> QED BY <2>2, TrackedIs DEF GatewayInd, Core
<1>4. SeededSlot
  BY DEF GatewayInd, Slot, SeededSlot
<1> QED BY <1>1, <1>2, <1>3, <1>4 DEF GatewayKeeps

\* A gateway that ends in order leaves nothing but what the code lets go, its vault
\* outlives the processes it serves, and Jarvis runs under the identity that was seeded:
\* for every number of processes, faults, routes and edits.
THEOREM GatewayKeepsItsOwn == GatewaySpec => []GatewayKeeps
<1>1. GatewayInit => GatewayInd
  <2> SUFFICES ASSUME GatewayInit PROVE GatewayInd
    OBVIOUS
  <2>1. Rest
    <3>1. Anyone \in Identity
      BY GatewayAssumption DEF Anyone
    <3>2. /\ {env, config, speaks, check.for} \subseteq Identity /\ seeded \subseteq Identity
          /\ told \in BOOLEAN /\ telegram \in BOOLEAN /\ earlier \subseteq Process
      BY <3>1 DEF GatewayInit, Unchecked
    <3>3. faults \in 0 .. MaxFaults /\ routes \in 0 .. MaxRoutes
      BY GatewayAssumption DEF GatewayInit
    <3> QED BY <3>2, <3>3 DEF GatewayInit, Rest
  <2>2. table \in Seq(Row) /\ OnePerName(table)
    BY EmptySeq DEF GatewayInit, OnePerName
  <2>3. Core
    BY <2>2 DEF GatewayInit, Core, Machine, Begins, Excused
  <2> QED BY <2>1, <2>3 DEF GatewayInit, GatewayInd, Slot
<1> QED BY <1>1, GatewayStep, GatewayFollows, PTL DEF GatewaySpec
===============================================================================
