------------------------------ MODULE Credentials ------------------------------
(***************************************************************************)
(* The credential vault: one namespace of secrets in one of the backends,   *)
(* the metadata beside it, the service's requests, and, for HashiCorp       *)
(* Vault, the token the backend uses and the loop that renews it.           *)
(* Time counts half seconds: Vault reports whole seconds.                   *)
(***************************************************************************)
EXTENDS Naturals, FiniteSets, FiniteSetsExt

CONSTANTS
  Client, Key, Value,
  Absent,      \* no secret, no record
  Backend,     \* the backends: a subset of {"keyring", "env", "hashicorp"}
  Period,      \* half seconds a renewal grants
  Life,        \* half seconds after which Vault renews a token no more
  MinSleep,    \* _MIN_RENEW_SLEEP
  Backoff,     \* _RENEW_BACKOFF
  MaxJobs,     \* bound: requests
  MaxTrouble   \* bound: crashes, and calls of Vault, the keyring and SQLite that fail

ASSUME VaultAssumption ==
  /\ Absent \notin Value
  /\ Backend \subseteq {"keyring", "env", "hashicorp"} /\ Backend # {}
  /\ Period \in Nat \ {0} /\ Life \in Nat \ {0} /\ Period <= Life
  /\ MinSleep \in Nat \ {0} /\ Backoff \in Nat \ {0}
  /\ MaxJobs \in Nat /\ MaxTrouble \in Nat

VARIABLES
  backend,
  fields,    \* the secrets of the namespace
  records,   \* the metadata as the service reads it: the preview of each key
  kept,      \* the metadata on disk: without a row whose commit failed
  job,       \* what each client asked for, and how far the service is
  role,      \* is an AppRole configured, to log in again with?
  renewable, \* what Vault says of the token
  left,      \* half seconds until the token is dead
  life,      \* half seconds until it can be renewed no more
  loop,      \* the renewal loop: idle, lookup, nap, renew, login, backoff, stopped
  nap,       \* half seconds it sleeps on
  jobs, trouble,   \* what is left of the bounds
  torn       \* history: keys whose last change was cut in two, overlapped or undone

store == <<backend, fields, records, kept, job>>
token == <<role, renewable, left, life, loop, nap>>
vars == <<store, token, jobs, trouble, torn>>

Idle == [do |-> "none"]
Changes == {"put", "delete"}
Doing(c, k) == job[c].do \in Changes /\ job[c].key = k
LivingToken == backend = "hashicorp" => left > 0

-----------------------------------------------------------------------------
(* The renewal loop.                                                        *)

(* Vault's "ttl": whole seconds.                                            *)
Reported == left \div 2

(* _ensure_renewal: every call to the backend makes sure the loop runs.     *)
Ensured == IF loop = "idle" /\ backend = "hashicorp" THEN "lookup" ELSE loop

Sleep(seconds) == Max({seconds, MinSleep})

(* A token without a TTL needs no renewal.                                  *)
Lookup ==
  /\ loop = "lookup" /\ left > 0
  /\ IF Reported = 0
     THEN loop' = "stopped" /\ nap' = 0
     ELSE loop' = "nap" /\ nap' = Sleep(Reported)
  /\ UNCHANGED <<store, role, renewable, left, life, jobs, trouble, torn>>

(* renew_self extends the token by its period, up to its maximal life; a    *)
(* token that is not renewable is replaced, with a role.                    *)
Renew ==
  /\ loop = "renew"
  /\ \/ /\ renewable /\ left > 0
        /\ left' = Min({Period, life}) /\ life' = life /\ loop' = "lookup"
     \/ /\ ~renewable /\ role
        /\ left' = Period /\ life' = Life /\ loop' = "lookup"
     \/ /\ ~renewable /\ ~role
        /\ loop' = "stopped" /\ UNCHANGED <<left, life>>
  /\ UNCHANGED <<store, role, renewable, nap, jobs, trouble, torn>>

(* Mutant: without a word, the loop ends when Vault refuses.                *)
GivesUp == "stopped"

Recovery == IF role THEN "login" ELSE "stopped"

(* A call with a dead token is refused; any call may fail.                  *)
CallFails ==
  /\ loop \in {"lookup", "renew"}
  /\ IF left = 0 /\ (loop = "lookup" \/ renewable) THEN UNCHANGED trouble
     ELSE trouble > 0 /\ trouble' = trouble - 1
  /\ loop' = Recovery
  /\ UNCHANGED <<store, role, renewable, left, life, nap, jobs, torn>>

Login ==
  /\ loop = "login"
  /\ \/ /\ left' = Period /\ life' = Life /\ loop' = "lookup"
        /\ UNCHANGED <<nap, trouble>>
     \/ /\ trouble > 0 /\ trouble' = trouble - 1
        /\ loop' = "backoff" /\ nap' = Backoff
        /\ UNCHANGED <<left, life>>
  /\ UNCHANGED <<store, role, renewable, jobs, torn>>

(* Half a second.                                                           *)
Tick ==
  /\ backend = "hashicorp" /\ (left > 0 \/ nap > 0)
  /\ left' = IF left > 0 THEN left - 1 ELSE 0
  /\ life' = IF life > 0 THEN life - 1 ELSE 0
  /\ nap' = IF nap > 0 THEN nap - 1 ELSE 0
  /\ loop' = IF nap # 1 THEN loop
             ELSE IF loop = "nap" THEN "renew" ELSE "lookup"
  /\ UNCHANGED <<store, role, renewable, jobs, trouble, torn>>

-----------------------------------------------------------------------------
(* The requests.                                                            *)

(* HashiCorp reads the whole namespace before it writes it.                 *)
Request(c, do, k, v) ==
  /\ jobs > 0 /\ job[c] = Idle
  /\ jobs' = jobs - 1
  /\ job' = [job EXCEPT ![c] =
       [do |-> do, key |-> k, value |-> v, seen |-> <<>>,
        at |-> IF backend = "hashicorp" /\ do \in Changes THEN "read" ELSE "store"]]
  /\ loop' = Ensured
  /\ UNCHANGED <<backend, fields, records, kept, role, renewable, left, life, nap, trouble, torn>>

(* _read_fields, in a thread.                                               *)
ReadFields(c) ==
  /\ job[c].do # "none" /\ job[c].at = "read" /\ LivingToken
  /\ job' = [job EXCEPT ![c].at = "store", ![c].seen = fields]
  /\ UNCHANGED <<backend, fields, records, kept, token, jobs, trouble, torn>>

(* What the write leaves: HashiCorp writes the namespace as it was read.    *)
(* Mutant: only the field that is stored.                                   *)
WrittenAlone(c) ==
  LET f == job[c] IN
  [k \in Key |-> IF k = f.key THEN f.value
                 ELSE IF backend = "hashicorp" THEN Absent ELSE fields[k]]

Written(c) ==
  LET f == job[c]
      before == IF backend = "hashicorp" THEN f.seen ELSE fields
  IN [before EXCEPT ![f.key] = f.value]

(* A delete of a key that the namespace did not have writes nothing.        *)
NothingToDelete(c) ==
  backend = "hashicorp" /\ job[c].do = "delete" /\ job[c].seen[job[c].key] = Absent

Left(c) == IF NothingToDelete(c) THEN fields ELSE Written(c)

(* What the write does to other keys; and whether the change of its own key *)
(* is alone: it is what mends a key that was torn.                          *)
Undone(c) == {k \in Key \ {job[c].key} : Left(c)[k] # fields[k]}
Alone(c) == \A d \in Client \ {c} : ~Doing(d, job[c].key)
Mends(c) == Alone(c) /\ Left(c)[job[c].key] = job[c].value

WriteFields(c) ==
  /\ job[c].do \in Changes /\ job[c].at = "store" /\ LivingToken
  /\ fields' = Left(c)
  /\ torn' = (torn \ {job[c].key}) \cup Undone(c) \cup IF Mends(c) THEN {} ELSE {job[c].key}
  /\ job' = [job EXCEPT ![c].at = "record", ![c].seen = <<>>]
  /\ UNCHANGED <<backend, records, kept, token, jobs, trouble>>

(* Vault has written and its answer is lost: the request ends in an error,  *)
(* and nobody writes the record.                                            *)
AnswerLost(c) ==
  /\ job[c].do \in Changes /\ job[c].at = "store" /\ LivingToken
  /\ backend = "hashicorp" /\ ~NothingToDelete(c)
  /\ trouble > 0 /\ trouble' = trouble - 1
  /\ fields' = Left(c)
  /\ torn' = torn \cup Undone(c) \cup {job[c].key}
  /\ job' = [job EXCEPT ![c] = Idle]
  /\ UNCHANGED <<backend, records, kept, token, jobs>>

(* The keyring does not delete: any refusal is taken for an absent secret,  *)
(* and the record goes.                                                     *)
KeyringRefuses(c) ==
  /\ job[c].do = "delete" /\ job[c].at = "store" /\ backend = "keyring"
  /\ trouble > 0 /\ trouble' = trouble - 1
  /\ torn' = torn \cup {job[c].key}
  /\ job' = [job EXCEPT ![c].at = "record"]
  /\ UNCHANGED <<backend, fields, records, kept, token, jobs>>

(* The record follows, and the commit keeps every row before it as well;    *)
(* then the request is answered.                                            *)
(* Mutant: a delete leaves the record.                                      *)
RecordKept(c) ==
  [records EXCEPT ![job[c].key] = IF job[c].do = "delete" THEN @ ELSE job[c].value]

Recorded(c) == [records EXCEPT ![job[c].key] = job[c].value]

WriteRecord(c) ==
  /\ job[c].do \in Changes /\ job[c].at = "record"
  /\ records' = Recorded(c) /\ kept' = records'
  /\ job' = [job EXCEPT ![c] = Idle]
  /\ torn' = torn \cup IF Alone(c) THEN {} ELSE {job[c].key}
  /\ UNCHANGED <<backend, fields, token, jobs, trouble>>

(* SQLite refuses the row, or its commit: the secret is written and the     *)
(* request ends in an error.                                                *)
RecordFails(c) ==
  /\ job[c].do \in Changes /\ job[c].at = "record"
  /\ trouble > 0 /\ trouble' = trouble - 1
  /\ records' \in {records, Recorded(c)}
  /\ job' = [job EXCEPT ![c] = Idle]
  /\ torn' = torn \cup {job[c].key}
  /\ UNCHANGED <<backend, fields, kept, token, jobs>>

(* get, which notes the use of a secret it found, and has, which does not.  *)
Get(c) ==
  /\ job[c].do = "get" /\ LivingToken
  /\ kept' \in {kept} \cup IF fields[job[c].key] # Absent THEN {records} ELSE {}
  /\ job' = [job EXCEPT ![c] = Idle]
  /\ UNCHANGED <<backend, fields, records, token, jobs, trouble, torn>>

(* The backend fails before it has changed anything, or the note of a use   *)
(* does: the request is answered with an error.                             *)
RequestFails(c) ==
  /\ job[c].do # "none" /\ job[c].at # "record"
  /\ IF LivingToken THEN trouble > 0 /\ trouble' = trouble - 1 ELSE UNCHANGED trouble
  /\ job' = [job EXCEPT ![c] = Idle]
  /\ UNCHANGED <<backend, fields, records, kept, token, jobs, torn>>

(* The service dies and is started again: env forgets, SQLite takes back    *)
(* what was not committed, the token is new.                                *)
Crash ==
  /\ trouble > 0 /\ trouble' = trouble - 1
  /\ torn' = torn \cup {job[c].key : c \in {d \in Client : job[d].do \in Changes /\ job[d].at = "record"}}
                  \cup IF backend = "env" THEN Key ELSE {}
  /\ job' = [c \in Client |-> Idle]
  /\ fields' = IF backend = "env" THEN [k \in Key |-> Absent] ELSE fields
  /\ left' = Period /\ life' = Life /\ loop' = "idle" /\ nap' = 0
  /\ records' = kept
  /\ UNCHANGED <<backend, kept, role, renewable, jobs>>

-----------------------------------------------------------------------------
Init ==
  /\ backend \in Backend
  /\ fields \in [Key -> Value \cup {Absent}] /\ records = fields /\ kept = fields
  /\ job = [c \in Client |-> Idle]
  /\ role \in BOOLEAN /\ renewable \in BOOLEAN
  /\ backend # "hashicorp" => role /\ renewable
  /\ left = Period /\ life = Life /\ loop = "idle" /\ nap = 0
  /\ jobs = MaxJobs /\ trouble = MaxTrouble /\ torn = {}

Serve(c) ==
  \/ ReadFields(c) \/ WriteFields(c) \/ AnswerLost(c) \/ KeyringRefuses(c)
  \/ WriteRecord(c) \/ RecordFails(c) \/ Get(c) \/ RequestFails(c)
Asks(c) ==
  \E k \in Key :
    \/ \E v \in Value : Request(c, "put", k, v)
    \/ Request(c, "delete", k, Absent)
    \/ Request(c, "get", k, Absent)
Renewal == Lookup \/ Renew \/ CallFails \/ Login

Next ==
  \/ \E c \in Client : Asks(c) \/ Serve(c)
  \/ Renewal \/ Tick \/ Crash

Spec == Init /\ [][Next]_vars

FairSpec == Spec /\ WF_vars(Renewal) /\ WF_vars(Tick) /\ \A c \in Client : WF_vars(Serve(c))

-----------------------------------------------------------------------------
(* Properties.                                                              *)

(* The variables hold what the code can put there.                          *)
TypeOK ==
  /\ backend \in Backend /\ {role, renewable} \subseteq BOOLEAN
  /\ {fields, records, kept} \subseteq [Key -> Value \cup {Absent}]
  /\ left \in 0 .. Period /\ life \in 0 .. Life /\ torn \subseteq Key
  /\ loop \in {"idle", "lookup", "nap", "renew", "login", "backoff", "stopped"}

(* A change of one key leaves the others of its namespace alone, unless the *)
(* namespace changed between HashiCorp's read and write                     *)
(* (hashicorp_backend.py:258-297), or the process forgot them all.          *)
OnlyItsKey ==
  [][\A k \in Key : fields'[k] # fields[k] =>
       \/ backend = "env" /\ trouble' < trouble
       \/ \E c \in Client :
            /\ job[c].do \in Changes /\ job[c].at = "store" /\ job'[c] # job[c]
            /\ \/ job[c].key = k
               \/ backend = "hashicorp" /\ job[c].seen # fields]_vars

(* Between requests the record of a key shows its secret, on disk and as    *)
(* the service reads it: whatever went wrong before (a lost answer, a       *)
(* failing record, a crash between the two), the next change of the key     *)
(* that is carried out, recorded and not overlapped by another change of    *)
(* it mends it.  After that only a HashiCorp write of another key undoes    *)
(* it, and env, which forgets; a refusal that the keyring backend takes for *)
(* success leaves it torn (server.py:135-175, metadata.py:86-133,           *)
(* hashicorp_backend.py:258-297, keyring_backend.py:69-77).                 *)
RecordsTell ==
  \A k \in Key : (\A c \in Client : ~Doing(c, k)) /\ k \notin torn =>
    records[k] = fields[k] /\ kept[k] = fields[k]

(* What the vault holds is what its clients put there, and it tells so.     *)
VaultTells == TypeOK /\ RecordsTell

(* With a role, a loop that meets a dead token gets a new one: the failures *)
(* of Vault delay it and never end it (hashicorp_backend.py:154-200).       *)
Recovers ==
  role /\ loop \in {"lookup", "renew", "login", "backoff"} /\ left = 0 ~> left > 0
===============================================================================
