------------------------------ MODULE FileActions ------------------------------
(***************************************************************************)
(* The two families of file actions, through the virtual file system and    *)
(* on host paths, from the guardian's gates to the thread of the adapter.   *)
(* A path that was judged is opened later: between the two a process may    *)
(* have put a symbolic link in its place, and a thread its caller has given *)
(* up goes on.                                                              *)
(*                                                                          *)
(* The mount of the virtual file system is the directory "docs", whose      *)
(* name is a prefix of its sibling "docs2".  A virtual path is called by    *)
(* the name of the real path it stands for; a file's text is the sequence   *)
(* of the rows written to it.                                               *)
(***************************************************************************)
EXTENDS Naturals, Sequences, FiniteSets

CONSTANTS
  Op,        \* the operations, in the order in which they are asked for
  Setup,     \* configurations: owner, static mount, use of the registry, policy, scopes
  MaxRelink  \* bound: how often a process replaces a name by a link

Place == {"docs/a", "docs/link", "docs/hook", "docs2/s", "~/.ssh/k", "out"}

ASSUME FilesAssumption ==
  /\ IsFiniteSet(Op) /\ Op = 1..Cardinality(Op)
  /\ Setup \subseteq [owner : BOOLEAN, static : {"ro", "rw"}, registry : BOOLEAN, constrained : BOOLEAN,
                     allowed : SUBSET Place, reads : SUBSET Place, writes : SUBSET Place]
  /\ MaxRelink \in Nat
InMount == {"docs/a", "docs/link", "docs/hook"}

VARIABLES
  setup,      \* one of Setup
  workspace,  \* the resource registry's mount: "absent", "ro" or "rw"
  mount,      \* the mount the adapter has: "unset" before it is made
  link,       \* where each name leads: itself, if it is no link
  text,       \* the rows of each file that exists
  ops,         \* the operations
  lane,       \* the operation that holds the pipeline's lock, or 0
  relinks

fileVars == <<setup, workspace, mount, link, text, ops, lane, relinks>>
store == <<link, text>>
place == <<setup, workspace, mount>>

NewOp == [fam |-> "vfs", act |-> "read", path |-> "docs/a", phase |-> "new", told |-> "none",
          saw |-> "none", at |-> "none", buf |-> <<>>, answer |-> "none"]

Family == {"vfs", "host"}
Act == {"read", "list", "write", "append", "delete"}
Mutating == {"write", "append", "delete"}
NoText == <<0, 0>>   \* no file; <<0>> is what was there at first
Exists(n) == text[n] # NoText

(* _RAW_DENY_WRITE_PREFIXES; what begins with ~ is dropped without an owner.*)
Floor == IF setup.owner THEN {"~/.ssh/k"} ELSE {}
(* canonicalize_real_path.                                                  *)
Canonical(n) == link[n]

-----------------------------------------------------------------------------
(* The resource registry, and the adapter that asks it once.                *)

CreateWorkspace ==
  /\ workspace = "absent" /\ mount = "unset"
  /\ workspace' \in {"ro", "rw"}
  /\ UNCHANGED <<setup, mount, store, ops, lane, relinks>>

(* _resolve_mounts: the registry's, or on any error the static ones.        *)
Boot ==
  /\ mount = "unset"
  /\ mount' \in {setup.static} \cup (IF setup.registry /\ workspace # "absent" THEN {workspace} ELSE {})
  /\ UNCHANGED <<workspace, setup, store, ops, lane, relinks>>

-----------------------------------------------------------------------------
(* The guardian.                                                            *)

(* build_destination_intel: where a write to a host path would go.          *)
DestinationIntel(o) == IF o.fam = "host" THEN Canonical(o.path) ELSE o.path

(* enforce_constraints of both bundles.                                     *)
PathMatches(o) == (IF o.fam = "host" THEN Canonical(o.path) ELSE o.path) \in setup.allowed

(* is_sensitive_write_path: by the name, for WRITE_FILE only.               *)
Sensitive(o) == o.fam = "vfs" /\ o.act = "write" /\ o.path \in {"docs/hook"}

(* decide_host_file_floor.                                                  *)
HostFloor(o) == o.fam = "host" /\ o.act \in {"write", "delete"} /\ Canonical(o.path) \in Floor

Permitted(o) == (setup.constrained => PathMatches(o)) /\ ~Sensitive(o) /\ ~HostFloor(o)

Offered(f, a, p) == (f = "vfs" => p \in InMount) /\ (f = "host" => a # "append")

(* Mutant: the pipeline does not wait for its lock.                         *)
AnyTurn(i) == \A j \in 1..(i - 1) : ops[j].phase # "new"

(* The lock is free, and the intents before this one have had it.           *)
Turn(i) == lane = 0 /\ \A j \in 1..(i - 1) : ops[j].phase # "new"

Guard(i) ==
  /\ ops[i].phase = "new" /\ mount # "unset" /\ Turn(i)
  /\ \E f \in Family, a \in Act, p \in Place :
       /\ Offered(f, a, p)
       /\ LET o == [ops[i] EXCEPT !.fam = f, !.act = a, !.path = p]
              intel == IF a \in {"write", "append"} THEN DestinationIntel(o) ELSE "none"
          IN IF Permitted(o)
             THEN ops' = [ops EXCEPT ![i] = [o EXCEPT !.phase = "permitted", !.told = intel]] /\ lane' = i
             ELSE ops' = [ops EXCEPT ![i] = [NewOp EXCEPT !.phase = "over", !.answer = "blocked"]] /\ UNCHANGED lane
  /\ UNCHANGED <<place, store, relinks>>

-----------------------------------------------------------------------------
(* The adapter's thread.                                                    *)

(* MountPointResolver.resolve: the end of the path begins with the mount's  *)
(* path, as a string.                                                       *)
WithinMount(o) == Canonical(o.path) \in InMount \cup {"docs2/s"}

(* Mutant: the floor compares the path as it is written.                    *)
OffFloorByName(o) == o.act \in Mutating => o.path \notin Floor

OffFloor(o) == o.act \in Mutating => Canonical(o.path) \notin Floor

(* The mount's boundary and its flag; the executor's scopes.                *)
InScope(o) ==
  IF o.fam = "vfs" THEN WithinMount(o) /\ (o.act \in Mutating => mount = "rw")
  ELSE Canonical(o.path) \in IF o.act \in Mutating THEN setup.writes ELSE setup.reads

FirstStep(a) ==
  IF a = "delete" THEN "unlinks" ELSE IF a = "write" THEN "opens" ELSE "reads"

(* The caller gets what the thread returns, if it still waits.              *)
Return(i, o, answer) ==
  /\ ops' = [ops EXCEPT ![i] =
        [NewOp EXCEPT !.phase = "over", !.act = o.act, !.at = o.at,
                      !.buf = IF o.act = "read" THEN o.buf ELSE <<>>,
                      !.answer = IF o.answer = "timeout" THEN o.answer ELSE answer]]
  /\ lane' = IF lane = i THEN 0 ELSE lane

Step(i, o, phase) == ops' = [ops EXCEPT ![i] = [o EXCEPT !.phase = phase]] /\ UNCHANGED lane

(* Everything that is checked before the first byte.                        *)
Check(i) ==
  LET o == [ops[i] EXCEPT !.saw = Canonical(ops[i].path)] IN
  /\ o.phase = "permitted"
  /\ IF OffFloor(o) /\ InScope(o) THEN Step(i, o, FirstStep(o.act)) ELSE Return(i, o, "error")
  /\ UNCHANGED <<place, store, relinks>>

(* The host adapter opens the canonical path, the virtual one its own.      *)
Opened(o) == IF o.fam = "host" THEN link[o.saw] ELSE link[o.path]

(* _read wants a file that exists; _list a directory, list_directory shows  *)
(* anything else as empty.                                                  *)
ReadAnswer(n) == IF Exists(n) THEN "ok" ELSE "error"
ListAnswer(o) == IF o.fam = "vfs" THEN "ok" ELSE "error"

(* What is there is kept for the answer, or for the row to come.            *)
Reads(i) ==
  LET o == ops[i] n == Opened(o) IN
  /\ o.phase = "reads"
  /\ \/ o.act = "append" /\ Step(i, [o EXCEPT !.buf = IF Exists(n) THEN text[n] ELSE <<>>], "opens")
     \/ o.act = "list" /\ Return(i, o, ListAnswer(o))
     \/ o.act = "read" /\ Return(i, [o EXCEPT !.buf = IF Exists(n) THEN text[n] ELSE @], ReadAnswer(n))
     \/ Return(i, o, "error")
  /\ UNCHANGED <<place, store, relinks>>

(* write_text opens the file, which empties it, or raises ...               *)
Opens(i) ==
  LET n == Opened(ops[i]) IN
  /\ ops[i].phase = "opens"
  /\ \/ text' = [text EXCEPT ![n] = <<>>] /\ Step(i, [ops[i] EXCEPT !.at = n], "puts")
     \/ Return(i, ops[i], "error") /\ UNCHANGED text
  /\ UNCHANGED <<place, link, relinks>>

(* ... and then writes it; a file unlinked in between is written in vain.   *)
Puts(i) ==
  LET o == ops[i] IN
  /\ o.phase = "puts"
  /\ text' = [text EXCEPT ![o.at] = IF Exists(o.at) THEN o.buf \o <<i>> ELSE @]
  /\ Return(i, o, "ok")
  /\ UNCHANGED <<place, link, relinks>>

(* ... or raises behind the open (a full disk, a character that cannot be   *)
(* encoded), which leaves as much of it as was written.                     *)
Breaks(i) ==
  LET o == ops[i] IN
  /\ o.phase = "puts"
  /\ \E k \in 0..(Len(o.buf) + 1) :
       text' = [text EXCEPT ![o.at] = IF Exists(o.at) THEN SubSeq(o.buf \o <<i>>, 1, k) ELSE @]
  /\ Return(i, o, "error")
  /\ UNCHANGED <<place, link, relinks>>

(* A write that failed when its file was open already.                      *)
Torn(o) == o.phase = "over" /\ o.answer = "error" /\ o.at # "none"

(* delete_file removes the link itself, _delete what it led to.             *)
Unlinked(o) == IF o.fam = "host" THEN o.saw ELSE o.path

Unlinks(i) ==
  LET o == ops[i] n == Unlinked(o)
  IN /\ o.phase = "unlinks"
     /\ \/ /\ IF Exists(link[n])
              THEN IF link[n] # n THEN link' = [link EXCEPT ![n] = n] /\ UNCHANGED text
                                  ELSE text' = [text EXCEPT ![n] = NoText] /\ UNCHANGED link
              ELSE UNCHANGED store
           /\ Return(i, o, "ok")
        \/ Return(i, o, "error") /\ UNCHANGED store
     /\ UNCHANGED <<place, relinks>>

(* safe_execute stops waiting; the thread of to_thread cannot be cancelled. *)
GivesUp(i) ==
  /\ lane = i /\ ops[i].phase \notin {"new", "over"}
  /\ ops' = [ops EXCEPT ![i].answer = "timeout"]
  /\ lane' = 0
  /\ UNCHANGED <<place, store, relinks>>

(* A process puts a link in the place of a name.                            *)
Relink ==
  /\ relinks < MaxRelink
  /\ \E t \in {"docs2/s", "~/.ssh/k"} :
       link' = [link EXCEPT !["docs/a"] = t] /\ text' = [text EXCEPT !["docs/a"] = NoText]
  /\ relinks' = relinks + 1
  /\ UNCHANGED <<place, ops, lane>>

-----------------------------------------------------------------------------
FilesInit ==
  /\ setup \in Setup
  /\ workspace = "absent" /\ mount = "unset"
  /\ \E t \in {"docs/hook", "docs2/s", "~/.ssh/k"} :
       link = [n \in Place |-> IF n = "docs/link" THEN t ELSE n]
  /\ text = [n \in Place |-> IF n = "docs/link" THEN NoText ELSE <<0>>]
  /\ ops = [i \in Op |-> NewOp]
  /\ lane = 0 /\ relinks = 0

FilesNext ==
  \/ CreateWorkspace \/ Boot \/ Relink
  \/ \E i \in Op : Guard(i) \/ Check(i) \/ Reads(i) \/ Opens(i) \/ Puts(i) \/ Breaks(i) \/ Unlinks(i) \/ GivesUp(i)

FilesSpec == FilesInit /\ [][FilesNext]_fileVars

-----------------------------------------------------------------------------
(* Properties: what the gates and the adapters of the file actions must     *)
(* keep while links change under them and threads outlive their callers.    *)

(* Somebody has stopped waiting for an operation.                           *)
GaveUp == \E i \in Op : ops[i].answer = "timeout"

(* The operation that changes a file in this step.                          *)
Changes(i, n) ==
  /\ text'[n] # text[n]
  /\ ops[i].phase \in {"opens", "puts", "unlinks"} /\ ops'[i].phase # ops[i].phase

(* A place of the floor changes only under an operation whose path led      *)
(* elsewhere when it was checked: whatever the policy, the mount and the    *)
(* scopes allow (floor.py: what no workspace can opt out of).               *)
FloorKept(i, n) == n \in Floor => ops[i].saw # n

(* Through the virtual file system nothing outside the mount changes, unless *)
(* a link was changed after the check.  The exception is a sibling whose    *)
(* name begins with the mount's (virtual_filesystem.py:174).                *)
MountKept(i, n) == ops[i].fam = "vfs" => n \in InMount \cup {"docs2/s"} \/ ops[i].saw # n

(* What a write to a host path changes is what the guardian was told of the *)
(* destination, links followed, unless a link was changed since: by another *)
(* process, or by a thread whose caller has given it up.                    *)
ToldTheTruth(i, n) ==
  ops[i].fam = "host" /\ ops[i].act = "write" => ops[i].told = n \/ relinks > 0 \/ GaveUp

(* Every change of a file keeps to the floor and the mount, and is the one  *)
(* the guardian was told of, whatever happens to the links meanwhile.       *)
FloorHolds ==
  [][\A i \in Op, n \in Place :
       Changes(i, n) => FloorKept(i, n) /\ MountKept(i, n) /\ ToldTheTruth(i, n)]_fileVars

(* As long as nobody gave up waiting, every row that was reported written   *)
(* is in its file, or a later operation has rewritten or deleted it, and no *)
(* read shows a file that is being written: the lock of the pipeline is     *)
(* what makes read, rewrite and truncation one operation.  It is no         *)
(* transaction: a write that fails behind its open takes the rows of its    *)
(* file along (virtual_filesystem.py:214), and may leave it empty.          *)
RowsKept ==
  ~GaveUp =>
    \A i \in Op :
      /\ ops[i].answer = "ok" /\ ops[i].act \in {"write", "append"} =>
           \/ \E k \in DOMAIN text[ops[i].at] : text[ops[i].at][k] = i
           \/ \E j \in Op : j > i /\ ops[j].act \in {"write", "delete"} /\ ops[j].phase # "new"
           \/ \E j \in Op : j > i /\ ops[j].at = ops[i].at /\ (ops[j].phase = "puts" \/ Torn(ops[j]))
           \/ relinks > 0
      /\ ops[i].answer = "ok" /\ ops[i].act = "read" /\ ops[i].buf = <<>> =>
           \E j \in Op : j < i /\ Torn(ops[j])
===============================================================================
