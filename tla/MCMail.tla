-------------------------------- MODULE MCMail --------------------------------
(* The mail daemon for TLC, its two halves side by side: the connections of *)
(* one account (part = "pool", MailPool) and what is synchronised over them *)
(* (MailSync).  They meet only in the connection a task has or has lost, so *)
(* TLC takes one of them at a time: the half that part does not name stays  *)
(* in its initial state.  MailSync starts in four settings, each with less  *)
(* of what makes its states many: every message there at the start, none,   *)
(* no operations of the client (part = "calm"), nothing that goes wrong.    *)
(* Fairness is stated for "pool" and "calm".                                *)
EXTENDS MailPool, MailSync

VARIABLE part

allVars == <<part, vars, syncVars>>

InboxOnly == <<"INBOX">>
ArchiveOnly == <<"Archive">>

\* The old message can only be there at the start; what arrives is recent.
From(s, troubles, calls) ==
  [content |-> [f \in {"INBOX", "Archive"} |-> IF f = "INBOX" THEN s ELSE <<>>],
   trouble |-> troubles, ops |-> calls]
Settings ==
  {From(<<"old", "new">>, 1, 1), From(<<>>, 1, 1), From(<<"old">>, 1, 0), From(<<"old">>, 0, 1)}

MailInit ==
  /\ Init /\ SyncInit
  /\ \/ part = "sync" /\ ops = 1
     \/ part = "calm" /\ ops = 0
     \/ part = "pool" /\ ops = 0

MailNext ==
  \/ part = "pool" /\ Next /\ UNCHANGED <<part, syncVars>>
  \/ part # "pool" /\ SyncNext /\ UNCHANGED <<part, vars>>

\* Fair of MailPool, and SyncFairness of MailSync.
MailSpec ==
  /\ MailInit /\ [][MailNext]_allVars
  /\ \A t \in Borrower :
       /\ WF_vars(part = "pool" /\ Woken(t))
       /\ WF_vars(part = "pool" /\ (Healthy(t) \/ Unhealthy(t)))
       /\ WF_vars(part = "pool" /\ (Returns(t) \/ Raises(t)))
  /\ \A c \in Conn : WF_vars(part = "pool" /\ (LoggedIn(c) \/ Refused(c)))
  /\ WF_syncVars(part = "calm" /\ Start) /\ WF_syncVars(part = "calm" /\ Idle)
  /\ WF_syncVars(part = "calm" /\ Backfill) /\ WF_syncVars(part = "calm" /\ Periodic)

\* A daemon that stays up catches up: CatchesUp of MailSync, where its fairness is
\* stated.
InTheEnd == part = "calm" => CatchesUp
===============================================================================
