-------------------------------- MODULE AirLock --------------------------------
(***************************************************************************)
(* What a security lane promises: intents pass through it one at a time, an *)
(* action takes effect at most once, and the world changes only on behalf   *)
(* of the intent inside or of one that left before its action was over.     *)
(* Nothing is said of queues, policies, services or processes.              *)
(***************************************************************************)
EXTENDS Sequences

CONSTANT Req

VARIABLES
  inside,      \* the intent being judged and carried out, if any
  stragglers,  \* intents that left, and whose action may still take effect
  timeline     \* the actions that took effect, in order

vars == <<inside, stragglers, timeline>>

Acted == {timeline[i] : i \in DOMAIN timeline}

Init == inside = {} /\ stragglers = {} /\ timeline = <<>>

Enter(r) ==
  /\ inside = {}
  /\ inside' = {r}
  /\ UNCHANGED <<stragglers, timeline>>

Act(r) ==
  /\ r \in inside \cup stragglers
  /\ r \notin Acted
  /\ timeline' = Append(timeline, r)
  /\ stragglers' = stragglers \ {r}
  /\ UNCHANGED inside

\* Its action is over, or is left behind.
Leave ==
  /\ inside # {}
  /\ inside' = {}
  /\ stragglers' \in {stragglers, stragglers \cup inside}
  /\ UNCHANGED timeline

\* What was left behind comes to nothing.
Fade ==
  /\ \E r \in stragglers : stragglers' = stragglers \ {r}
  /\ UNCHANGED <<inside, timeline>>

Next == Leave \/ Fade \/ \E r \in Req : Enter(r) \/ Act(r)

Spec == Init /\ [][Next]_vars
===============================================================================
