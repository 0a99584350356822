----------------------------- MODULE MCSecurityLane ----------------------------
(* SecurityLane for TLC: two intents with every kind of fault, or three    *)
(* whose calls of the executor may fail.                                     *)
EXTENDS LaneProperties

CONSTANTS i1, i2, i3

VARIABLE kinds      \* the faults that may happen

Kinds == {"edit", "clear", "outage", "callFault", "restart"}

Two == {i1, i2}
Three == {i1, i2, i3}
JustI1 == {i1}

LaneInit ==
  /\ Init
  /\ kinds \in {Kinds, {"callFault"}}
  /\ kinds = Kinds => policy \subseteq Two
  /\ kinds # Kinds => policy = Three

LaneNext ==
  /\ Next
  /\ kinds = Kinds => pc'[i3] = "idle"
  /\ "edit" \notin kinds => UNCHANGED edits
  /\ "clear" \notin kinds => UNCHANGED clears
  /\ "outage" \notin kinds => UNCHANGED outages
  /\ "restart" \notin kinds => UNCHANGED restarts
  /\ UNCHANGED kinds

LaneSpec == LaneInit /\ [][LaneNext]_<<vars, kinds>> /\ Fairness
===============================================================================
