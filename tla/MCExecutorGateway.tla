--------------------------- MODULE MCExecutorGateway ---------------------------
(* Instances of ExecutorGateway: two requests that write one file, so they     *)
(* offer one rollback id, and two calls that undo it.                          *)
EXTENDS ExecutorProperties, TLC

CONSTANTS r1, r2, pathA, u1, u2

Two == {r1, r2}
Paths == {pathA}
None == {}
JustR1 == {r1}
JustR2 == {r2}
SamePath == [r \in Two |-> pathA]
NoRollback == [r \in {} |-> pathA]
NoUndo == [u \in {} |-> pathA]
TwoUndo == {u1, u2}
UndoA == [u \in TwoUndo |-> pathA]
===============================================================================
