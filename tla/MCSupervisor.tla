---------------------------- MODULE MCSupervisor ----------------------------
(* The packaged profile: policy-registry and executor start first, the      *)
(* server depends on both and asks the executor while it boots.             *)
EXTENDS SupervisorProperties

CONSTANTS policy, executor, server

Profile == {policy, executor, server}
ServerProbesExecutor ==
  [s \in Profile |-> IF s = server THEN {executor} ELSE {}]
ServerNeedsBoth ==
  [s \in Profile |-> IF s = server THEN {policy, executor} ELSE {}]
=============================================================================
