------------------------------- MODULE Requests -------------------------------
(***************************************************************************)
(* What the executor's components share: the executions they work for.      *)
(* ExecutionRequest.request_id is a fresh uuid, so an element of Req stands *)
(* for one execution and is never used twice, not even across restarts.     *)
(***************************************************************************)
CONSTANT Req
===============================================================================
