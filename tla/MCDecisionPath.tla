----------------------------- MODULE MCDecisionPath ----------------------------
(* Instances of DecisionPath. *)
EXTENDS DecisionProperties

TwoDomains == <<"deletion", "finance">>
NeverAwait == {"prepare_evidence"}

\* What the SDK's README lets each hook answer, all that it may raise, and the
\* decisions that enrich is told not to make.
Contract ==
  [h \in Hook \ {"passive_read"} |->
    CASE h = "domain_schema" -> {"continue", "BLOCK"}
      [] h \in {"prepare_evidence", "enforce_constraints", "domain_enforce", "structural_gates"} ->
           {"continue", "BLOCK", "crash", "unimplemented"}
      [] h = "enrich" -> {"continue", "BLOCK", "ALLOW", "crash", "unimplemented"}
      [] h = "allow_gates" -> {"continue", "ALLOW", "crash", "unimplemented"}
      [] OTHER -> {"continue", "crash", "unimplemented"}]
===============================================================================
