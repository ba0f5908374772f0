------------------------- MODULE MC_RuleDeployment -------------------------
(* Small instances of RuleDeployment for TLC. *)
EXTENDS RuleDeployment, TLC

(* Rules, monitors, queries and workers are interchangeable. *)
MC_Symmetry ==
  Permutations(RuleId) \cup Permutations(MonitorId) \cup Permutations(Query)
    \cup Permutations(Worker)

CONSTANT FirstRule

(* Two rules, and monitors imported twice, where nothing fails; one rule in  *)
(* surroundings where everything does.                                       *)
MC_Settings ==
  {[rules |-> RuleId, faults |-> FALSE, dashboards |-> FALSE,
    revocable |-> FALSE, shared |-> TRUE],
   [rules |-> {FirstRule}, faults |-> TRUE, dashboards |-> TRUE,
    revocable |-> TRUE, shared |-> FALSE]}

MC_Revocable ==
  {[rules |-> RuleId, faults |-> FALSE, dashboards |-> FALSE,
    revocable |-> TRUE, shared |-> TRUE]}
=============================================================================
