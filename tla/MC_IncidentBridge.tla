------------------------ MODULE MC_IncidentBridge ------------------------
(* Small instances of IncidentBridge for TLC. *)
EXTENDS IncidentBridge, TLC

(* Entities are 1 and 2, or 1 alone; "match" and "none" sort after them.     *)
MC_Match == 8
MC_Nobody == 9

(* A plain rule, named in its YAML. *)
MC_Plain == [severity |-> MaxSeverity, graded |-> MaxSeverity, named |-> TRUE,
             enabled |-> TRUE, learning |-> FALSE, threshold |-> FALSE]

(* Rules for the run-now route: with a query, or with a threshold. *)
MC_RunTexts == {MC_Plain, [MC_Plain EXCEPT !.threshold = TRUE]}

(* Rules for the pipeline: with and without an id in the YAML, disabled, *)
(* learning, of another grade.                                           *)
MC_PipelineTexts ==
  {MC_Plain,
   [MC_Plain EXCEPT !.named = FALSE, !.graded = 0],
   [MC_Plain EXCEPT !.enabled = FALSE],
   [MC_Plain EXCEPT !.learning = TRUE]}

(* Rules, incidents, workers and runners are interchangeable. *)
MC_Symmetry ==
  Permutations(RuleId) \cup Permutations(IncidentId)
    \cup Permutations(Worker) \cup Permutations(Runner)
=============================================================================
