\* A run of a rule by hand and the pipeline at once, failing and retried.
CONSTANTS
  Worker = {w1}
  Runner = {p1}
  RuleId = {r1}
  RuleText <- MC_PipelineTexts
  Entity = {1, 2}
  Match <- MC_Match
  Nobody <- MC_Nobody
  NoRule = NoRule
  IncidentId = {i1, i2, i3}
  NoIncident = NoIncident
  MaxSeverity = 1
  Edits = FALSE
  Faults = TRUE
SPECIFICATION Spec
SYMMETRY MC_Symmetry
INVARIANTS
  PipelineShowsEvidence
PROPERTIES
  NoMatchLost
