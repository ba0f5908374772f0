\* One API process runs two rules over and over, aborts included, while
\* analysts triage and edit; the pipeline is not used.
CONSTANTS
  Worker = {w1}
  Runner = {}
  RuleId = {r1, r2}
  RuleText <- MC_RunTexts
  Entity = {1, 2}
  Match <- MC_Match
  Nobody <- MC_Nobody
  NoRule = NoRule
  IncidentId = {i1, i2, i3}
  NoIncident = NoIncident
  MaxSeverity = 0
  Edits = TRUE
  Faults = TRUE
SPECIFICATION Spec
SYMMETRY MC_Symmetry
INVARIANTS
  TypeOK
  OneIncidentPerKey
  BridgeInv
PROPERTIES
  TriageKept
