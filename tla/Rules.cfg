\* One worker: two rules without failures, or one rule with calls that fail
\* half-way, monitors dropped in Dashboards, access revoked and regranted.
CONSTANTS
  Worker = {w}
  RuleId = {r1, r2}
  FirstRule = r1
  MonitorId = {m1, m2}
  Query = {q1}
  NoRule = norule
  NoMonitor = nomonitor
  MaxVersion = 3
  Settings <- MC_Settings
SPECIFICATION Spec
SYMMETRY MC_Symmetry
INVARIANTS
  TypeOK
  OneMonitorPerRule
  NoDanglingMonitor
  DeployedIsCurrent
PROPERTY
  StrandedStaysStranded
