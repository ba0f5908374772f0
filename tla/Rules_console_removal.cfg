\* The console deletes a rule while the cluster call can fail.
CONSTANTS
  Worker = {w}
  RuleId = {r1}
  MonitorId = {m1}
  Query = {q1}
  NoRule = norule
  NoMonitor = nomonitor
  MaxVersion = 2
  FirstRule = r1
  Settings <- MC_Revocable
SPECIFICATION Spec
INVARIANT
  RemovedWithItsMonitor
