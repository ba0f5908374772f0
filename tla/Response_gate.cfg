\* Two API processes and two threads of the agents service, all of which may
\* die, over one run with two approvals and two destructive tool calls; two
\* decisions are taken.
CONSTANTS
  ApiProcess = {p1, p2}
  Thread = {th1, th2}
  Run = {r1}
  Approval = {a1, a2}
  RunOf <- MC_RunOf
  Tool = {x1, x2}
  WantedBy <- MC_WantedBy
  r1 = r1
  Tenant = {t1}
  t1 = t1
  TenantOf <- MC_TenantOf
  NoThread = nothread
  NoPayload = nopayload
  MaxDecisions = 2
  Faults = TRUE
SPECIFICATION Spec
CHECK_DEADLOCK FALSE
INVARIANTS
  TypeOK
  ApprovedBeforePerformed
  PerformedOncePerApproval
  EveryCallAudited
  AuditVerifies
PROPERTIES
  EveryCallEnds
