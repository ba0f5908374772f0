--------------------------- MODULE RuleDeployment ---------------------------
(***************************************************************************)
(* Detection rules of one tenant and the OpenSearch Alerting monitors they *)
(* are deployed as: the rule routes of apps/api/routers/rules.py, the      *)
(* crew's rule_deploy tool, and the console's "delete rule" sequence.      *)
(*                                                                         *)
(* A rule is a database row, its monitor lives on a cluster, and nothing   *)
(* ties the two writes together.  A worker is an API process, or the one   *)
(* event loop of it: it runs a handler to its end before it takes another  *)
(* request, but every HTTP call and every database statement is a step, at *)
(* which other workers, OpenSearch Dashboards and failures come between.   *)
(***************************************************************************)
EXTENDS Naturals, FiniteSets

CONSTANTS
  Worker,       \* API processes over the same database and clusters
  RuleId,       \* rule ids; uuid4, never issued twice
  MonitorId,    \* monitor ids, chosen by the cluster
  Query,        \* what a rule searches for
  NoRule, NoMonitor,
  MaxVersion,   \* bound on a rule's version
  Settings      \* the surroundings the service may run in

(* rules: the ids that may be given out;                                     *)
(* faults: may a call fail, time out or die half-way?                        *)
(* dashboards: may users of OpenSearch Dashboards delete monitors?           *)
(* revocable: may the tenant disconnect or revoke its OpenSearch?            *)
(* shared: may a user import a monitor that a rule already owns?             *)
Setting == [rules : SUBSET RuleId, faults : BOOLEAN, dashboards : BOOLEAN,
            revocable : BOOLEAN, shared : BOOLEAN]

ASSUME DeploymentAssumption ==
  /\ MaxVersion \in Nat \ {0}
  /\ Settings \subseteq Setting

(* What a rule detects: its query, and whether it has a threshold. *)
Definition == [query : Query, threshold : BOOLEAN]

Target == {"opensearch", "other"}
Status == {"absent", "disconnected", "connected", "error"}

(* own: the tenant's cluster; default: the one of the global settings. *)
Cluster == {"own", "default"}

(* "deployed" is the version whose definition was last pushed, 0 for none:   *)
(* the deployment and applied_at fields.                                     *)
(* No route reads a rule's own "enabled" flag, so it is left out.            *)
Rule == [def : Definition, version : 1 .. MaxVersion,
         monitor : MonitorId \cup {NoMonitor}, deployed : 0 .. MaxVersion]

(* "origin" records for which rule a monitor was created, if for one. *)
Monitor == [cluster : Cluster, def : Definition, enabled : BOOLEAN,
            origin : RuleId \cup {NoRule}]

ASSUME AbsenceAssumption ==
  /\ NoMonitor \notin MonitorId \cup Monitor
  /\ NoRule \notin RuleId \cup Rule

VARIABLES
  rules,      \* aegis.records of kind "rule", by id
  used,       \* the rule and monitor ids given out so far
  monitors,   \* the monitors of both clusters, by id
  status,     \* status of the tenant's integration of each target
  access,     \* agent_access of the OpenSearch integration
  handler,    \* what each worker is in the middle of
  console,    \* the console's "delete rule" sequence
  setting     \* what may happen; never changes

vars == <<rules, used, monitors, status, access, handler, console, setting>>

Idle == [step |-> "idle"]
Closed == [step |-> "closed"]

TypeOK ==
  /\ rules \in [RuleId -> Rule \cup {NoRule}]
  /\ monitors \in [MonitorId -> Monitor \cup {NoMonitor}]
  /\ used \subseteq RuleId \cup MonitorId
  /\ status \in [Target -> Status]
  /\ access \in BOOLEAN
  /\ \A w \in Worker : handler[w].step \in
       {"idle", "push", "save", "create", "store", "bump", "flip", "list",
        "detach", "import"}
  /\ setting \in Settings
  /\ console.step \in {"closed", "monitor", "sent", "rule", "done"}

Stored == {r \in RuleId : rules[r] # NoRule}
Running == {m \in MonitorId : monitors[m] # NoMonitor}
FreshMonitor == MonitorId \ used

(* Bound: a request that will need an id only starts while one is to spare. *)
MonitorToSpare ==
  Cardinality(FreshMonitor) >
    Cardinality({w \in Worker : /\ handler[w].step = "push"
                                /\ handler[w].read.monitor = NoMonitor})

RuleToSpare ==
  Cardinality(RuleId \ used) >
    Cardinality({w \in Worker : handler[w].step \in {"store", "import"}})

(* The cluster opensearch_for_tenant leads to (see ConnectorRegistry). *)
Resolved ==
  IF status["opensearch"] # "absent" /\ access THEN "own" ELSE "default"

(* A call to a cluster finds only the monitors of that cluster. *)
Reaches(c, m) == m \in Running /\ monitors[m].cluster = c

Become(w, h) == handler' = [handler EXCEPT ![w] = h]

NewMonitor(m, c, d, r) ==
  /\ m \in FreshMonitor
  /\ used' = used \cup {m}
  /\ monitors' = [monitors EXCEPT
       ![m] = [cluster |-> c, def |-> d, enabled |-> TRUE, origin |-> r]]

(* mutant: versions count from 0 *)
NewRule_FromZero(r, d, m) ==
  /\ r \in RuleId \ used
  /\ used' = used \cup {r}
  /\ rules' = [rules EXCEPT
       ![r] = [def |-> d, version |-> 0, monitor |-> m, deployed |-> 0]]

NewRule(r, d, m) ==
  /\ r \in RuleId \ used
  /\ used' = used \cup {r}
  /\ rules' = [rules EXCEPT
       ![r] = [def |-> d, version |-> 1, monitor |-> m, deployed |-> 0]]

Init ==
  /\ setting \in Settings
  /\ rules = [r \in RuleId |-> NoRule]
  /\ used = RuleId \ setting.rules     \* the others are never given out
  /\ monitors = [m \in MonitorId |-> NoMonitor]
  /\ status = [t \in Target |-> IF t = "opensearch" THEN "connected"
                                ELSE "disconnected"]
  /\ access = TRUE
  /\ handler = [w \in Worker |-> Idle]
  /\ console = Closed

-----------------------------------------------------------------------------
(* POST /rules *)
CreateRule(w, r, d) ==
  /\ handler[w] = Idle
  /\ RuleToSpare
  /\ NewRule(r, d, NoMonitor)
  /\ UNCHANGED <<monitors, status, access, handler, console>>

(* PUT /rules/{id} reads the rule for its version ... *)
UpdateRule(w, r, d) ==
  /\ handler[w] = Idle
  /\ r \in Stored
  /\ rules[r].version < MaxVersion
  /\ Become(w, [step |-> "bump", rule |-> r, def |-> d,
                version |-> rules[r].version + 1])
  /\ UNCHANGED <<rules, used, monitors, status, access, console>>

(* mutant: the version is not bumped *)
BumpRule_SameVersion(w) ==
  /\ handler[w].step = "bump"
  /\ LET h == handler[w] IN
       rules' = IF h.rule \in Stored
                THEN [rules EXCEPT ![h.rule].def = h.def]
                ELSE rules
  /\ Become(w, Idle)
  /\ UNCHANGED <<used, monitors, status, access, console>>

(* ... and writes the changed fields with the next one.  The monitor keeps   *)
(* the definition it has.                                                    *)
BumpRule(w) ==
  /\ handler[w].step = "bump"
  /\ LET h == handler[w] IN
       rules' = IF h.rule \in Stored
                THEN [rules EXCEPT ![h.rule].def = h.def,
                                   ![h.rule].version = h.version]
                ELSE rules
  /\ Become(w, Idle)
  /\ UNCHANGED <<used, monitors, status, access, console>>

(* DELETE /rules/{id} *)
DeleteRule(w, r) ==
  /\ handler[w] = Idle
  /\ r \in Stored
  /\ rules' = [rules EXCEPT ![r] = NoRule]
  /\ UNCHANGED <<used, monitors, status, access, handler, console>>

(* POST /rules/{id}/apply reads rule and integration; only an integration    *)
(* that is missing or "disconnected" is refused.                             *)
ApplyRule(w, r, t) ==
  /\ handler[w] = Idle
  /\ r \in Stored
  /\ rules[r].version < MaxVersion
  /\ status[t] \notin {"absent", "disconnected"}
  /\ rules[r].monitor = NoMonitor => MonitorToSpare
  /\ Become(w, IF t = "opensearch"
               THEN [step |-> "push", target |-> t, rule |-> r,
                     read |-> rules[r], cluster |-> Resolved]
               ELSE [step |-> "save", target |-> t, rule |-> r,
                     read |-> rules[r], monitor |-> rules[r].monitor,
                     pushed |-> FALSE])
  /\ UNCHANGED <<rules, used, monitors, status, access, console>>

Pushed(w, m) ==
  LET h == handler[w] IN
  Become(w, [step |-> "save", target |-> h.target, rule |-> h.rule,
             read |-> h.read, monitor |-> m, pushed |-> TRUE])

(* The monitor is created, or replaced by an enabled one with the definition *)
(* that was read.  A monitor the cluster does not know fails the request.    *)
PushMonitor(w) ==
  /\ handler[w].step = "push"
  /\ LET h == handler[w]
         m == handler[w].read.monitor
     IN
     \/ /\ m = NoMonitor
        /\ \E n \in FreshMonitor :
             /\ NewMonitor(n, h.cluster, h.read.def, h.rule)
             /\ Pushed(w, n)
     \/ /\ m # NoMonitor
        /\ Reaches(h.cluster, m)
        /\ monitors' = [monitors EXCEPT ![m].def = h.read.def,
                                        ![m].enabled = TRUE]
        /\ Pushed(w, m)
        /\ UNCHANGED used
     \/ /\ m # NoMonitor
        /\ ~Reaches(h.cluster, m)
        /\ Become(w, Idle)
        /\ UNCHANGED <<used, monitors>>
  /\ UNCHANGED <<rules, status, access, console>>

(* mutant: the id of the new monitor is not written *)
SaveApplied_ForgetsMonitor(w) ==
  /\ handler[w].step = "save"
  /\ LET h == handler[w] IN
       rules' = IF h.rule \in Stored
                THEN [rules EXCEPT ![h.rule].version = h.read.version + 1,
                                   ![h.rule].deployed =
                                      IF h.pushed THEN h.read.version + 1 ELSE 0]
                ELSE rules
  /\ Become(w, Idle)
  /\ UNCHANGED <<used, monitors, status, access, console>>

(* The rule is bound to the monitor and stamped with the version after the   *)
(* one that was read.  A rule deleted meanwhile fails the assertion, and the *)
(* monitor stays.                                                            *)
SaveApplied(w) ==
  /\ handler[w].step = "save"
  /\ LET h == handler[w] IN
       rules' = IF h.rule \in Stored
                THEN [rules EXCEPT ![h.rule].version = h.read.version + 1,
                                   ![h.rule].monitor = h.monitor,
                                   ![h.rule].deployed =
                                      IF h.pushed THEN h.read.version + 1 ELSE 0]
                ELSE rules
  /\ Become(w, Idle)
  /\ UNCHANGED <<used, monitors, status, access, console>>

(* POST /rules/deploy-yaml creates the monitor of a rule not yet stored ... *)
DeployYaml(w, d, m) ==
  /\ handler[w] = Idle
  /\ RuleToSpare
  /\ MonitorToSpare
  /\ NewMonitor(m, Resolved, d, NoRule)
  /\ Become(w, [step |-> "store", def |-> d, monitor |-> m])
  /\ UNCHANGED <<rules, status, access, console>>

(* ... and then the rule. *)
StoreDeployed(w, r) ==
  /\ handler[w].step = "store"
  /\ NewRule(r, handler[w].def, handler[w].monitor)
  /\ Become(w, Idle)
  /\ UNCHANGED <<monitors, status, access, console>>

(* The crew's rule_deploy tool, on its thread: a monitor without a rule.     *)
(* A monitor made in OpenSearch Dashboards looks the same.                   *)
DeployUnmanaged(d, m) ==
  /\ MonitorToSpare
  /\ NewMonitor(m, Resolved, d, NoRule)
  /\ UNCHANGED <<rules, status, access, handler, console>>

(* POST /rules/monitors/{id}/toggle reads the monitor ... *)
ToggleMonitor(w, m) ==
  /\ handler[w] = Idle
  /\ Reaches(Resolved, m)
  /\ Become(w, [step |-> "flip", monitor |-> m, read |-> monitors[m]])
  /\ UNCHANGED <<rules, used, monitors, status, access, console>>

(* ... and puts back all of it with "enabled" negated. *)
FlipMonitor(w) ==
  /\ handler[w].step = "flip"
  /\ LET m == handler[w].monitor
         d == handler[w].read
     IN monitors' = IF Reaches(d.cluster, m)
                    THEN [monitors EXCEPT ![m].def = d.def,
                                          ![m].enabled = ~d.enabled]
                    ELSE monitors
  /\ Become(w, Idle)
  /\ UNCHANGED <<rules, used, status, access, console>>

(* mutant: a monitor that is not there counts as deleted *)
RemoveMonitor_IgnoresMissing(w, m) ==
  /\ monitors' = [monitors EXCEPT ![m] = NoMonitor]
  /\ Become(w, [step |-> "list", monitor |-> m])

(* The cluster deletes a monitor it has, or refuses to; any answer but a     *)
(* success ends the request.                                                 *)
RemoveMonitor(w, m) ==
  \/ /\ Reaches(Resolved, m)
     /\ monitors' = [monitors EXCEPT ![m] = NoMonitor]
     /\ Become(w, [step |-> "list", monitor |-> m])
  \/ /\ setting.faults \/ ~Reaches(Resolved, m)
     /\ UNCHANGED <<monitors, handler>>

(* DELETE /rules/monitors/{id}: a monitor the cluster does not know is a 404 *)
(* before any rule is looked at; ...                                         *)
DeleteMonitor(w, m) ==
  /\ handler[w] = Idle
  /\ RemoveMonitor(w, m)
  /\ UNCHANGED <<rules, used, status, access, console>>

(* ... the rules are listed once, ... *)
ListOwners(w) ==
  /\ handler[w].step = "list"
  /\ LET m == handler[w].monitor IN
       Become(w, [step |-> "detach", monitor |-> m,
                  todo |-> {r \in Stored : rules[r].monitor = m}])
  /\ UNCHANGED <<rules, used, monitors, status, access, console>>

(* mutant: only the first owner is detached *)
DetachOwner_First(w) ==
  /\ handler[w].step = "detach"
  /\ \E r \in RuleId :
       /\ r \in handler[w].todo
       /\ rules' = IF r \in Stored THEN [rules EXCEPT ![r].monitor = NoMonitor]
                   ELSE rules
       /\ Become(w, [handler[w] EXCEPT !.todo = {}])
  /\ UNCHANGED <<used, monitors, status, access, console>>

(* ... and those that own the monitor are detached from it one by one. *)
DetachOwner(w) ==
  /\ handler[w].step = "detach"
  /\ \E r \in RuleId :
       /\ r \in handler[w].todo
       /\ rules' = IF r \in Stored THEN [rules EXCEPT ![r].monitor = NoMonitor]
                   ELSE rules
       /\ Become(w, [handler[w] EXCEPT !.todo = @ \ {r}])
  /\ UNCHANGED <<used, monitors, status, access, console>>

Detached(w) ==
  /\ handler[w].step = "detach"
  /\ handler[w].todo = {}
  /\ Become(w, Idle)
  /\ UNCHANGED <<rules, used, monitors, status, access, console>>

(* POST /rules/monitors/{id}/import reads the monitor ... *)
ImportMonitor(w, m) ==
  /\ handler[w] = Idle
  /\ Reaches(Resolved, m)
  /\ setting.shared \/ \A r \in Stored : rules[r].monitor # m
  /\ RuleToSpare
  /\ Become(w, [step |-> "import", monitor |-> m, read |-> monitors[m]])
  /\ UNCHANGED <<rules, used, monitors, status, access, console>>

(* ... and stores a rule with its query, but not its threshold. *)
StoreImported(w, r) ==
  /\ handler[w].step = "import"
  /\ LET d == handler[w].read IN
       NewRule(r, [d.def EXCEPT !.threshold = FALSE], handler[w].monitor)
  /\ Become(w, Idle)
  /\ UNCHANGED <<monitors, status, access, console>>

(* The integration routes: a probe, an edit or a removal of a connector. *)
SetStatus(w, t, s) ==
  /\ handler[w] = Idle
  /\ t = "opensearch" => setting.revocable
  /\ status' = [status EXCEPT ![t] = s]
  /\ UNCHANGED <<rules, used, monitors, access, handler, console>>

SetAccess(w, on) ==
  /\ handler[w] = Idle
  /\ setting.revocable
  /\ access' = on
  /\ UNCHANGED <<rules, used, monitors, status, handler, console>>

-----------------------------------------------------------------------------
(* removeRule of the console: the user confirms, ... *)
ConfirmRemoval(r) ==
  /\ console = Closed
  /\ r \in Stored
  /\ console' = [step |-> IF rules[r].monitor = NoMonitor THEN "rule"
                          ELSE "monitor",
                 rule |-> r, monitor |-> rules[r].monitor]
  /\ UNCHANGED <<rules, used, monitors, status, access, handler>>

(* ... the console asks for the monitor to be deleted, ... *)
RequestMonitorRemoval(w) ==
  /\ console.step = "monitor"
  /\ handler[w] = Idle
  /\ RemoveMonitor(w, console.monitor)
  /\ console' = [console EXCEPT !.step = "sent"]
  /\ UNCHANGED <<rules, used, status, access>>

(* ... ignores whether it was, ... *)
MonitorRemovalAnswered ==
  /\ console.step = "sent"
  /\ \A w \in Worker : handler[w].step \notin {"list", "detach"}
  /\ console' = [console EXCEPT !.step = "rule"]
  /\ UNCHANGED <<rules, used, monitors, status, access, handler>>

(* ... and deletes the rule. *)
RequestRuleRemoval(w) ==
  /\ console.step = "rule"
  /\ handler[w] = Idle
  /\ IF console.rule \in Stored
     THEN /\ rules' = [rules EXCEPT ![console.rule] = NoRule]
          /\ console' = [console EXCEPT !.step = "done"]
     ELSE /\ console' = Closed
          /\ UNCHANGED rules
  /\ UNCHANGED <<used, monitors, status, access, handler>>

CloseConsole ==
  /\ console.step = "done"
  /\ console' = Closed
  /\ UNCHANGED <<rules, used, monitors, status, access, handler>>

-----------------------------------------------------------------------------
(* A call raises, times out, or the process dies: what was done stays done. *)
Abort(w) ==
  /\ setting.faults
  /\ handler[w] # Idle
  /\ Become(w, Idle)
  /\ UNCHANGED <<rules, used, monitors, status, access, console>>

(* A monitor is deleted in OpenSearch Dashboards. *)
DropMonitor(m) ==
  /\ setting.dashboards
  /\ m \in Running
  /\ monitors' = [monitors EXCEPT ![m] = NoMonitor]
  /\ UNCHANGED <<rules, used, status, access, handler, console>>

Step ==
  \/ \E w \in Worker :
       \/ \E r \in RuleId, d \in Definition :
            CreateRule(w, r, d) \/ UpdateRule(w, r, d)
       \/ BumpRule(w)
       \/ \E r \in RuleId : DeleteRule(w, r)
       \/ \E r \in RuleId, t \in Target : ApplyRule(w, r, t)
       \/ PushMonitor(w)
       \/ SaveApplied(w)
       \/ \E d \in Definition, m \in MonitorId : DeployYaml(w, d, m)
       \/ \E r \in RuleId : StoreDeployed(w, r) \/ StoreImported(w, r)
       \/ \E m \in MonitorId :
            ToggleMonitor(w, m) \/ DeleteMonitor(w, m) \/ ImportMonitor(w, m)
       \/ FlipMonitor(w)
       \/ ListOwners(w)
       \/ DetachOwner(w)
       \/ Detached(w)
       \/ \E t \in Target, s \in Status : SetStatus(w, t, s)
       \/ \E on \in BOOLEAN : SetAccess(w, on)
       \/ RequestMonitorRemoval(w)
       \/ RequestRuleRemoval(w)
       \/ Abort(w)
  \/ \E d \in Definition, m \in MonitorId : DeployUnmanaged(d, m)
  \/ \E r \in RuleId : ConfirmRemoval(r)
  \/ MonitorRemovalAnswered
  \/ CloseConsole
  \/ \E m \in MonitorId : DropMonitor(m)

Next == Step /\ UNCHANGED setting

Spec == Init /\ [][Next]_vars

-----------------------------------------------------------------------------
(* Properties. *)

Quiescent == \A w \in Worker : handler[w] = Idle

Undisturbed == ~setting.faults /\ ~setting.dashboards /\ ~setting.revocable

(* However often a rule is applied, edited, detached and applied again,      *)
(* never do two monitors created for it run at once, where nothing fails:    *)
(* no alert fires twice.                                                     *)
OneMonitorPerRule ==
  Undisturbed => \A r \in Stored :
    Cardinality({m \in Running : monitors[m].origin = r}) <= 1

(* Between two requests a rule's monitor_id names a monitor that exists:     *)
(* deleting one detaches every rule bound to it, imported ones too, where     *)
(* nothing fails.                                                            *)
NoDanglingMonitor ==
  Undisturbed /\ Quiescent =>
    \A r \in Stored : rules[r].monitor # NoMonitor => rules[r].monitor \in Running

(* A rule not edited since it was pushed runs with the definition it shows,  *)
(* where no monitor is imported that a rule owns.                            *)
DeployedIsCurrent ==
  ~setting.shared /\ Quiescent =>
    \A r \in Stored :
      LET m == rules[r].monitor IN
      /\ rules[r].deployed = rules[r].version
      /\ m \in Running
      => monitors[m].def = rules[r].def

(* A rule is stranded when its monitor is gone and no request under way is   *)
(* about to detach it or to bind it to another one.                          *)
Stranded(r) ==
  /\ r \in Stored
  /\ LET m == rules[r].monitor IN
       /\ m # NoMonitor
       /\ m \notin Running
       /\ \A w \in Worker :
            LET h == handler[w] IN
            /\ h.step \in {"list", "detach"} => h.monitor # m
            /\ h.step = "push" /\ h.rule = r => h.read.monitor = m
            /\ h.step = "save" /\ h.rule = r => h.monitor = m

(* A rule whose monitor was deleted behind the API's back stays stranded     *)
(* until it is deleted: applying it updates the missing monitor, which       *)
(* fails, and deleting the monitor fails before the rule is detached.        *)
StrandedStaysStranded ==
  [][\A r \in RuleId :
       Stranded(r) => Stranded(r)' \/ rules'[r] = NoRule]_vars

(* "Its OpenSearch monitor is removed too." (the console's confirmation):    *)
(* when the rule is gone, so is the monitor the confirmation spoke of.       *)
RemovedWithItsMonitor ==
  console.step = "done" /\ console.monitor # NoMonitor =>
    console.monitor \notin Running
=============================================================================
