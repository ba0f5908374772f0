------------------------ MODULE RuleDeploymentProofs ------------------------
(***************************************************************************)
(* Proofs about RuleDeployment, for any number of rules, monitors and      *)
(* versions: the types, and with one API process what ties a rule to its   *)
(* monitor although they are written one after the other.                  *)
(***************************************************************************)
EXTENDS RuleDeployment, FiniteSetTheorems, TLAPS

(* What a worker carries from one step of a handler to the next.            *)
OrNoMonitor == MonitorId \cup {NoMonitor}

Bumping   == [step : {"bump"}, rule : RuleId, def : Definition,
              version : 1 .. MaxVersion]
Pushing   == {h \in [step : {"push"}, target : Target, rule : RuleId,
                     read : Rule, cluster : Cluster] : h.read.version < MaxVersion}
Saving    == {h \in [step : {"save"}, target : Target, rule : RuleId, read : Rule,
                     monitor : OrNoMonitor, pushed : BOOLEAN] :
                h.read.version < MaxVersion}
Storing   == [step : {"store"}, def : Definition, monitor : MonitorId]
Flipping  == [step : {"flip"}, monitor : MonitorId, read : Monitor]
Listing   == [step : {"list"}, monitor : MonitorId]
Detaching == [step : {"detach"}, monitor : MonitorId, todo : SUBSET RuleId]
Importing == [step : {"import"}, monitor : MonitorId, read : Monitor]

Local == {Idle} \cup Bumping \cup Pushing \cup Saving \cup Storing \cup Flipping
           \cup Listing \cup Detaching \cup Importing

Dialog == {Closed} \cup [step : {"monitor", "sent", "rule", "done"},
                         rule : RuleId, monitor : OrNoMonitor]

Typed ==
  /\ rules \in [RuleId -> Rule \cup {NoRule}]
  /\ monitors \in [MonitorId -> Monitor \cup {NoMonitor}]
  /\ used \subseteq RuleId \cup MonitorId
  /\ status \in [Target -> Status] /\ access \in BOOLEAN
  /\ handler \in [Worker -> Local]
  /\ setting \in Settings
  /\ console \in Dialog

USE DeploymentAssumption, AbsenceAssumption

-----------------------------------------------------------------------------
(* A handler is where its step says.                                        *)
LEMMA Steps ==
  ASSUME NEW h \in Local
  PROVE  /\ h.step = "idle"   => h = Idle
         /\ h.step = "bump"   => h \in Bumping
         /\ h.step = "push"   => h \in Pushing
         /\ h.step = "save"   => h \in Saving
         /\ h.step = "store"  => h \in Storing
         /\ h.step = "flip"   => h \in Flipping
         /\ h.step = "list"   => h \in Listing
         /\ h.step = "detach" => h \in Detaching
         /\ h.step = "import" => h \in Importing
         /\ h.step \in {"idle", "push", "save", "create", "store", "bump", "flip",
                        "list", "detach", "import"}
  BY DEF Local, Idle, Bumping, Pushing, Saving, Storing, Flipping, Listing,
         Detaching, Importing

LEMMA Becoming ==
  ASSUME handler \in [Worker -> Local], NEW w \in Worker, NEW h \in Local,
         Become(w, h)
  PROVE  /\ handler' \in [Worker -> Local] /\ handler'[w] = h
         /\ \A v \in Worker \ {w} : handler'[v] = handler[v]
  BY DEF Become

(* The rows and monitors that are made.                                     *)
LEMMA Made ==
  /\ \A d \in Definition, m \in OrNoMonitor :
       [def |-> d, version |-> 1, monitor |-> m, deployed |-> 0] \in Rule
  /\ \A c \in Cluster, d \in Definition, r \in RuleId \cup {NoRule} :
       [cluster |-> c, def |-> d, enabled |-> TRUE, origin |-> r] \in Monitor
  /\ \A d \in Definition : [d EXCEPT !.threshold = FALSE] \in Definition
  /\ Resolved \in Cluster
<1>1. ASSUME NEW d \in Definition, NEW m \in OrNoMonitor
      PROVE  [def |-> d, version |-> 1, monitor |-> m, deployed |-> 0] \in Rule
  <2>1. 1 \in 1 .. MaxVersion /\ 0 \in 0 .. MaxVersion
    OBVIOUS
  <2> QED
    BY <2>1 DEF Rule, OrNoMonitor
<1>2. ASSUME NEW d \in Definition PROVE [d EXCEPT !.threshold = FALSE] \in Definition
  BY DEF Definition
<1>3. Resolved \in Cluster
  BY DEF Resolved, Cluster
<1>4. ASSUME NEW c \in Cluster, NEW d \in Definition, NEW r \in RuleId \cup {NoRule}
      PROVE  [cluster |-> c, def |-> d, enabled |-> TRUE, origin |-> r] \in Monitor
  BY DEF Monitor
<1> QED
  BY <1>1, <1>2, <1>3, <1>4

(* Rows and monitors that are changed.                                      *)
LEMMA Changed ==
  /\ \A r \in Rule, d \in Definition, v \in 1 .. MaxVersion :
       [r EXCEPT !.def = d, !.version = v] \in Rule
  /\ \A r \in Rule, v \in 1 .. MaxVersion, m \in OrNoMonitor, n \in 0 .. MaxVersion :
       [r EXCEPT !.version = v, !.monitor = m, !.deployed = n] \in Rule
  /\ \A r \in Rule : [r EXCEPT !.monitor = NoMonitor] \in Rule
  /\ \A m \in Monitor, d \in Definition, on \in BOOLEAN :
       [m EXCEPT !.def = d, !.enabled = on] \in Monitor
  BY DEF Rule, Monitor, OrNoMonitor

(* The two ways in which several fields of a row are written.               *)
LEMMA RowWritten ==
  ASSUME rules \in [RuleId -> Rule \cup {NoRule}], NEW r \in RuleId, NEW x,
         rules' = [rules EXCEPT ![r] = x]
  PROVE  /\ rules'[r] = x /\ \A q \in RuleId \ {r} : rules'[q] = rules[q]
         /\ x \in Rule \cup {NoRule} => rules' \in [RuleId -> Rule \cup {NoRule}]
  OBVIOUS

LEMMA MonitorWritten ==
  ASSUME monitors \in [MonitorId -> Monitor \cup {NoMonitor}], NEW m \in MonitorId,
         NEW x, monitors' = [monitors EXCEPT ![m] = x]
  PROVE  /\ monitors'[m] = x /\ \A n \in MonitorId \ {m} : monitors'[n] = monitors[n]
         /\ x \in Monitor \cup {NoMonitor} =>
              monitors' \in [MonitorId -> Monitor \cup {NoMonitor}]
  OBVIOUS

LEMMA Bumped ==
  ASSUME Typed, NEW w \in Worker, BumpRule(w)
  PROVE  /\ handler[w] \in Bumping /\ Become(w, Idle)
         /\ UNCHANGED <<used, monitors, status, access, console>>
         /\ LET h == handler[w] IN
              \/ rules[h.rule] = NoRule /\ rules' = rules
              \/ /\ rules[h.rule] \in Rule
                 /\ rules' = [rules EXCEPT ![h.rule] =
                      [rules[h.rule] EXCEPT !.def = h.def, !.version = h.version]]
<1>1. handler[w] \in Bumping
  BY Steps DEF BumpRule, Typed
<1> QED
  BY <1>1 DEF BumpRule, Typed, Stored, Bumping

LEMMA Saved ==
  ASSUME Typed, NEW w \in Worker, SaveApplied(w)
  PROVE  /\ handler[w] \in Saving /\ Become(w, Idle)
         /\ UNCHANGED <<used, monitors, status, access, console>>
         /\ LET h == handler[w] IN
              \/ rules[h.rule] = NoRule /\ rules' = rules
              \/ /\ rules[h.rule] \in Rule
                 /\ rules' = [rules EXCEPT ![h.rule] =
                      [rules[h.rule] EXCEPT
                         !.version = h.read.version + 1, !.monitor = h.monitor,
                         !.deployed = IF h.pushed THEN h.read.version + 1 ELSE 0]]
<1>1. handler[w] \in Saving
  BY Steps DEF SaveApplied, Typed
<1> QED
  BY <1>1 DEF SaveApplied, Typed, Stored, Saving

LEMMA Flipped ==
  ASSUME Typed, NEW w \in Worker, FlipMonitor(w)
  PROVE  /\ handler[w] \in Flipping /\ Become(w, Idle)
         /\ UNCHANGED <<rules, used, status, access, console>>
         /\ LET h == handler[w] IN
              \/ monitors' = monitors
              \/ /\ monitors[h.monitor] \in Monitor
                 /\ monitors' = [monitors EXCEPT ![h.monitor] =
                      [monitors[h.monitor] EXCEPT
                         !.def = h.read.def, !.enabled = ~h.read.enabled]]
<1>1. handler[w] \in Flipping
  BY Steps DEF FlipMonitor, Typed
<1> QED
  BY <1>1 DEF FlipMonitor, Typed, Reaches, Running, Flipping

(* A monitor is created under a new id, or the rule's own is replaced, or    *)
(* the cluster does not know it.                                            *)
LEMMA Push ==
  ASSUME Typed, NEW w \in Worker, PushMonitor(w)
  PROVE  /\ handler[w] \in Pushing
         /\ UNCHANGED <<rules, status, access, console>>
         /\ LET h == handler[w] IN
              \/ /\ h.read.monitor = NoMonitor
                 /\ \E n \in MonitorId \ used :
                      /\ NewMonitor(n, h.cluster, h.read.def, h.rule) /\ Pushed(w, n)
              \/ /\ h.read.monitor \in MonitorId
                 /\ monitors[h.read.monitor] \in Monitor
                 /\ monitors' = [monitors EXCEPT ![h.read.monitor] =
                      [monitors[h.read.monitor] EXCEPT
                         !.def = h.read.def, !.enabled = TRUE]]
                 /\ Pushed(w, h.read.monitor) /\ used' = used
              \/ /\ h.read.monitor # NoMonitor /\ Become(w, Idle)
                 /\ UNCHANGED <<used, monitors>>
<1>1. handler[w] \in Pushing
  BY Steps DEF PushMonitor, Typed
<1>2. handler[w].read.monitor \in OrNoMonitor
  BY <1>1 DEF Pushing, Rule, OrNoMonitor
<1> QED
  BY <1>1, <1>2
     DEF PushMonitor, Typed, Reaches, Running, FreshMonitor, OrNoMonitor

(* A new row, and a new monitor.                                            *)
LEMMA RowMade ==
  ASSUME Typed, NEW r \in RuleId, NEW d \in Definition, NEW m \in OrNoMonitor,
         NewRule(r, d, m)
  PROVE  /\ rules' \in [RuleId -> Rule \cup {NoRule}]
         /\ used' = used \cup {r} /\ used' \subseteq RuleId \cup MonitorId
         /\ r \notin used
         /\ rules'[r] = [def |-> d, version |-> 1, monitor |-> m, deployed |-> 0]
         /\ \A q \in RuleId \ {r} : rules'[q] = rules[q]
  BY Made, RowWritten DEF NewRule, Typed

LEMMA MonitorMade ==
  ASSUME Typed, NEW m, NEW c \in Cluster, NEW d \in Definition,
         NEW r \in RuleId \cup {NoRule}, NewMonitor(m, c, d, r)
  PROVE  /\ monitors' \in [MonitorId -> Monitor \cup {NoMonitor}]
         /\ m \in MonitorId \ used
         /\ used' = used \cup {m} /\ used' \subseteq RuleId \cup MonitorId
         /\ monitors'[m] = [cluster |-> c, def |-> d, enabled |-> TRUE, origin |-> r]
         /\ \A n \in MonitorId \ {m} : monitors'[n] = monitors[n]
<1>1. m \in MonitorId \ used
  BY DEF NewMonitor, FreshMonitor
<1> QED
  BY <1>1, Made, MonitorWritten DEF NewMonitor, Typed

LEMMA MonitorRemoved ==
  ASSUME Typed, NEW w \in Worker, NEW m, RemoveMonitor(w, m)
  PROVE  \/ UNCHANGED <<monitors, handler>> /\ (setting.faults \/ ~Reaches(Resolved, m))
         \/ /\ m \in MonitorId /\ monitors[m] # NoMonitor
            /\ monitors' = [monitors EXCEPT ![m] = NoMonitor]
            /\ Become(w, [step |-> "list", monitor |-> m])
            /\ [step |-> "list", monitor |-> m] \in Listing
  BY DEF RemoveMonitor, Reaches, Running, Listing

-----------------------------------------------------------------------------
(* Requests, calls of the clusters, failures, Dashboards and the console    *)
(* keep the types of rows and monitors, with any number of processes.        *)
LEMMA TypedInvariant == Spec => []Typed
<1>1. Init => Typed
  BY DEF Init, Typed, Local, Dialog, Idle, Closed, Target, Status
<1>2. Typed /\ [Next]_vars => Typed'
  <2> SUFFICES ASSUME Typed, [Next]_vars PROVE Typed'
    OBVIOUS
  <2>0. /\ rules \in [RuleId -> Rule \cup {NoRule}]
        /\ monitors \in [MonitorId -> Monitor \cup {NoMonitor}]
        /\ used \subseteq RuleId \cup MonitorId
        /\ status \in [Target -> Status] /\ access \in BOOLEAN
        /\ handler \in [Worker -> Local] /\ setting \in Settings /\ console \in Dialog
    BY DEF Typed
  <2>1. Next => setting' = setting
    BY DEF Next
  <2>i. Idle \in Local
    BY DEF Local
  <2>2. ASSUME NEW w \in Worker, NEW r \in RuleId, NEW d \in Definition,
               CreateRule(w, r, d), setting' = setting
        PROVE  Typed'
    <3>1. NoMonitor \in OrNoMonitor
      BY DEF OrNoMonitor
    <3> QED
      BY <2>0, <2>2, <3>1, RowMade DEF CreateRule, Typed
  <2>3. ASSUME NEW w \in Worker, NEW r \in RuleId, NEW d \in Definition,
               UpdateRule(w, r, d), setting' = setting
        PROVE  Typed'
    <3> DEFINE h == [step |-> "bump", rule |-> r, def |-> d,
                     version |-> rules[r].version + 1]
    <3>1. rules[r] \in Rule /\ rules[r].version < MaxVersion
      BY <2>0, <2>3 DEF UpdateRule, Stored
    <3>2. rules[r].version + 1 \in 1 .. MaxVersion
      BY <3>1 DEF Rule
    <3>3. h \in Local
      BY <3>2 DEF Local, Bumping
    <3> HIDE DEF h
    <3>4. Become(w, h)
      BY <2>3 DEF UpdateRule, h
    <3> QED
      BY <2>0, <2>3, <3>3, <3>4, Becoming DEF UpdateRule, Typed
  <2>4. ASSUME NEW w \in Worker, BumpRule(w), setting' = setting PROVE Typed'
    <3>1. rules' \in [RuleId -> Rule \cup {NoRule}]
      <4>1. handler[w].rule \in RuleId /\ handler[w].def \in Definition
            /\ handler[w].version \in 1 .. MaxVersion
        BY <2>4, Bumped DEF Bumping
      <4> DEFINE h == handler[w]
                 x == [rules[h.rule] EXCEPT !.def = h.def, !.version = h.version]
      <4>2. CASE rules' = rules
        BY <2>0, <4>2
      <4>3. CASE rules[h.rule] \in Rule /\ rules' = [rules EXCEPT ![h.rule] = x]
        <5>1. x \in Rule
          BY <4>1, <4>3, Changed
        <5> HIDE DEF x
        <5> QED
          BY <2>0, <4>1, <4>3, <5>1, RowWritten
      <4> QED
        BY <2>4, <4>2, <4>3, Bumped
    <3> QED
      BY <2>0, <2>i, <2>4, <3>1, Bumped, Becoming DEF Typed
  <2>5. ASSUME NEW w \in Worker, NEW r \in RuleId, DeleteRule(w, r),
               setting' = setting
        PROVE  Typed'
    BY <2>0, <2>5 DEF DeleteRule, Typed
  <2>6. ASSUME NEW w \in Worker, NEW r \in RuleId, NEW t \in Target,
               ApplyRule(w, r, t), setting' = setting
        PROVE  Typed'
    <3>1. rules[r] \in Rule /\ rules[r].version < MaxVersion
      BY <2>0, <2>6 DEF ApplyRule, Stored
    <3>2. rules[r].monitor \in OrNoMonitor
      BY <3>1 DEF Rule, OrNoMonitor
    <3>3. /\ [step |-> "push", target |-> t, rule |-> r, read |-> rules[r],
              cluster |-> Resolved] \in Pushing
          /\ [step |-> "save", target |-> t, rule |-> r, read |-> rules[r],
              monitor |-> rules[r].monitor, pushed |-> FALSE] \in Saving
      BY <3>1, <3>2, Made DEF Pushing, Saving
    <3>4. \E h \in Local : Become(w, h)
      BY <2>6, <3>3 DEF ApplyRule, Local
    <3> QED
      BY <2>0, <2>6, <3>4, Becoming DEF ApplyRule, Typed
  <2>7. ASSUME NEW w \in Worker, NEW m \in MonitorId, Pushed(w, m),
               handler[w] \in Pushing
        PROVE  \E h \in Local : Become(w, h)
    <3> DEFINE g == handler[w]
               h == [step |-> "save", target |-> g.target, rule |-> g.rule,
                     read |-> g.read, monitor |-> m, pushed |-> TRUE]
    <3>1. h \in Local
      BY <2>7 DEF Pushing, Saving, Local, OrNoMonitor
    <3> QED
      BY <2>7, <3>1 DEF Pushed
  <2>8. ASSUME NEW w \in Worker, PushMonitor(w), setting' = setting PROVE Typed'
    <3> DEFINE h == handler[w]
    <3>1. /\ h \in Pushing /\ h.cluster \in Cluster /\ h.rule \in RuleId
          /\ h.read \in Rule /\ h.read.def \in Definition
          /\ UNCHANGED <<rules, status, access, console>>
      BY <2>8, Push DEF Pushing, Rule
    <3>2. CASE \E n \in MonitorId \ used :
                 NewMonitor(n, h.cluster, h.read.def, h.rule) /\ Pushed(w, n)
      <4>1. PICK n \in MonitorId \ used :
              NewMonitor(n, h.cluster, h.read.def, h.rule) /\ Pushed(w, n)
        BY <3>2
      <4>2. \E g \in Local : Become(w, g)
        BY <2>7, <3>1, <4>1
      <4>3. handler' \in [Worker -> Local]
        BY <2>0, <4>2, Becoming
      <4>4. /\ monitors' \in [MonitorId -> Monitor \cup {NoMonitor}]
            /\ used' \subseteq RuleId \cup MonitorId
        BY <3>1, <4>1, MonitorMade
      <4> QED
        BY <2>0, <2>8, <3>1, <4>3, <4>4 DEF Typed
    <3>3. CASE /\ h.read.monitor \in MonitorId
               /\ monitors[h.read.monitor] \in Monitor
               /\ monitors' = [monitors EXCEPT ![h.read.monitor] =
                    [monitors[h.read.monitor] EXCEPT
                       !.def = h.read.def, !.enabled = TRUE]]
               /\ Pushed(w, h.read.monitor) /\ used' = used
      <4> DEFINE x == [monitors[h.read.monitor] EXCEPT
                         !.def = h.read.def, !.enabled = TRUE]
      <4>1. x \in Monitor
        BY <3>1, <3>3, Changed
      <4>2. monitors' = [monitors EXCEPT ![h.read.monitor] = x]
        BY <3>3
      <4> HIDE DEF x
      <4>3. monitors' \in [MonitorId -> Monitor \cup {NoMonitor}]
        BY <2>0, <3>3, <4>1, <4>2, MonitorWritten
      <4>4. handler' \in [Worker -> Local]
        BY <2>0, <2>7, <3>1, <3>3, Becoming
      <4> QED
        BY <2>0, <2>8, <3>1, <3>3, <4>3, <4>4 DEF Typed
    <3>4. CASE Become(w, Idle) /\ UNCHANGED <<used, monitors>>
      BY <2>0, <2>i, <2>8, <3>1, <3>4, Becoming DEF Typed
    <3> QED
      BY <2>8, <3>2, <3>3, <3>4, Push
  <2>9. ASSUME NEW w \in Worker, SaveApplied(w), setting' = setting PROVE Typed'
    <3>1. rules' \in [RuleId -> Rule \cup {NoRule}]
      <4> DEFINE h == handler[w]
                 n == IF h.pushed THEN h.read.version + 1 ELSE 0
      <4>1. /\ h.rule \in RuleId /\ h.monitor \in OrNoMonitor
            /\ h.read.version + 1 \in 1 .. MaxVersion /\ n \in 0 .. MaxVersion
        <5>1. /\ h.rule \in RuleId /\ h.monitor \in OrNoMonitor /\ h.read \in Rule
              /\ h.read.version < MaxVersion
          BY <2>9, Saved DEF Saving
        <5>2. h.read.version \in Nat \ {0}
          BY <5>1 DEF Rule
        <5>3. h.read.version + 1 \in 1 .. MaxVersion
          BY <5>1, <5>2
        <5> QED
          BY <5>1, <5>3
      <4> HIDE DEF n
      <4>2. \/ rules' = rules
            \/ /\ rules[h.rule] \in Rule
               /\ rules' = [rules EXCEPT ![h.rule] =
                    [rules[h.rule] EXCEPT !.version = h.read.version + 1,
                       !.monitor = h.monitor, !.deployed = n]]
        BY <2>9, Saved DEF n
      <4> DEFINE x == [rules[h.rule] EXCEPT !.version = h.read.version + 1,
                         !.monitor = h.monitor, !.deployed = n]
      <4>3. rules[h.rule] \in Rule => x \in Rule
        BY <4>1, Changed
      <4>4. \/ rules' = rules
            \/ rules' = [rules EXCEPT ![h.rule] = x] /\ x \in Rule
        BY <4>2, <4>3
      <4> HIDE DEF x
      <4> QED
        BY <2>0, <4>1, <4>4, RowWritten
    <3> QED
      BY <2>0, <2>i, <2>9, <3>1, Saved, Becoming DEF Typed
  <2>10. ASSUME NEW w \in Worker, NEW d \in Definition, NEW m \in MonitorId,
                DeployYaml(w, d, m), setting' = setting
         PROVE  Typed'
    <3>1. [step |-> "store", def |-> d, monitor |-> m] \in Local
      BY DEF Local, Storing
    <3> QED
      BY <2>0, <2>10, <3>1, Made, MonitorMade, Becoming DEF DeployYaml, Typed
  <2>11. ASSUME NEW w \in Worker, NEW r \in RuleId, StoreDeployed(w, r),
                setting' = setting
         PROVE  Typed'
    <3>1. handler[w].def \in Definition /\ handler[w].monitor \in OrNoMonitor
      BY <2>0, <2>11, Steps DEF StoreDeployed, Storing, OrNoMonitor
    <3> QED
      BY <2>0, <2>i, <2>11, <3>1, RowMade, Becoming DEF StoreDeployed, Typed
  <2>12. ASSUME NEW w \in Worker, NEW r \in RuleId, StoreImported(w, r),
                setting' = setting
         PROVE  Typed'
    <3>1. handler[w].read.def \in Definition /\ handler[w].monitor \in OrNoMonitor
      BY <2>0, <2>12, Steps DEF StoreImported, Importing, Monitor, OrNoMonitor
    <3>2. [handler[w].read.def EXCEPT !.threshold = FALSE] \in Definition
      BY <3>1, Made
    <3> QED
      BY <2>0, <2>i, <2>12, <3>1, <3>2, RowMade, Becoming DEF StoreImported, Typed
  <2>13. ASSUME NEW w \in Worker, NEW m \in MonitorId,
                ToggleMonitor(w, m) \/ ImportMonitor(w, m), setting' = setting
         PROVE  Typed'
    <3>1. monitors[m] \in Monitor
      BY <2>0, <2>13 DEF ToggleMonitor, ImportMonitor, Reaches, Running
    <3>2. /\ [step |-> "flip", monitor |-> m, read |-> monitors[m]] \in Local
          /\ [step |-> "import", monitor |-> m, read |-> monitors[m]] \in Local
      BY <3>1 DEF Local, Flipping, Importing
    <3> QED
      BY <2>0, <2>13, <3>2, Becoming DEF ToggleMonitor, ImportMonitor, Typed
  <2>14. ASSUME NEW w \in Worker, NEW m, RemoveMonitor(w, m)
         PROVE  /\ monitors' \in [MonitorId -> Monitor \cup {NoMonitor}]
                /\ handler' \in [Worker -> Local]
    <3>1. CASE UNCHANGED <<monitors, handler>>
      BY <2>0, <3>1
    <3>2. CASE /\ m \in MonitorId
               /\ monitors' = [monitors EXCEPT ![m] = NoMonitor]
               /\ Become(w, [step |-> "list", monitor |-> m])
      <4>1. [step |-> "list", monitor |-> m] \in Local
        BY <3>2 DEF Local, Listing
      <4>2. handler' \in [Worker -> Local]
        BY <2>0, <3>2, <4>1, Becoming
      <4> QED
        BY <2>0, <3>2, <4>2, MonitorWritten
    <3> QED
      BY <2>0, <2>14, <3>1, <3>2, MonitorRemoved
  <2>15. ASSUME NEW w \in Worker, NEW m \in MonitorId, DeleteMonitor(w, m),
                setting' = setting
         PROVE  Typed'
    BY <2>0, <2>14, <2>15 DEF DeleteMonitor, Typed
  <2>16. ASSUME NEW w \in Worker, RequestMonitorRemoval(w), setting' = setting
         PROVE  Typed'
    <3>1. console' \in Dialog
      BY <2>0, <2>16 DEF RequestMonitorRemoval, Dialog, Closed
    <3> QED
      BY <2>0, <2>14, <2>16, <3>1 DEF RequestMonitorRemoval, Typed
  <2>17. ASSUME NEW w \in Worker, FlipMonitor(w), setting' = setting PROVE Typed'
    <3>1. monitors' \in [MonitorId -> Monitor \cup {NoMonitor}]
      <4>1. /\ handler[w].monitor \in MonitorId
            /\ handler[w].read.def \in Definition
            /\ (~handler[w].read.enabled) \in BOOLEAN
        BY <2>17, Flipped DEF Flipping, Monitor
      <4> DEFINE h == handler[w]
                 x == [monitors[h.monitor] EXCEPT
                         !.def = h.read.def, !.enabled = ~h.read.enabled]
      <4>2. CASE monitors' = monitors
        BY <2>0, <4>2
      <4>3. CASE /\ monitors[h.monitor] \in Monitor
                 /\ monitors' = [monitors EXCEPT ![h.monitor] = x]
        <5>1. x \in Monitor
          BY <4>1, <4>3, Changed
        <5> HIDE DEF x
        <5> QED
          BY <2>0, <4>1, <4>3, <5>1, MonitorWritten
      <4> QED
        BY <2>17, <4>2, <4>3, Flipped
    <3> QED
      BY <2>0, <2>i, <2>17, <3>1, Flipped, Becoming DEF Typed
  <2>18. ASSUME NEW w \in Worker, ListOwners(w), setting' = setting PROVE Typed'
    <3> DEFINE m == handler[w].monitor
               h == [step |-> "detach", monitor |-> m,
                     todo |-> {r \in Stored : rules[r].monitor = m}]
    <3>1. m \in MonitorId
      BY <2>0, <2>18, Steps DEF ListOwners, Listing
    <3>2. h \in Local
      BY <3>1 DEF Local, Detaching, Stored
    <3>3. Become(w, h)
      BY <2>18 DEF ListOwners
    <3> HIDE DEF h
    <3> QED
      BY <2>0, <2>18, <3>2, <3>3, Becoming DEF ListOwners, Typed
  <2>19. ASSUME NEW w \in Worker, DetachOwner(w), setting' = setting PROVE Typed'
    <3>1. PICK r \in RuleId :
            /\ rules' = IF r \in Stored THEN [rules EXCEPT ![r].monitor = NoMonitor]
                        ELSE rules
            /\ Become(w, [handler[w] EXCEPT !.todo = @ \ {r}])
      BY <2>19 DEF DetachOwner
    <3>2. [handler[w] EXCEPT !.todo = @ \ {r}] \in Local
      BY <2>0, <2>19, Steps DEF DetachOwner, Local, Detaching
    <3>3. rules' \in [RuleId -> Rule \cup {NoRule}]
      <4>1. r \in Stored => rules[r] \in Rule
        BY <2>0 DEF Stored
      <4>2. r \in Stored =>
              rules' = [rules EXCEPT ![r] = [rules[r] EXCEPT !.monitor = NoMonitor]]
        BY <2>0, <3>1
      <4> QED
        BY <2>0, <3>1, <4>1, <4>2, Changed, RowWritten
    <3> QED
      BY <2>0, <2>19, <3>1, <3>2, <3>3, Becoming DEF DetachOwner, Typed
  <2>20. ASSUME NEW w \in Worker, Detached(w) \/ Abort(w), setting' = setting
         PROVE  Typed'
    BY <2>0, <2>i, <2>20, Becoming DEF Detached, Abort, Typed
  <2>21. ASSUME NEW w \in Worker,
                \/ \E t \in Target, s \in Status : SetStatus(w, t, s)
                \/ \E on \in BOOLEAN : SetAccess(w, on),
                setting' = setting
         PROVE  Typed'
    BY <2>0, <2>21 DEF SetStatus, SetAccess, Typed
  <2>22. ASSUME NEW w \in Worker, RequestRuleRemoval(w), setting' = setting
         PROVE  Typed'
    <3>1. console' \in Dialog
      BY <2>0, <2>22 DEF RequestRuleRemoval, Dialog, Closed
    <3>2. rules' \in [RuleId -> Rule \cup {NoRule}]
      BY <2>0, <2>22 DEF RequestRuleRemoval, Stored
    <3> QED
      BY <2>0, <2>22, <3>1, <3>2 DEF RequestRuleRemoval, Typed
  <2>23. ASSUME NEW d \in Definition, NEW m \in MonitorId, DeployUnmanaged(d, m),
                setting' = setting
         PROVE  Typed'
    BY <2>0, <2>23, Made, MonitorMade DEF DeployUnmanaged, Typed
  <2>24. ASSUME NEW r \in RuleId, ConfirmRemoval(r), setting' = setting PROVE Typed'
    <3>1. rules[r] \in Rule
      BY <2>0, <2>24 DEF ConfirmRemoval, Stored
    <3>2. console' \in Dialog
      BY <2>24, <3>1 DEF ConfirmRemoval, Dialog, Rule, OrNoMonitor
    <3> QED
      BY <2>0, <2>24, <3>2 DEF ConfirmRemoval, Typed
  <2>25. CASE /\ MonitorRemovalAnswered \/ CloseConsole
              /\ setting' = setting
    <3>1. console' \in Dialog
      BY <2>0, <2>25 DEF MonitorRemovalAnswered, CloseConsole, Dialog, Closed
    <3> QED
      BY <2>0, <2>25, <3>1 DEF MonitorRemovalAnswered, CloseConsole, Typed
  <2>26. ASSUME NEW m \in MonitorId, DropMonitor(m), setting' = setting PROVE Typed'
    BY <2>0, <2>26 DEF DropMonitor, Typed
  <2>27. CASE UNCHANGED vars
    BY <2>0, <2>27 DEF vars, Typed
  <2>28. CASE Step /\ setting' = setting
    BY <2>2, <2>3, <2>4, <2>5, <2>6, <2>8, <2>9, <2>10, <2>11, <2>12, <2>13, <2>15,
       <2>16, <2>17, <2>18, <2>19, <2>20, <2>21, <2>22, <2>23, <2>24, <2>25, <2>26,
       <2>28 DEF Step
  <2> QED
    BY <2>27, <2>28 DEF Next
<1> QED
  BY <1>1, <1>2, PTL DEF Spec

(* The same, as the runs check it.                                          *)
THEOREM TypeCorrect == Spec => []TypeOK
<1>1. Typed => TypeOK
  <2> SUFFICES ASSUME Typed PROVE TypeOK
    OBVIOUS
  <2>1. \A w \in Worker : handler[w].step \in
          {"idle", "push", "save", "create", "store", "bump", "flip", "list",
           "detach", "import"}
    BY Steps DEF Typed
  <2>2. console.step \in {"closed", "monitor", "sent", "rule", "done"}
    BY DEF Typed, Dialog, Closed
  <2> QED
    BY <2>1, <2>2 DEF Typed, TypeOK
<1> QED
  BY <1>1, TypedInvariant, PTL

-----------------------------------------------------------------------------
(* From here on there is one API process.                                   *)
OneWorker == \E w : Worker = {w}

(* Ids are issued before they are written anywhere.                         *)
Issued ==
  /\ Running \subseteq used
  /\ \A m \in Running : monitors[m].origin \in used \cup {NoRule}
  /\ \A r \in Stored : r \in used /\ rules[r].monitor \in used \cup {NoMonitor}

(* A row's last deployment is not ahead of it, and its monitor runs with    *)
(* the definition that was deployed.                                        *)
Rows ==
  \A r \in Stored :
    /\ rules[r].deployed <= rules[r].version
    /\ ~setting.shared /\ rules[r].deployed = rules[r].version =>
         \A m \in Running : rules[r].monitor = m => monitors[m].def = rules[r].def

Owned(m) == \E r \in Stored : rules[r].monitor = m

(* Only an import makes two rules share a monitor.                          *)
Unshared ==
  ~setting.shared =>
    \A q, r \in Stored : rules[q].monitor = rules[r].monitor =>
                           q = r \/ rules[q].monitor = NoMonitor

(* What a handler has read still stands, and what it has done is not undone. *)
Working(h) ==
  /\ h.step \in {"bump", "push", "save"} => h.rule \in Stored
  /\ h.step = "bump" => rules[h.rule].version < h.version
  /\ h.step \in {"push", "save"} => rules[h.rule] = h.read
  /\ h.step = "save" =>
       /\ h.monitor \in used \cup {NoMonitor}
       /\ h.monitor = h.read.monitor \/ (h.read.monitor = NoMonitor /\ ~Owned(h.monitor))
       /\ h.pushed => \A m \in Running : h.monitor = m => monitors[m].def = h.read.def
  /\ h.step \in {"store", "import"} =>
       (~setting.shared => ~Owned(h.monitor))
  /\ h.step \in {"store", "import", "flip"} => h.monitor \in used
  /\ h.step = "flip" =>
       \A m \in Running : h.monitor = m => monitors[m].def = h.read.def
  /\ h.step \in {"list", "detach"} => h.monitor \in used \ Running
  /\ h.step = "detach" => \A r \in Stored \cap h.todo : rules[r].monitor = h.monitor

(* Where nothing fails and nobody deletes monitors in Dashboards, a rule's  *)
(* monitor runs or the rule is being detached from it, and a handler that   *)
(* is to bind a rule to a monitor finds it there.                           *)
Bound(h) ==
  ~setting.faults /\ ~setting.dashboards =>
    /\ \A r \in Stored :
         \/ rules[r].monitor \in Running \cup {NoMonitor}
         \/ /\ h.step \in {"list", "detach"} /\ h.monitor = rules[r].monitor
            /\ h.step = "detach" => r \in h.todo
    /\ h.step \in {"save", "store", "import"} => h.monitor \in Running \cup {NoMonitor}

(* Where nothing fails, a monitor made for a rule is its monitor, or is     *)
(* about to be.                                                             *)
Origins(h) ==
  ~setting.faults =>
    \A r \in Stored, m \in Running : monitors[m].origin = r =>
      \/ rules[r].monitor = m
      \/ h.step = "save" /\ h.rule = r /\ h.monitor = m

Consistent ==
  /\ Issued /\ Rows /\ Unshared
  /\ \A w \in Worker : Working(handler[w]) /\ Bound(handler[w]) /\ Origins(handler[w])

LEMMA Context ==
  ASSUME Typed
  PROVE  /\ \A r \in Stored : /\ r \in RuleId /\ rules[r] \in Rule
                              /\ rules[r].version \in Nat /\ rules[r].deployed \in Nat
                              /\ rules[r].monitor \in OrNoMonitor
         /\ \A m \in Running : m \in MonitorId /\ monitors[m] \in Monitor
         /\ NoMonitor \notin MonitorId /\ NoMonitor \notin Running
         /\ NoRule \notin RuleId
  BY DEF Typed, Stored, Running, Rule, OrNoMonitor

(* What a written row or monitor makes of the rows and the monitors.        *)
LEMMA RowEffect ==
  ASSUME Typed, NEW r \in RuleId, NEW x, rules' = [rules EXCEPT ![r] = x]
  PROVE  /\ rules'[r] = x /\ \A q \in Stored \ {r} : rules'[q] = rules[q]
         /\ x \in Rule => Stored' = Stored \cup {r}
         /\ x = NoRule => Stored' = Stored \ {r}
  BY DEF Typed, Stored

LEMMA MonitorEffect ==
  ASSUME Typed, NEW m \in MonitorId, NEW x, monitors' = [monitors EXCEPT ![m] = x]
  PROVE  /\ monitors'[m] = x /\ \A n \in Running \ {m} : monitors'[n] = monitors[n]
         /\ x \in Monitor => Running' = Running \cup {m}
         /\ x = NoMonitor => Running' = Running \ {m}
  BY DEF Typed, Running

LEMMA RowStored ==
  ASSUME Typed, Issued, NEW r \in RuleId, NEW d \in Definition, NEW m \in OrNoMonitor,
         NewRule(r, d, m)
  PROVE  /\ Stored' = Stored \cup {r} /\ r \notin Stored
         /\ r \notin used /\ used' = used \cup {r}
         /\ rules'[r].def = d /\ rules'[r].version = 1
         /\ rules'[r].monitor = m /\ rules'[r].deployed = 0
         /\ \A q \in Stored : rules'[q] = rules[q]
<1> DEFINE x == [def |-> d, version |-> 1, monitor |-> m, deployed |-> 0]
<1>1. x \in Rule /\ rules' = [rules EXCEPT ![r] = x]
  BY Made DEF NewRule
<1>2. r \notin used /\ used' = used \cup {r} /\ r \notin Stored
  BY DEF NewRule, Issued
<1>3. x.def = d /\ x.version = 1 /\ x.monitor = m /\ x.deployed = 0
  OBVIOUS
<1> HIDE DEF x
<1> QED
  BY <1>1, <1>2, <1>3, RowEffect

LEMMA MonitorStarted ==
  ASSUME Typed, Issued, NEW m, NEW c \in Cluster, NEW d \in Definition,
         NEW r \in RuleId \cup {NoRule}, NewMonitor(m, c, d, r)
  PROVE  /\ m \in MonitorId /\ Running' = Running \cup {m} /\ m \notin Running
         /\ m \notin used /\ used' = used \cup {m}
         /\ monitors'[m].def = d /\ monitors'[m].origin = r
         /\ \A n \in Running : monitors'[n] = monitors[n]
<1> DEFINE x == [cluster |-> c, def |-> d, enabled |-> TRUE, origin |-> r]
<1>1. x \in Monitor /\ monitors' = [monitors EXCEPT ![m] = x]
  BY Made DEF NewMonitor
<1>2. m \in MonitorId /\ m \notin used /\ used' = used \cup {m} /\ m \notin Running
  BY DEF NewMonitor, FreshMonitor, Issued
<1>3. x.def = d /\ x.origin = r
  OBVIOUS
<1> HIDE DEF x
<1> QED
  BY <1>1, <1>2, <1>3, MonitorEffect

(* A row or a monitor that is there already is changed.                     *)
LEMMA RowPut ==
  ASSUME Typed, NEW r \in Stored, NEW x \in Rule, rules' = [rules EXCEPT ![r] = x]
  PROVE  /\ Stored' = Stored /\ rules'[r] = x
         /\ \A q \in Stored \ {r} : rules'[q] = rules[q]
<1>1. r \in RuleId /\ Stored \cup {r} = Stored
  BY Context
<1> QED
  BY <1>1, RowEffect

LEMMA MonitorPut ==
  ASSUME Typed, NEW m \in Running, NEW x \in Monitor,
         monitors' = [monitors EXCEPT ![m] = x]
  PROVE  /\ Running' = Running /\ monitors'[m] = x
         /\ \A n \in Running \ {m} : monitors'[n] = monitors[n]
<1>1. m \in MonitorId /\ Running \cup {m} = Running
  BY Context
<1> QED
  BY <1>1, MonitorEffect

LEMMA Fields ==
  /\ \A r \in Rule, d \in Definition, v \in 1 .. MaxVersion :
       LET x == [r EXCEPT !.def = d, !.version = v] IN
       x.def = d /\ x.version = v /\ x.monitor = r.monitor /\ x.deployed = r.deployed
  /\ \A r \in Rule, v \in 1 .. MaxVersion, m \in OrNoMonitor, n \in 0 .. MaxVersion :
       LET x == [r EXCEPT !.version = v, !.monitor = m, !.deployed = n] IN
       x.def = r.def /\ x.version = v /\ x.monitor = m /\ x.deployed = n
  /\ \A r \in Rule :
       LET x == [r EXCEPT !.monitor = NoMonitor] IN
       /\ x.def = r.def /\ x.version = r.version /\ x.monitor = NoMonitor
       /\ x.deployed = r.deployed
  /\ \A m \in Monitor, d \in Definition, on \in BOOLEAN :
       LET x == [m EXCEPT !.def = d, !.enabled = on] IN
       x.def = d /\ x.origin = m.origin
  BY DEF Rule, Monitor

(* A step that leaves the rows and the monitors alone.                      *)
LEMMA Read ==
  ASSUME Consistent, UNCHANGED <<rules, monitors, used, setting>>
  PROVE  /\ Issued' /\ Rows' /\ Unshared' /\ Stored' = Stored /\ Running' = Running
         /\ \A h : Working(h) => Working(h)'
         /\ \A h : Bound(h) => Bound(h)'
         /\ \A h : Origins(h) => Origins(h)'
<1>1. Stored' = Stored /\ Running' = Running
  BY DEF Stored, Running
<1>2. Issued' /\ Rows' /\ Unshared'
  BY <1>1 DEF Consistent, Issued, Rows, Unshared
<1>3. \A h : Working(h) => Working(h)'
  BY <1>1 DEF Working, Owned
<1>4. \A h : Bound(h) => Bound(h)'
  BY <1>1 DEF Bound
<1>5. \A h : Origins(h) => Origins(h)'
  BY <1>1 DEF Origins
<1> QED
  BY <1>1, <1>2, <1>3, <1>4, <1>5

LEMMA ConsistentStep ==
  ASSUME NEW w, Worker = {w}, Typed, Consistent, Next
  PROVE  Consistent'
<1> DEFINE h == handler[w]
           Each == Working(h) /\ Bound(h) /\ Origins(h)
<1>0. /\ Issued /\ Rows /\ Unshared /\ Working(h) /\ Bound(h) /\ Origins(h)
      /\ setting' = setting /\ h \in Local /\ w \in Worker
      /\ handler \in [Worker -> Local]
  BY DEF Consistent, Typed, Next
<1>b. ASSUME NEW g, Become(w, g) PROVE handler'[w] = g
  BY <1>0, <1>b DEF Become
<1>e. ASSUME Issued', Rows', Unshared', Working(h)', Bound(h)', Origins(h)'
      PROVE  Consistent'
  BY <1>e DEF Consistent
<1>u. ASSUME UNCHANGED <<rules, monitors, used, handler>> PROVE Consistent'
  BY <1>0, <1>u, Read DEF Consistent
<1>1. ASSUME NEW r \in RuleId, NEW d \in Definition, CreateRule(w, r, d)
      PROVE  Consistent'
  <2>1. /\ handler' = handler /\ h.step = "idle" /\ Running' = Running
        /\ monitors' = monitors
    BY <1>1 DEF CreateRule, Idle, Running
  <2>2. /\ Stored' = Stored \cup {r} /\ r \notin Stored
        /\ r \notin used /\ used' = used \cup {r}
        /\ rules'[r].version = 1 /\ rules'[r].monitor = NoMonitor
        /\ rules'[r].deployed = 0 /\ \A q \in Stored : rules'[q] = rules[q]
    BY <1>0, <1>1, RowStored DEF CreateRule, OrNoMonitor
  <2>3. Issued' /\ Rows' /\ Unshared'
    BY <1>0, <2>1, <2>2, Context DEF Issued, Rows, Unshared
  <2>4. Working(h)' /\ Bound(h)'
    BY <1>0, <2>1, <2>2 DEF Working, Bound
  <2>5. Origins(h)'
    BY <1>0, <2>1, <2>2, Context DEF Origins, Issued
  <2> QED
    BY <1>e, <2>3, <2>4, <2>5
<1>2. ASSUME NEW r \in RuleId, NEW d \in Definition, UpdateRule(w, r, d)
      PROVE  Consistent'
  <2>1. /\ h.step = "idle" /\ r \in Stored /\ UNCHANGED <<rules, monitors, used>>
    BY <1>2 DEF UpdateRule, Idle
  <2>2. /\ h'.step = "bump" /\ h'.rule = r /\ h'.version = rules[r].version + 1
    BY <1>b, <1>2 DEF UpdateRule
  <2>3. Issued' /\ Rows' /\ Unshared' /\ Stored' = Stored /\ Running' = Running
    BY <1>0, <2>1, Read
  <2>4. Working(h)'
    BY <2>1, <2>2, <2>3, Context DEF Working
  <2>5. Bound(h)' /\ Origins(h)'
    BY <1>0, <2>1, <2>2, <2>3 DEF Bound, Origins
  <2> QED
    BY <1>e, <2>3, <2>4, <2>5
<1>3. ASSUME BumpRule(w) PROVE Consistent'
  <2>1. h.step = "bump" /\ h \in Bumping /\ h' = Idle /\ h'.step = "idle"
    BY <1>b, <1>3, Bumped DEF BumpRule, Idle
  <2>2. PICK r \in RuleId, d \in Definition, v \in Nat :
          r = h.rule /\ d = h.def /\ v = h.version /\ v \in 1 .. MaxVersion
    BY <2>1 DEF Bumping
  <2>3. r \in Stored /\ rules[r] \in Rule /\ rules[r].version < v
    BY <1>0, <2>1, <2>2, Context DEF Working
  <2>4. monitors' = monitors /\ used' = used /\ Running' = Running
    BY <1>3 DEF BumpRule, Running
  <2>5. rules' = [rules EXCEPT ![r] = [rules[r] EXCEPT !.def = d, !.version = v]]
    BY <1>3, <2>2, <2>3, Bumped DEF Stored
  <2>6. /\ Stored' = Stored /\ \A q \in Stored \ {r} : rules'[q] = rules[q]
        /\ rules'[r].version = v /\ rules'[r].monitor = rules[r].monitor
        /\ rules'[r].deployed = rules[r].deployed
    <3> DEFINE x == [rules[r] EXCEPT !.def = d, !.version = v]
    <3>1. x \in Rule
      BY <2>2, <2>3, Changed
    <3>2. /\ x.version = v /\ x.monitor = rules[r].monitor
          /\ x.deployed = rules[r].deployed
      BY <2>2, <2>3, Fields
    <3>3. rules' = [rules EXCEPT ![r] = x]
      BY <2>5
    <3> HIDE DEF x
    <3> QED
      BY <2>3, <3>1, <3>2, <3>3, RowPut
  <2>7. \A q \in Stored : /\ rules'[q].monitor = rules[q].monitor
                          /\ rules'[q].deployed = rules[q].deployed
    BY <2>6
  <2>8. Issued' /\ Unshared'
    BY <1>0, <2>4, <2>6, <2>7 DEF Issued, Unshared
  <2>9. Rows'
    <3>1. ASSUME NEW q \in Stored \ {r}
          PROVE  /\ rules'[q].deployed <= rules'[q].version
                 /\ ~setting.shared /\ rules'[q].deployed = rules'[q].version =>
                      \A m \in Running : rules'[q].monitor = m =>
                        monitors'[m].def = rules'[q].def
      BY <1>0, <2>4, <2>6, <3>1 DEF Rows
    <3>2. rules'[r].deployed < rules'[r].version
      <4>1. rules[r].deployed <= rules[r].version
        BY <1>0, <2>3 DEF Rows
      <4> QED
        BY <2>2, <2>3, <2>6, <4>1, Context
    <3>3. /\ rules'[r].deployed \in Nat /\ rules'[r].version \in Nat
      BY <2>3, <2>6, Context
    <3> QED
      BY <1>0, <2>4, <2>6, <3>1, <3>2, <3>3 DEF Rows
  <2>10. Working(h)' /\ Bound(h)' /\ Origins(h)'
    BY <1>0, <2>1, <2>4, <2>6, <2>7 DEF Working, Bound, Origins
  <2> QED
    BY <1>e, <2>8, <2>9, <2>10
<1>4. ASSUME NEW r \in RuleId, h.step = "idle", rules' = [rules EXCEPT ![r] = NoRule],
             UNCHANGED <<used, monitors, handler>>
      PROVE  Consistent'
  <2>1. /\ Stored' = Stored \ {r} /\ \A q \in Stored' : rules'[q] = rules[q]
    BY <1>4, RowEffect, ZenonT(30)
  <2>2. Running' = Running
    BY <1>4 DEF Running
  <2>3. Issued' /\ Rows' /\ Unshared'
    BY <1>0, <1>4, <2>1, <2>2 DEF Issued, Rows, Unshared
  <2>4. Working(h)' /\ Bound(h)' /\ Origins(h)'
    BY <1>0, <1>4, <2>1, <2>2 DEF Working, Bound, Origins
  <2> QED
    BY <1>e, <2>3, <2>4
<1>5. ASSUME NEW r \in RuleId, DeleteRule(w, r) PROVE Consistent'
  <2>1. h.step = "idle"
    BY <1>5 DEF DeleteRule, Idle
  <2> QED
    BY <1>4, <1>5, <2>1 DEF DeleteRule
<1>6. ASSUME RequestRuleRemoval(w) PROVE Consistent'
  <2>1. h.step = "idle" /\ UNCHANGED <<used, monitors, handler>>
    BY <1>6 DEF RequestRuleRemoval, Idle
  <2>2. \/ rules' = rules
        \/ console.rule \in RuleId /\ rules' = [rules EXCEPT ![console.rule] = NoRule]
    BY <1>6 DEF RequestRuleRemoval, Stored
  <2> QED
    BY <1>4, <1>u, <2>1, <2>2
<1>7. ASSUME NEW r \in RuleId, NEW t \in Target, ApplyRule(w, r, t) PROVE Consistent'
  <2>1. h.step = "idle" /\ r \in Stored /\ UNCHANGED <<rules, monitors, used>>
    BY <1>7 DEF ApplyRule, Idle
  <2>2. \/ h' = [step |-> "push", target |-> t, rule |-> r, read |-> rules[r],
                 cluster |-> Resolved]
        \/ h' = [step |-> "save", target |-> t, rule |-> r, read |-> rules[r],
                 monitor |-> rules[r].monitor, pushed |-> FALSE]
    BY <1>b, <1>7 DEF ApplyRule
  <2>3. /\ h'.step \in {"push", "save"} /\ h'.rule = r /\ h'.read = rules[r]
        /\ h'.step = "save" => h'.monitor = rules[r].monitor /\ ~h'.pushed
    BY <2>2
  <2>4. Issued' /\ Rows' /\ Unshared' /\ Stored' = Stored /\ Running' = Running
    BY <1>0, <2>1, Read
  <2>5. Working(h)'
    BY <1>0, <2>1, <2>3, <2>4 DEF Working, Issued
  <2>6. Bound(h)' /\ Origins(h)'
    BY <1>0, <2>1, <2>3, <2>4 DEF Bound, Origins
  <2> QED
    BY <1>e, <2>4, <2>5, <2>6
<1>8. ASSUME NEW m, m \in MonitorId, h.step = "push", h'.step = "save",
             h'.rule = h.rule, h'.read = h.read, h'.monitor = m, h'.pushed,
             h \in Pushing, UNCHANGED rules,
             \/ /\ h.read.monitor = NoMonitor
                /\ NewMonitor(m, h.cluster, h.read.def, h.rule)
             \/ /\ h.read.monitor = m /\ monitors[m] \in Monitor /\ used' = used
                /\ monitors' = [monitors EXCEPT ![m] =
                     [monitors[m] EXCEPT !.def = h.read.def, !.enabled = TRUE]]
      PROVE  Consistent'
  <2>1. PICK r \in RuleId, x \in Rule, d \in Definition, c \in Cluster :
          r = h.rule /\ x = h.read /\ d = x.def /\ c = h.cluster
    BY <1>8 DEF Pushing, Rule
  <2>2. r \in Stored /\ rules[r] = x /\ Stored' = Stored
    BY <1>0, <1>8, <2>1 DEF Working, Stored
  <2>3. CASE x.monitor = NoMonitor /\ NewMonitor(m, c, d, r)
    <3>1. /\ Running' = Running \cup {m} /\ m \notin Running
          /\ m \notin used /\ used' = used \cup {m}
          /\ monitors'[m].def = d /\ monitors'[m].origin = r
          /\ \A n \in Running : monitors'[n] = monitors[n]
      BY <1>0, <2>3, MonitorStarted
    <3>2. ~Owned(m) /\ m # NoMonitor
      BY <1>0, <1>8, <3>1, Context DEF Owned, Issued
    <3>3. Issued' /\ Rows' /\ Unshared'
      BY <1>0, <1>8, <2>2, <3>1, <3>2 DEF Issued, Rows, Unshared, Owned
    <3>4. Working(h)'
      BY <1>0, <1>8, <2>1, <2>2, <2>3, <3>1, <3>2 DEF Working, Owned
    <3>5. Bound(h)' /\ Origins(h)'
      BY <1>0, <1>8, <2>1, <2>2, <3>1 DEF Bound, Origins
    <3> QED
      BY <1>e, <3>3, <3>4, <3>5
  <2>4. CASE /\ x.monitor = m /\ monitors[m] \in Monitor /\ used' = used
             /\ monitors' = [monitors EXCEPT ![m] =
                  [monitors[m] EXCEPT !.def = d, !.enabled = TRUE]]
    <3>1. m \in Running
      BY <1>8, <2>4 DEF Running
    <3>2. /\ Running' = Running /\ \A n \in Running \ {m} : monitors'[n] = monitors[n]
          /\ monitors'[m].def = d /\ monitors'[m].origin = monitors[m].origin
      <4> DEFINE y == [monitors[m] EXCEPT !.def = d, !.enabled = TRUE]
      <4>1. y \in Monitor
        BY <2>4, Changed
      <4>2. y.def = d /\ y.origin = monitors[m].origin
        BY <2>4, Fields
      <4>3. monitors' = [monitors EXCEPT ![m] = y]
        BY <2>4
      <4> HIDE DEF y
      <4> QED
        BY <3>1, <4>1, <4>2, <4>3, MonitorPut
    <3>3. \A n \in Running : monitors'[n].origin = monitors[n].origin
      BY <3>2
    <3>4. Issued' /\ Unshared'
      BY <1>0, <1>8, <2>2, <2>4, <3>2, <3>3 DEF Issued, Unshared
    <3>5. Rows'
      <4>1. ASSUME NEW q \in Stored, ~setting.shared,
                   NEW n \in Running, rules[q].monitor = n,
                   rules[q].deployed = rules[q].version
            PROVE  monitors'[n].def = rules[q].def
        <5>1. CASE n # m
          BY <1>0, <3>2, <4>1, <5>1 DEF Rows
        <5>2. CASE n = m
          <6>1. q = r
            BY <1>0, <2>2, <2>4, <3>1, <4>1, <5>2, Context DEF Unshared
          <6> QED
            BY <2>1, <2>2, <3>2, <5>2, <6>1
        <5> QED
          BY <5>1, <5>2
      <4> QED
        BY <1>0, <1>8, <2>2, <3>2, <4>1 DEF Rows
    <3>6. Working(h)'
      BY <1>0, <1>8, <2>1, <2>2, <2>4, <3>1, <3>2 DEF Working, Issued
    <3>7. Bound(h)' /\ Origins(h)'
      BY <1>0, <1>8, <2>1, <2>2, <3>1, <3>2, <3>3 DEF Bound, Origins
    <3> QED
      BY <1>e, <3>4, <3>5, <3>6, <3>7
  <2> QED
    BY <1>8, <2>1, <2>3, <2>4
<1>9. ASSUME h' = Idle, h.step \in {"push", "flip"},
             UNCHANGED <<rules, monitors, used>>
      PROVE  Consistent'
  <2>1. h'.step = "idle"
    BY <1>9 DEF Idle
  <2>2. Issued' /\ Rows' /\ Unshared' /\ Stored' = Stored /\ Running' = Running
    BY <1>0, <1>9, Read
  <2>3. Working(h)' /\ Bound(h)' /\ Origins(h)'
    BY <1>0, <1>9, <2>1, <2>2 DEF Working, Bound, Origins
  <2> QED
    BY <1>e, <2>2, <2>3
<1>10. ASSUME PushMonitor(w) PROVE Consistent'
  <2>1. h.step = "push" /\ h \in Pushing /\ UNCHANGED rules
    BY <1>10, Push DEF PushMonitor
  <2>2. ASSUME NEW m, Pushed(w, m)
        PROVE  /\ h'.step = "save" /\ h'.rule = h.rule /\ h'.read = h.read
               /\ h'.monitor = m /\ h'.pushed
    <3>1. h' = [step |-> "save", target |-> h.target, rule |-> h.rule,
                read |-> h.read, monitor |-> m, pushed |-> TRUE]
      BY <1>b, <2>2 DEF Pushed
    <3> QED
      BY <3>1
  <2>3. CASE Become(w, Idle) /\ UNCHANGED <<used, monitors>>
    BY <1>9, <1>b, <2>1, <2>3
  <2>4. CASE \E m \in MonitorId \ used :
               /\ h.read.monitor = NoMonitor
               /\ NewMonitor(m, h.cluster, h.read.def, h.rule) /\ Pushed(w, m)
    BY <1>8, <2>1, <2>2, <2>4
  <2>5. CASE /\ h.read.monitor \in MonitorId /\ monitors[h.read.monitor] \in Monitor
             /\ monitors' = [monitors EXCEPT ![h.read.monitor] =
                  [monitors[h.read.monitor] EXCEPT !.def = h.read.def, !.enabled = TRUE]]
             /\ Pushed(w, h.read.monitor) /\ used' = used
    <3>1. PICK m \in MonitorId : m = h.read.monitor
      BY <2>5
    <3> QED
      BY <1>8, <2>1, <2>2, <2>5, <3>1
  <2> QED
    BY <1>10, <2>3, <2>4, <2>5, Push
<1>11. ASSUME SaveApplied(w) PROVE Consistent'
  <2>1. h.step = "save" /\ h \in Saving /\ h'.step = "idle"
    <3>1. h \in Saving /\ Become(w, Idle)
      BY <1>11, Saved, Zenon
    <3>2. h.step = "save"
      BY <1>11 DEF SaveApplied
    <3>3. h' = Idle
      BY <1>b, <3>1, Zenon
    <3> QED
      BY <3>1, <3>2, <3>3 DEF Idle
  <2>2. PICK r \in RuleId, m \in OrNoMonitor, v \in Nat, n \in Nat :
          /\ r = h.rule /\ m = h.monitor /\ v = h.read.version + 1
          /\ n = IF h.pushed THEN v ELSE 0
          /\ v \in 1 .. MaxVersion /\ n \in 0 .. MaxVersion
    <3>1. h.read.version \in Nat /\ h.read.version < MaxVersion
      BY <2>1 DEF Saving, Rule
    <3> QED
      BY <2>1, <3>1 DEF Saving
  <2>3. r \in Stored /\ rules[r] = h.read /\ rules[r] \in Rule
    BY <1>0, <2>1, <2>2, Context DEF Working
  <2>4. monitors' = monitors /\ used' = used /\ Running' = Running
    BY <1>11 DEF SaveApplied, Running
  <2>5. rules' = [rules EXCEPT ![r] = [rules[r] EXCEPT !.version = v, !.monitor = m,
                                                       !.deployed = n]]
    BY <1>11, <2>2, <2>3, Saved DEF Stored
  <2>6. /\ Stored' = Stored /\ \A q \in Stored \ {r} : rules'[q] = rules[q]
        /\ rules'[r].version = v /\ rules'[r].monitor = m /\ rules'[r].deployed = n
        /\ rules'[r].def = rules[r].def
    <3> DEFINE x == [rules[r] EXCEPT !.version = v, !.monitor = m, !.deployed = n]
    <3>1. x \in Rule
      BY <2>2, <2>3, Changed
    <3>2. /\ x.version = v /\ x.monitor = m /\ x.deployed = n /\ x.def = rules[r].def
      BY <2>2, <2>3, Fields
    <3>3. rules' = [rules EXCEPT ![r] = x]
      BY <2>5
    <3> HIDE DEF x
    <3> QED
      BY <2>3, <3>1, <3>2, <3>3, RowPut
  <2>7. /\ m \in used \cup {NoMonitor}
        /\ m = rules[r].monitor \/ (rules[r].monitor = NoMonitor /\ ~Owned(m))
        /\ h.pushed => \A k \in Running : m = k => monitors[k].def = rules[r].def
    BY <1>0, <2>1, <2>2, <2>3 DEF Working
  <2>8. Issued'
    BY <1>0, <2>4, <2>6, <2>7 DEF Issued
  <2>9. Unshared'
    <3>1. ASSUME ~setting.shared, NEW q \in Stored \ {r}, rules[q].monitor = m
          PROVE  m = NoMonitor
      BY <1>0, <2>3, <2>7, <3>1 DEF Unshared, Owned
    <3> QED
      BY <1>0, <2>3, <2>6, <3>1 DEF Unshared
  <2>10. Rows'
    <3>1. rules'[r].deployed <= rules'[r].version
      BY <2>2, <2>6
    <3>2. rules'[r].deployed = rules'[r].version => h.pushed
      BY <2>1, <2>2, <2>6 DEF Saving
    <3>3. /\ rules'[r].deployed = rules'[r].version =>
               \A k \in Running : rules'[r].monitor = k => monitors[k].def = rules'[r].def
      BY <2>6, <2>7, <3>2
    <3> QED
      BY <1>0, <2>4, <2>6, <3>1, <3>3 DEF Rows
  <2>11. Working(h)' /\ Bound(h)'
    BY <1>0, <2>1, <2>2, <2>4, <2>6 DEF Working, Bound
  <2>12. Origins(h)'
    <3>1. ASSUME ~setting.faults, NEW q \in Stored, NEW k \in Running,
                 monitors[k].origin = q
          PROVE  rules'[q].monitor = k
      <4>1. rules[q].monitor = k \/ (r = q /\ m = k)
        BY <1>0, <2>1, <2>2, <3>1 DEF Origins
      <4> QED
        BY <2>6, <2>7, <4>1, Context
    <3> QED
      BY <1>0, <2>4, <2>6, <3>1 DEF Origins
  <2> QED
    BY <1>e, <2>8, <2>9, <2>10, <2>11, <2>12
<1>12. ASSUME NEW m, NEW d \in Definition, NewMonitor(m, Resolved, d, NoRule),
              UNCHANGED rules,
              \/ h' = h
              \/ h.step = "idle" /\ h'.step = "store" /\ h'.monitor = m
       PROVE  Consistent'
  <2>1. /\ Running' = Running \cup {m} /\ m \notin Running
        /\ m \notin used /\ used' = used \cup {m} /\ m # NoMonitor
        /\ monitors'[m].origin = NoRule
        /\ \A n \in Running : monitors'[n] = monitors[n]
    <3>1. PICK c \in Cluster : c = Resolved
      BY Made
    <3>2. NewMonitor(m, c, d, NoRule)
      BY <1>12, <3>1
    <3> QED
      BY <1>0, <3>2, MonitorStarted, Context
  <2>2. Stored' = Stored /\ ~Owned(m) /\ \A n : Owned(n)' = Owned(n)
    BY <1>0, <1>12, <2>1 DEF Stored, Owned, Issued
  <2>3. \A r \in Stored : rules[r].monitor # m /\ r # NoRule
    BY <2>2, Context DEF Owned
  <2>4. Issued' /\ Rows' /\ Unshared'
    BY <1>0, <1>12, <2>1, <2>2, <2>3 DEF Issued, Rows, Unshared
  <2>5. Working(h)'
    <3>1. CASE h' = h
      BY <1>0, <1>12, <2>1, <2>2, <3>1 DEF Working
    <3>2. CASE h'.step = "store" /\ h'.monitor = m
      BY <1>0, <2>1, <2>2, <3>2 DEF Working
    <3> QED
      BY <1>12, <3>1, <3>2
  <2>6. Bound(h)'
    BY <1>0, <1>12, <2>1, <2>2 DEF Bound
  <2>7. Origins(h)'
    BY <1>0, <1>12, <2>1, <2>2, <2>3 DEF Origins
  <2> QED
    BY <1>e, <2>4, <2>5, <2>6, <2>7
<1>13. ASSUME NEW d \in Definition, NEW m \in MonitorId, DeployYaml(w, d, m)
       PROVE  Consistent'
  <2>1. h' = [step |-> "store", def |-> d, monitor |-> m] /\ h.step = "idle"
    BY <1>b, <1>13 DEF DeployYaml, Idle
  <2>2. h'.step = "store" /\ h'.monitor = m
    BY <2>1
  <2> QED
    BY <1>12, <1>13, <2>1, <2>2 DEF DeployYaml
<1>14. ASSUME NEW d \in Definition, NEW m \in MonitorId, DeployUnmanaged(d, m)
       PROVE  Consistent'
  BY <1>12, <1>14 DEF DeployUnmanaged
<1>15. ASSUME NEW r \in RuleId, NEW d \in Definition, NEW m \in OrNoMonitor,
              h.step \in {"store", "import"}, h.monitor = m, NewRule(r, d, m),
              h' = Idle, UNCHANGED monitors
       PROVE  Consistent'
  <2>1. h'.step = "idle" /\ Running' = Running
    BY <1>15 DEF Idle, Running
  <2>2. /\ Stored' = Stored \cup {r} /\ r \notin Stored
        /\ r \notin used /\ used' = used \cup {r}
        /\ rules'[r].version = 1 /\ rules'[r].monitor = m
        /\ rules'[r].deployed = 0 /\ \A q \in Stored : rules'[q] = rules[q]
    BY <1>0, <1>15, RowStored
  <2>3. m \in used /\ (~setting.shared => ~Owned(m))
    BY <1>0, <1>15 DEF Working
  <2>4. Issued' /\ Rows' /\ Unshared'
    BY <1>0, <1>15, <2>1, <2>2, <2>3 DEF Issued, Rows, Unshared, Owned
  <2>5. Working(h)' /\ Bound(h)'
    BY <1>0, <1>15, <2>1, <2>2 DEF Working, Bound
  <2>6. Origins(h)'
    BY <1>0, <1>15, <2>1, <2>2, Context DEF Origins, Issued
  <2> QED
    BY <1>e, <2>4, <2>5, <2>6
<1>16. ASSUME NEW r \in RuleId, StoreDeployed(w, r) \/ StoreImported(w, r)
       PROVE  Consistent'
  <2>1. h' = Idle /\ UNCHANGED monitors /\ h.step \in {"store", "import"}
    BY <1>b, <1>16 DEF StoreDeployed, StoreImported
  <2>2. CASE StoreDeployed(w, r)
    <3>1. h.def \in Definition /\ h.monitor \in OrNoMonitor
      BY <1>0, <2>2, Steps DEF StoreDeployed, Storing, OrNoMonitor
    <3> QED
      BY <1>15, <2>1, <2>2, <3>1 DEF StoreDeployed
  <2>3. CASE StoreImported(w, r)
    <3>1. h.read.def \in Definition /\ h.monitor \in OrNoMonitor
      BY <1>0, <2>3, Steps DEF StoreImported, Importing, Monitor, OrNoMonitor
    <3>2. [h.read.def EXCEPT !.threshold = FALSE] \in Definition
      BY <3>1, Made
    <3> QED
      BY <1>15, <2>1, <2>3, <3>1, <3>2 DEF StoreImported
  <2> QED
    BY <1>16, <2>2, <2>3
<1>17. ASSUME NEW m \in MonitorId, ToggleMonitor(w, m) \/ ImportMonitor(w, m)
       PROVE  Consistent'
  <2>1. h.step = "idle" /\ m \in Running /\ UNCHANGED <<rules, monitors, used>>
    BY <1>17 DEF ToggleMonitor, ImportMonitor, Idle, Reaches
  <2>2. /\ h'.monitor = m /\ h'.read = monitors[m]
        /\ \/ h'.step = "flip"
           \/ h'.step = "import" /\ (~setting.shared => ~Owned(m))
    BY <1>b, <1>17 DEF ToggleMonitor, ImportMonitor, Owned
  <2>3. /\ Issued' /\ Rows' /\ Unshared' /\ Stored' = Stored /\ Running' = Running
        /\ \A n : Owned(n)' = Owned(n)
    BY <1>0, <2>1, Read DEF Owned
  <2>4. Working(h)'
    BY <1>0, <2>1, <2>2, <2>3 DEF Working, Issued
  <2>5. Bound(h)' /\ Origins(h)'
    BY <1>0, <2>1, <2>2, <2>3 DEF Bound, Origins
  <2> QED
    BY <1>e, <2>3, <2>4, <2>5
<1>18. ASSUME NEW m, h.step = "idle", RemoveMonitor(w, m), UNCHANGED <<rules, used>>
       PROVE  Consistent'
  <2>1. CASE UNCHANGED <<monitors, handler>>
    BY <1>18, <1>u, <2>1
  <2>2. CASE /\ m \in MonitorId /\ monitors[m] # NoMonitor
             /\ monitors' = [monitors EXCEPT ![m] = NoMonitor]
             /\ Become(w, [step |-> "list", monitor |-> m])
    <3>1. /\ m \in Running /\ Running' = Running \ {m} /\ Stored' = Stored
          /\ \A n \in Running' : monitors'[n] = monitors[n]
      BY <1>18, <2>2, MonitorEffect DEF Running, Stored
    <3>2. h'.step = "list" /\ h'.monitor = m
      BY <1>b, <2>2
    <3>3. Issued' /\ Rows' /\ Unshared'
      BY <1>0, <1>18, <3>1 DEF Issued, Rows, Unshared
    <3>4. Working(h)' /\ Bound(h)'
      BY <1>0, <1>18, <3>1, <3>2 DEF Working, Bound, Issued
    <3>5. Origins(h)'
      BY <1>0, <1>18, <3>1, <3>2 DEF Origins
    <3> QED
      BY <1>e, <3>3, <3>4, <3>5
  <2> QED
    BY <1>0, <1>18, <2>1, <2>2, MonitorRemoved
<1>19. ASSUME NEW m \in MonitorId, DeleteMonitor(w, m) PROVE Consistent'
  <2>1. h.step = "idle"
    BY <1>19 DEF DeleteMonitor, Idle
  <2> QED
    BY <1>18, <1>19, <2>1 DEF DeleteMonitor
<1>20. ASSUME RequestMonitorRemoval(w) PROVE Consistent'
  <2>1. h.step = "idle"
    BY <1>20 DEF RequestMonitorRemoval, Idle
  <2> QED
    BY <1>18, <1>20, <2>1 DEF RequestMonitorRemoval
<1>21. ASSUME FlipMonitor(w) PROVE Consistent'
  <2>1. h.step = "flip" /\ h \in Flipping /\ h' = Idle /\ UNCHANGED <<rules, used>>
    BY <1>b, <1>21, Flipped DEF FlipMonitor
  <2>2. PICK m \in MonitorId, d \in Definition, on \in BOOLEAN :
          m = h.monitor /\ d = h.read.def /\ on = ~h.read.enabled
    BY <2>1 DEF Flipping, Monitor
  <2>3. CASE monitors' = monitors
    BY <1>9, <2>1, <2>3
  <2>4. CASE /\ monitors[m] \in Monitor
             /\ monitors' = [monitors EXCEPT ![m] =
                  [monitors[m] EXCEPT !.def = d, !.enabled = on]]
    <3>1. m \in Running /\ monitors[m].def = d
      BY <1>0, <2>1, <2>2, <2>4 DEF Working, Running
    <3>2. /\ Running' = Running /\ \A n \in Running \ {m} : monitors'[n] = monitors[n]
          /\ monitors'[m].def = d /\ monitors'[m].origin = monitors[m].origin
      <4> DEFINE y == [monitors[m] EXCEPT !.def = d, !.enabled = on]
      <4>1. y \in Monitor
        BY <2>4, Changed
      <4>2. y.def = d /\ y.origin = monitors[m].origin
        BY <2>4, Fields
      <4>3. monitors' = [monitors EXCEPT ![m] = y]
        BY <2>4
      <4> HIDE DEF y
      <4> QED
        BY <3>1, <4>1, <4>2, <4>3, MonitorPut
    <3>3. /\ Stored' = Stored /\ h'.step = "idle"
          /\ \A n \in Running : /\ monitors'[n].def = monitors[n].def
                                /\ monitors'[n].origin = monitors[n].origin
      BY <2>1, <3>1, <3>2 DEF Stored, Idle
    <3>4. Issued' /\ Rows' /\ Unshared'
      BY <1>0, <2>1, <3>2, <3>3 DEF Issued, Rows, Unshared
    <3>5. Working(h)' /\ Bound(h)' /\ Origins(h)'
      BY <1>0, <2>1, <3>2, <3>3 DEF Working, Bound, Origins
    <3> QED
      BY <1>e, <3>4, <3>5
  <2> QED
    BY <1>21, <2>2, <2>3, <2>4, Flipped
<1>22. ASSUME ListOwners(w) PROVE Consistent'
  <2>1. h.step = "list" /\ UNCHANGED <<rules, monitors, used>>
    BY <1>22 DEF ListOwners
  <2>2. /\ h'.step = "detach" /\ h'.monitor = h.monitor
        /\ h'.todo = {r \in Stored : rules[r].monitor = h.monitor}
    BY <1>b, <1>22 DEF ListOwners
  <2>3. Issued' /\ Rows' /\ Unshared' /\ Stored' = Stored /\ Running' = Running
    BY <1>0, <2>1, Read
  <2>4. Working(h)' /\ Bound(h)' /\ Origins(h)'
    BY <1>0, <2>1, <2>2, <2>3 DEF Working, Bound, Origins
  <2> QED
    BY <1>e, <2>3, <2>4
<1>23. ASSUME DetachOwner(w) PROVE Consistent'
  <2>1. PICK r \in RuleId :
          /\ rules' = IF r \in Stored THEN [rules EXCEPT ![r].monitor = NoMonitor]
                      ELSE rules
          /\ r \in h.todo /\ Become(w, [h EXCEPT !.todo = @ \ {r}])
    BY <1>23 DEF DetachOwner
  <2>2. h.step = "detach" /\ h \in Detaching /\ UNCHANGED <<monitors, used>>
    BY <1>0, <1>23, Steps DEF DetachOwner
  <2>3. h'.step = "detach" /\ h'.monitor = h.monitor /\ h'.todo = h.todo \ {r}
    BY <1>b, <2>1, <2>2 DEF Detaching
  <2>4. Running' = Running
    BY <2>2 DEF Running
  <2>5. CASE r \notin Stored
    <3>1. /\ Issued' /\ Rows' /\ Unshared' /\ Stored' = Stored /\ rules' = rules
      BY <1>0, <2>1, <2>2, <2>5, Read
    <3>2. Working(h)' /\ Bound(h)' /\ Origins(h)'
      BY <1>0, <2>2, <2>3, <2>4, <2>5, <3>1 DEF Working, Bound, Origins
    <3> QED
      BY <1>e, <3>1, <3>2
  <2>6. CASE r \in Stored
    <3>1. /\ Stored' = Stored /\ \A q \in Stored \ {r} : rules'[q] = rules[q]
          /\ rules'[r].def = rules[r].def /\ rules'[r].version = rules[r].version
          /\ rules'[r].deployed = rules[r].deployed /\ rules'[r].monitor = NoMonitor
      <4> DEFINE x == [rules[r] EXCEPT !.monitor = NoMonitor]
      <4>1. rules[r] \in Rule
        BY <2>6, Context
      <4>2. rules' = [rules EXCEPT ![r] = x]
        BY <2>1, <2>6
      <4>3. x \in Rule
        BY <4>1, Changed
      <4>4. /\ x.def = rules[r].def /\ x.version = rules[r].version
            /\ x.deployed = rules[r].deployed /\ x.monitor = NoMonitor
        BY <4>1, Fields
      <4> HIDE DEF x
      <4> QED
        BY <2>6, <4>2, <4>3, <4>4, RowPut
    <3>2. Issued' /\ Rows'
      BY <1>0, <2>2, <2>4, <3>1, Context DEF Issued, Rows
    <3>3. Unshared'
      BY <1>0, <3>1 DEF Unshared
    <3>4. Working(h)' /\ Bound(h)'
      BY <1>0, <2>2, <2>3, <2>4, <3>1 DEF Working, Bound
    <3>5. Origins(h)'
      <4>1. rules[r].monitor \notin Running
        BY <1>0, <2>1, <2>2, <2>6 DEF Working
      <4> QED
        BY <1>0, <2>2, <2>3, <2>4, <3>1, <4>1 DEF Origins
    <3> QED
      BY <1>e, <3>2, <3>3, <3>4, <3>5
  <2> QED
    BY <2>5, <2>6
<1>24. ASSUME Detached(w) \/ Abort(w) PROVE Consistent'
  <2>1. /\ h'.step = "idle" /\ UNCHANGED <<rules, monitors, used>>
        /\ setting.faults \/ (h.step = "detach" /\ h.todo = {})
    BY <1>b, <1>24 DEF Detached, Abort, Idle
  <2>2. Issued' /\ Rows' /\ Unshared' /\ Stored' = Stored /\ Running' = Running
    BY <1>0, <2>1, Read
  <2>3. Working(h)' /\ Bound(h)' /\ Origins(h)'
    BY <1>0, <2>1, <2>2 DEF Working, Bound, Origins
  <2> QED
    BY <1>e, <2>2, <2>3
<1>25. ASSUME NEW m \in MonitorId, DropMonitor(m) PROVE Consistent'
  <2>1. UNCHANGED <<rules, used, handler>> /\ setting.dashboards
    BY <1>25 DEF DropMonitor
  <2>2. /\ m \in Running /\ Running' = Running \ {m} /\ Stored' = Stored
        /\ \A n \in Running' : monitors'[n] = monitors[n]
    BY <1>25, MonitorEffect DEF DropMonitor, Running, Stored
  <2>3. Issued' /\ Rows' /\ Unshared' /\ \A n : Owned(n)' = Owned(n)
    BY <1>0, <2>1, <2>2 DEF Issued, Rows, Unshared, Owned
  <2>4. Working(h)'
    BY <1>0, <2>1, <2>2, <2>3 DEF Working
  <2>5. Bound(h)' /\ Origins(h)'
    BY <1>0, <2>1, <2>2 DEF Bound, Origins
  <2> QED
    BY <1>e, <2>3, <2>4, <2>5
<1>26. CASE \/ \E t \in Target, s \in Status : SetStatus(w, t, s)
            \/ \E on \in BOOLEAN : SetAccess(w, on)
            \/ \E r \in RuleId : ConfirmRemoval(r)
            \/ MonitorRemovalAnswered \/ CloseConsole
  BY <1>u, <1>26
     DEF SetStatus, SetAccess, ConfirmRemoval, MonitorRemovalAnswered, CloseConsole
<1> QED
  BY <1>1, <1>2, <1>3, <1>5, <1>6, <1>7, <1>10, <1>11, <1>13, <1>14, <1>16, <1>17, <1>19,
     <1>20, <1>21, <1>22, <1>23, <1>24, <1>25, <1>26 DEF Next, Step

LEMMA ConsistentInvariant == OneWorker /\ Spec => []Consistent
<1> SUFFICES ASSUME OneWorker PROVE Spec => []Consistent
  OBVIOUS
<1>1. Init => Consistent
  BY DEF Init, Consistent, Issued, Rows, Unshared, Working, Bound, Origins, Stored,
         Running, Idle
<1>2. Typed /\ Consistent /\ [Next]_vars => Consistent'
  <2>1. ASSUME Consistent, UNCHANGED vars PROVE Consistent'
    BY <2>1, Read DEF vars, Consistent
  <2> QED
    BY <2>1, ConsistentStep DEF OneWorker
<1> QED
  BY <1>1, <1>2, TypedInvariant, PTL DEF Spec

-----------------------------------------------------------------------------
(* With one API process and no failures a rule has at most one monitor      *)
(* that was made for it, however often it is applied, edited and detached.  *)
THEOREM AppliesNeverPileUp == OneWorker /\ Spec => []OneMonitorPerRule
<1> SUFFICES ASSUME OneWorker PROVE Spec => []OneMonitorPerRule
  OBVIOUS
<1>1. Typed /\ Consistent => OneMonitorPerRule
  <2> SUFFICES ASSUME Typed, Consistent, ~setting.faults, NEW r \in Stored
               PROVE  Cardinality({m \in Running : monitors[m].origin = r}) <= 1
    BY DEF OneMonitorPerRule, Undisturbed
  <2> DEFINE S == {m \in Running : monitors[m].origin = r}
  <2>1. PICK w : Worker = {w}
    BY DEF OneWorker
  <2>2. ASSUME NEW m \in S, NEW n \in S PROVE m = n
    <3> DEFINE h == handler[w]
    <3>1. /\ rules[r].monitor = m \/ (h.step = "save" /\ h.rule = r /\ h.monitor = m)
          /\ rules[r].monitor = n \/ (h.step = "save" /\ h.rule = r /\ h.monitor = n)
      BY <2>1 DEF Consistent, Origins
    <3>2. h.step = "save" /\ h.rule = r =>
            h.monitor = rules[r].monitor \/ rules[r].monitor = NoMonitor
      BY <2>1 DEF Consistent, Working
    <3>3. m # NoMonitor /\ n # NoMonitor
      BY Context
    <3> QED
      BY <3>1, <3>2, <3>3
  <2>3. Cardinality(S) \in {0, 1}
    <3>1. CASE S = {}
      BY <3>1, FS_EmptySet
    <3>2. CASE S # {}
      <4>1. PICK m : m \in S
        BY <3>2
      <4>2. S = {m}
        BY <2>2, <4>1
      <4> QED
        BY <4>2, FS_Singleton
    <3> QED
      BY <3>1, <3>2
  <2> QED
    BY <2>3
<1> QED
  BY <1>1, TypedInvariant, ConsistentInvariant, PTL

(* With one API process and nothing failing, a rule never keeps the id of a *)
(* monitor that was deleted through the API, however many rules shared it.  *)
THEOREM DeletingDetaches == OneWorker /\ Spec => []NoDanglingMonitor
<1> SUFFICES ASSUME OneWorker PROVE Spec => []NoDanglingMonitor
  OBVIOUS
<1>1. Consistent => NoDanglingMonitor
  <2> SUFFICES ASSUME Consistent, ~setting.faults, ~setting.dashboards, Quiescent,
                      NEW r \in Stored, rules[r].monitor # NoMonitor
               PROVE  rules[r].monitor \in Running
    BY DEF NoDanglingMonitor, Undisturbed
  <2>1. PICK w : Worker = {w}
    BY DEF OneWorker
  <2>2. handler[w].step = "idle" /\ Bound(handler[w])
    BY <2>1 DEF Quiescent, Consistent, Idle
  <2> QED
    BY <2>2 DEF Bound
<1> QED
  BY <1>1, ConsistentInvariant, PTL

(* With one API process the definition a deployed, unedited rule shows is   *)
(* the one its monitor runs, whatever fails, and whatever is toggled or     *)
(* deleted in between.                                                      *)
THEOREM DeployedRulesRunAsShown == OneWorker /\ Spec => []DeployedIsCurrent
<1> SUFFICES ASSUME OneWorker PROVE Spec => []DeployedIsCurrent
  OBVIOUS
<1>1. Consistent => DeployedIsCurrent
  BY DEF Consistent, Rows, DeployedIsCurrent
<1> QED
  BY <1>1, ConsistentInvariant, PTL

(* The monitor of a stranded rule stays away: ids are never reused.         *)
LEMMA StaysAway ==
  ASSUME NEW w, Worker = {w}, Typed, Consistent, Next, NEW m \in used, m \notin Running,
         m # NoMonitor
  PROVE  m \notin Running'
<1>1. handler[w] \in Local /\ w \in Worker
  BY DEF Typed
<1>2. ASSUME NEW n, NEW c, NEW d, NEW r, NewMonitor(n, c, d, r) PROVE m \notin Running'
  BY <1>2 DEF NewMonitor, FreshMonitor, Running, Typed
<1>3. ASSUME NEW n, RemoveMonitor(w, n) PROVE m \notin Running'
  BY <1>3, MonitorRemoved DEF Running, Typed
<1>4. ASSUME PushMonitor(w) PROVE m \notin Running'
  <2> DEFINE h == handler[w]
  <2>1. CASE \E n \in MonitorId \ used : NewMonitor(n, h.cluster, h.read.def, h.rule)
    BY <2>1, <1>2 DEF NewMonitor, FreshMonitor, Running, Typed
  <2>2. CASE /\ monitors[h.read.monitor] \in Monitor
             /\ monitors' = [monitors EXCEPT ![h.read.monitor] =
                  [monitors[h.read.monitor] EXCEPT !.def = h.read.def, !.enabled = TRUE]]
    BY <2>2 DEF Running, Typed
  <2>3. CASE UNCHANGED monitors
    BY <2>3 DEF Running
  <2> QED
    BY <1>4, <2>1, <2>2, <2>3, Push
<1>5. ASSUME FlipMonitor(w) PROVE m \notin Running'
  BY <1>5, Flipped DEF Running, Typed
<1>6. ASSUME NEW n \in MonitorId, DropMonitor(n) PROVE m \notin Running'
  BY <1>6 DEF DropMonitor, Running, Typed
<1>7. ASSUME UNCHANGED monitors PROVE m \notin Running'
  BY <1>7 DEF Running
<1>8. ASSUME NEW n, NEW d, DeployYaml(w, d, n) \/ DeployUnmanaged(d, n)
      PROVE  m \notin Running'
  BY <1>8 DEF DeployYaml, DeployUnmanaged, NewMonitor, FreshMonitor, Running, Typed
<1>9. ASSUME RequestMonitorRemoval(w) PROVE m \notin Running'
  <2>1. PICK n : n = console.monitor
    OBVIOUS
  <2>2. RemoveMonitor(w, n)
    BY <1>9, <2>1 DEF RequestMonitorRemoval
  <2> QED
    BY <1>3, <2>2
<1>10. ASSUME NEW n, DeleteMonitor(w, n) PROVE m \notin Running'
  BY <1>3, <1>10 DEF DeleteMonitor
<1>11. CASE UNCHANGED monitors
  BY <1>7, <1>11
<1> QED
  BY <1>4, <1>5, <1>6, <1>8, <1>9, <1>10, <1>11, ZenonT(30)
     DEF Next, Step, CreateRule, UpdateRule, BumpRule, DeleteRule, ApplyRule, SaveApplied,
         StoreDeployed, StoreImported, ToggleMonitor, ImportMonitor, ListOwners,
         DetachOwner, Detached, SetStatus, SetAccess, RequestRuleRemoval, Abort,
         ConfirmRemoval, MonitorRemovalAnswered, CloseConsole

(* A row keeps its monitor until it is saved, detached or deleted.          *)
LEMMA KeepsMonitor ==
  ASSUME NEW w, Worker = {w}, Typed, Consistent, Next, NEW r \in Stored,
         rules[r].monitor # NoMonitor, rules[r].monitor \notin Running,
         handler[w].step = "detach" => handler[w].monitor # rules[r].monitor
  PROVE  rules'[r] = NoRule \/ rules'[r].monitor = rules[r].monitor
<1> DEFINE h == handler[w]
<1>0. /\ h \in Local /\ w \in Worker /\ Issued /\ Working(h)
      /\ r \in RuleId /\ rules[r] \in Rule /\ r \in used
      /\ rules \in [RuleId -> Rule \cup {NoRule}]
  BY Context DEF Consistent, Issued, Typed
<1>1. ASSUME NEW q, NEW d, NEW m, NewRule(q, d, m) PROVE rules'[r] = rules[r]
  BY <1>0, <1>1 DEF NewRule
<1>2. ASSUME BumpRule(w) PROVE rules'[r].monitor = rules[r].monitor
  <2>1. PICK q \in RuleId, d \in Definition, v \in 1 .. MaxVersion :
          q = h.rule /\ d = h.def /\ v = h.version
    BY <1>2, Bumped DEF Bumping
  <2>2. CASE rules' = rules
    BY <2>2
  <2>3. CASE /\ rules[q] \in Rule
             /\ rules' = [rules EXCEPT ![q] = [rules[q] EXCEPT !.def = d, !.version = v]]
    <3> DEFINE x == [rules[q] EXCEPT !.def = d, !.version = v]
    <3>1. x.monitor = rules[q].monitor
      BY <2>3, Fields
    <3>2. rules' = [rules EXCEPT ![q] = x]
      BY <2>3
    <3> HIDE DEF x
    <3> QED
      BY <1>0, <3>1, <3>2
  <2> QED
    BY <1>2, <2>1, <2>2, <2>3, Bumped
<1>3. ASSUME SaveApplied(w) PROVE rules'[r].monitor = rules[r].monitor
  <2>1. h.step = "save" /\ h \in Saving
    BY <1>3, Saved DEF SaveApplied
  <2>2. PICK q \in RuleId, m \in OrNoMonitor, v \in 1 .. MaxVersion,
             n \in 0 .. MaxVersion :
          /\ q = h.rule /\ m = h.monitor /\ v = h.read.version + 1
          /\ n = IF h.pushed THEN v ELSE 0
    <3>1. h.read.version \in Nat /\ h.read.version < MaxVersion
      BY <2>1 DEF Saving, Rule
    <3> QED
      BY <2>1, <3>1 DEF Saving
  <2>3. q = r => m = rules[r].monitor
    BY <1>0, <2>1, <2>2 DEF Working
  <2>4. CASE rules' = rules
    BY <2>4
  <2>5. CASE /\ rules[q] \in Rule
             /\ rules' = [rules EXCEPT ![q] =
                  [rules[q] EXCEPT !.version = v, !.monitor = m, !.deployed = n]]
    <3> DEFINE x == [rules[q] EXCEPT !.version = v, !.monitor = m, !.deployed = n]
    <3>1. x.monitor = m
      BY <2>5, Fields
    <3>2. rules' = [rules EXCEPT ![q] = x]
      BY <2>5
    <3> HIDE DEF x
    <3> QED
      BY <1>0, <2>3, <3>1, <3>2
  <2> QED
    BY <1>3, <2>2, <2>4, <2>5, Saved
<1>4. ASSUME DetachOwner(w) PROVE rules' = rules \/ rules'[r] = rules[r]
  <2>1. PICK q \in RuleId :
          /\ q \in h.todo
          /\ rules' = IF q \in Stored THEN [rules EXCEPT ![q].monitor = NoMonitor]
                      ELSE rules
    BY <1>4 DEF DetachOwner
  <2>2. q # r
    BY <1>0, <1>4, <2>1 DEF DetachOwner, Working
  <2> QED
    BY <1>0, <2>1, <2>2
<1>5. ASSUME NEW q, rules' = [rules EXCEPT ![q] = NoRule]
      PROVE  rules'[r] = NoRule \/ rules'[r] = rules[r]
  BY <1>0, <1>5
<1>6. ASSUME RequestRuleRemoval(w) PROVE rules'[r] = NoRule \/ rules'[r] = rules[r]
  BY <1>0, <1>6 DEF RequestRuleRemoval
<1>7. ASSUME NEW q, NEW d, CreateRule(w, q, d) PROVE rules'[r] = rules[r]
  BY <1>1, <1>7 DEF CreateRule
<1>8. ASSUME NEW q, StoreDeployed(w, q) \/ StoreImported(w, q) PROVE rules'[r] = rules[r]
  BY <1>0, <1>8 DEF StoreDeployed, StoreImported, NewRule
<1>9. ASSUME NEW q, DeleteRule(w, q) PROVE rules'[r] = NoRule \/ rules'[r] = rules[r]
  BY <1>5, <1>9 DEF DeleteRule
<1>10. CASE UNCHANGED rules
  BY <1>10
<1> QED
  BY <1>2, <1>3, <1>4, <1>6, <1>7, <1>8, <1>9, <1>10, ZenonT(30)
     DEF Next, Step, UpdateRule, ApplyRule, PushMonitor, DeployYaml, ToggleMonitor,
         DeleteMonitor, ImportMonitor, FlipMonitor, ListOwners, Detached, SetStatus,
         SetAccess, RequestMonitorRemoval, Abort, DeployUnmanaged, ConfirmRemoval,
         MonitorRemovalAnswered, CloseConsole, DropMonitor

(* Only a monitor the cluster has can be deleted.                           *)
LEMMA NotRemovedTwice ==
  ASSUME NEW w, Worker = {w}, Typed, Consistent, Next, NEW m, m \notin Running,
         handler[w].step \in {"list", "detach"} => handler[w].monitor # m
  PROVE  handler'[w].step \in {"list", "detach"} => handler'[w].monitor # m
<1> DEFINE h == handler[w]
<1>0. h \in Local /\ w \in Worker /\ handler \in [Worker -> Local]
  BY DEF Typed
<1>b. ASSUME NEW g, Become(w, g) PROVE h' = g
  BY <1>0, <1>b DEF Become
<1>1. ASSUME NEW n, RemoveMonitor(w, n)
      PROVE  h'.step \in {"list", "detach"} => h'.monitor # m
  <2>1. CASE UNCHANGED handler
    BY <2>1
  <2>2. CASE n \in Running /\ Become(w, [step |-> "list", monitor |-> n])
    <3>1. h' = [step |-> "list", monitor |-> n]
      BY <1>b, <2>2
    <3> QED
      BY <2>2, <3>1
  <2> QED
    BY <1>1, <2>1, <2>2 DEF RemoveMonitor, Reaches
<1>2. ASSUME RequestMonitorRemoval(w)
      PROVE  h'.step \in {"list", "detach"} => h'.monitor # m
  <2>1. PICK n : n = console.monitor
    OBVIOUS
  <2>2. RemoveMonitor(w, n)
    BY <1>2, <2>1 DEF RequestMonitorRemoval
  <2> QED
    BY <1>1, <2>2
<1>3. ASSUME NEW n, DeleteMonitor(w, n)
      PROVE  h'.step \in {"list", "detach"} => h'.monitor # m
  BY <1>1, <1>3 DEF DeleteMonitor
<1>4. ASSUME ListOwners(w) PROVE h'.monitor # m
  <2>1. h'.monitor = h.monitor /\ h.step = "list"
    BY <1>b, <1>4 DEF ListOwners
  <2> QED
    BY <2>1
<1>5. ASSUME DetachOwner(w) PROVE h'.monitor # m
  <2>1. h \in Detaching /\ h.step = "detach"
    BY <1>0, <1>5, Steps DEF DetachOwner
  <2>2. \E t : h' = [h EXCEPT !.todo = t]
    BY <1>b, <1>5 DEF DetachOwner
  <2>3. h'.monitor = h.monitor
    BY <2>1, <2>2 DEF Detaching
  <2> QED
    BY <2>1, <2>3
<1>6. ASSUME h' = Idle PROVE h'.step \notin {"list", "detach"}
  BY <1>6 DEF Idle
<1>7. ASSUME BumpRule(w) \/ SaveApplied(w) \/ FlipMonitor(w) \/ Detached(w) \/ Abort(w)
      PROVE  h' = Idle
  BY <1>b, <1>7 DEF BumpRule, SaveApplied, FlipMonitor, Detached, Abort
<1>8. ASSUME NEW q, StoreDeployed(w, q) \/ StoreImported(w, q) PROVE h' = Idle
  BY <1>b, <1>8 DEF StoreDeployed, StoreImported
<1>9. ASSUME PushMonitor(w) PROVE h'.step \notin {"list", "detach"}
  <2>1. \/ Become(w, Idle)
        \/ \E n : Pushed(w, n)
    BY <1>9 DEF PushMonitor
  <2>2. ASSUME NEW n, Pushed(w, n) PROVE h'.step = "save"
    <3>1. h' = [step |-> "save", target |-> h.target, rule |-> h.rule,
                read |-> h.read, monitor |-> n, pushed |-> TRUE]
      BY <1>b, <2>2 DEF Pushed
    <3> QED
      BY <3>1
  <2> QED
    BY <1>b, <1>6, <2>1, <2>2
<1>10. ASSUME NEW q, NEW d, UpdateRule(w, q, d) PROVE h'.step = "bump"
  <2>1. h' = [step |-> "bump", rule |-> q, def |-> d, version |-> rules[q].version + 1]
    BY <1>b, <1>10 DEF UpdateRule
  <2> QED
    BY <2>1
<1>11. ASSUME NEW q, NEW t, ApplyRule(w, q, t) PROVE h'.step \in {"push", "save"}
  <2>1. \/ h' = [step |-> "push", target |-> t, rule |-> q, read |-> rules[q],
                 cluster |-> Resolved]
        \/ h' = [step |-> "save", target |-> t, rule |-> q, read |-> rules[q],
                 monitor |-> rules[q].monitor, pushed |-> FALSE]
    BY <1>b, <1>11 DEF ApplyRule
  <2> QED
    BY <2>1
<1>12. ASSUME NEW d, NEW n, DeployYaml(w, d, n) PROVE h'.step = "store"
  <2>1. h' = [step |-> "store", def |-> d, monitor |-> n]
    BY <1>b, <1>12 DEF DeployYaml
  <2> QED
    BY <2>1
<1>13. ASSUME NEW n, ToggleMonitor(w, n) \/ ImportMonitor(w, n)
       PROVE  h'.step \in {"flip", "import"}
  <2>1. \/ h' = [step |-> "flip", monitor |-> n, read |-> monitors[n]]
        \/ h' = [step |-> "import", monitor |-> n, read |-> monitors[n]]
    BY <1>b, <1>13 DEF ToggleMonitor, ImportMonitor
  <2> QED
    BY <2>1
<1>14. CASE UNCHANGED handler
  BY <1>14
<1> QED
  BY <1>2, <1>3, <1>4, <1>5, <1>6, <1>7, <1>8, <1>9, <1>10, <1>11, <1>12, <1>13, <1>14
     DEF Next, Step, CreateRule, DeleteRule, SetStatus, SetAccess, RequestRuleRemoval,
         DeployUnmanaged, ConfirmRemoval, MonitorRemovalAnswered, CloseConsole, DropMonitor

(* With one API process a rule whose monitor was deleted behind the API's   *)
(* back can never be bound to another one, nor detached.                    *)
THEOREM StrandedForGood == OneWorker /\ Spec => StrandedStaysStranded
<1> SUFFICES ASSUME OneWorker PROVE Spec => StrandedStaysStranded
  OBVIOUS
<1>1. ASSUME Typed, Consistent, Consistent', [Next]_vars, NEW r \in RuleId, Stranded(r)
      PROVE  Stranded(r)' \/ rules'[r] = NoRule
  <2>1. PICK w : Worker = {w}
    BY DEF OneWorker
  <2>2. /\ r \in Stored /\ rules[r].monitor # NoMonitor
        /\ rules[r].monitor \notin Running /\ rules[r].monitor \in used
        /\ handler[w].step \in {"list", "detach"} => handler[w].monitor # rules[r].monitor
    BY <1>1, <2>1 DEF Stranded, Consistent, Issued
  <2>3. CASE UNCHANGED vars
    BY <1>1, <2>3 DEF Stranded, Stored, Running, vars
  <2>4. CASE Next /\ rules'[r] # NoRule
    <3>1. PICK m : m = rules[r].monitor
      OBVIOUS
    <3>2. rules'[r].monitor = m
      BY <1>1, <2>1, <2>2, <2>4, <3>1, KeepsMonitor
    <3>3. m \notin Running' /\ m # NoMonitor /\ r \in Stored'
      BY <1>1, <2>1, <2>2, <2>4, <3>1, StaysAway DEF Stored
    <3>4. handler'[w].step \in {"list", "detach"} => handler'[w].monitor # m
      BY <1>1, <2>1, <2>2, <2>4, <3>1, NotRemovedTwice
    <3>5. /\ handler'[w].step = "push" /\ handler'[w].rule = r =>
               handler'[w].read.monitor = m
          /\ handler'[w].step = "save" /\ handler'[w].rule = r =>
               handler'[w].monitor = m
      <4>1. Working(handler[w])'
        BY <1>1, <2>1 DEF Consistent
      <4> QED
        BY <3>2, <3>3, <4>1 DEF Working
    <3> QED
      BY <2>1, <3>2, <3>3, <3>4, <3>5 DEF Stranded
  <2> QED
    BY <1>1, <2>3, <2>4
<1>2. Typed /\ Consistent /\ Consistent' /\ [Next]_vars =>
        [\A r \in RuleId : Stranded(r) => Stranded(r)' \/ rules'[r] = NoRule]_vars
  BY <1>1
<1> QED
  BY <1>2, TypedInvariant, ConsistentInvariant, PTL DEF Spec, StrandedStaysStranded
=============================================================================
