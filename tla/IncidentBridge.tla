--------------------------- MODULE IncidentBridge ---------------------------
(***************************************************************************)
(* From matches to incidents, for one tenant: POST /rules/{id}/run         *)
(* (apps/api/routers/rules.py), the detection pipeline of                  *)
(* services/detection (scheduler, correlate, emit, persist), and the       *)
(* analyst's PATCH /incidents/{id}.                                        *)
(*                                                                         *)
(* Both producers group detections by correlation key, the rule and the    *)
(* first of the sorted entities, and write to the same incident rows.      *)
(* Nothing in the database makes a key unique.  Every database statement   *)
(* and every OpenSearch call is a step; a worker handles one request at a  *)
(* time, a runner is a thread of whoever drives the pipeline.              *)
(***************************************************************************)
EXTENDS Naturals, FiniteSets

CONSTANTS
  Worker,       \* API processes over the same database
  Runner,       \* callers of run_pipeline
  RuleId,
  RuleText,     \* what a stored rule may say, see Rule
  Entity,       \* hosts, addresses, users; numbered in their sort order
  Match,        \* the entity "match" of hits that name no entity
  Nobody,       \* the primary entity "none" of a detection without entities
  NoRule,       \* the rule_id of a rule whose YAML has none
  IncidentId,   \* incident ids; uuid4, never issued twice
  NoIncident,
  MaxSeverity,  \* severities are 0 .. MaxSeverity, "low" is 0
  Edits,        \* may rules be edited and incidents be triaged meanwhile?
  Faults        \* may a call fail, or a process die half-way?

Severity == 0 .. MaxSeverity
Status == {"open", "in_progress", "resolved"}

(* severity: of the row; graded: of its YAML, where the other fields are too. *)
Rule == [severity : Severity, graded : Severity, named : BOOLEAN,
         enabled : BOOLEAN, learning : BOOLEAN, threshold : BOOLEAN]

ASSUME BridgeAssumption ==
  /\ MaxSeverity \in Nat
  /\ Entity \cup {Match, Nobody} \subseteq Nat
  /\ Match \notin Entity
  /\ Nobody \notin Entity \cup {Match}
  /\ NoRule \notin RuleId
  /\ RuleText \subseteq Rule
  /\ Worker \cap Runner = {}
  /\ {Edits, Faults} \subseteq BOOLEAN

Name == Entity \cup {Match}
Key == (RuleId \cup {NoRule}) \X (Name \cup {Nobody})

Detection == [rule : RuleId \cup {NoRule}, severity : Severity,
              entities : SUBSET Name]

(* count is the detection_count field, 0 while the row has none. *)
Incident == [key : Key, severity : Severity, status : Status,
             entities : SUBSET Name, count : Nat,
             origin : {"run", "pipeline"}]

ASSUME IncidentAssumption == NoIncident \notin Incident \cup IncidentId

VARIABLES
  rules,        \* aegis.records of kind "rule"
  incidents,    \* aegis.records of kind "incident", by id
  staler,       \* <<i, j>>: incident i was updated before incident j
  detections,   \* the detection documents in t-{tenant}-detections
  handler       \* what each worker and runner is in the middle of

vars == <<rules, incidents, staler, detections, handler>>

Idle == [step |-> "idle"]

Stored == {i \in IncidentId : incidents[i] # NoIncident}
WithKey(k) == {i \in Stored : incidents[i].key = k}

-----------------------------------------------------------------------------
(* correlate: detections with the same key become one candidate. *)

Least(E) == CHOOSE e \in E : \A f \in E : e <= f

KeyOf(d) == <<d.rule, IF d.entities = {} THEN Nobody ELSE Least(d.entities)>>

Keys(D) == {KeyOf(d) : d \in D}
Members(D, k) == {d \in D : KeyOf(d) = k}

(* The candidate of key k: the highest severity and all the entities.  The   *)
(* row that is created carries no detection_count.                           *)
Candidate(D, k, origin) ==
  [key      |-> k,
   severity |-> CHOOSE s \in {d.severity : d \in Members(D, k)} :
                  \A d \in Members(D, k) : d.severity <= s,
   status   |-> "open",
   entities |-> UNION {d.entities : d \in Members(D, k)},
   count    |-> 0,
   origin   |-> origin]

-----------------------------------------------------------------------------
Handler ==
       {Idle}
  \cup [step : {"list"}, found : SUBSET Detection]
  \cup [step : {"raise"}, found : SUBSET Detection, todo : SUBSET Key,
        known : [Key -> IncidentId \cup {NoIncident}]]
  \cup [step : {"sweep"}, rules : [RuleId -> RuleText],
        todo : SUBSET RuleId, found : SUBSET Detection]
  \cup [step : {"persist", "returned"}, found : SUBSET Detection,
        todo : SUBSET Key]

TypeOK ==
  /\ rules \in [RuleId -> RuleText]
  /\ incidents \in [IncidentId -> Incident \cup {NoIncident}]
  /\ staler \subseteq IncidentId \X IncidentId
  /\ detections \subseteq Detection
  /\ handler \in [Worker \cup Runner -> Handler]

Init ==
  /\ rules \in [RuleId -> RuleText]
  /\ incidents = [i \in IncidentId |-> NoIncident]
  /\ staler = {}
  /\ detections = {}
  /\ handler = [p \in Worker \cup Runner |-> Idle]

Become(p, h) == handler' = [handler EXCEPT ![p] = h]

(* Writing row i makes it the most recently updated one. *)
Touch(i) ==
  staler' = {e \in staler : e[1] # i /\ e[2] # i}
              \cup {<<j, i>> : j \in Stored \ {i}}

InsertIncident(row) ==
  \E i \in IncidentId \ Stored :
    /\ incidents' = [incidents EXCEPT ![i] = row]
    /\ Touch(i)

(* Bound: what will insert incidents only starts while there are enough ids  *)
(* to spare for it and for what is under way.                                *)
Owed(p) ==
  LET h == handler[p] IN
  {<<p, k>> : k \in
     CASE h.step = "list" -> {j \in Keys(h.found) : WithKey(j) = {}}
       [] h.step = "raise" -> {j \in h.todo : h.known[j] = NoIncident}
       [] h.step = "sweep" -> Keys(h.found)
       [] h.step = "persist" -> h.todo
       [] OTHER -> {}}

ToSpare(n) ==
  Cardinality(IncidentId \ Stored) >=
    n + Cardinality(UNION {Owed(p) : p \in Worker \cup Runner})

-----------------------------------------------------------------------------
(* POST /rules/{id}/run reads the rule and evaluates it.  A threshold rule   *)
(* gives one detection per bucket that breaches, any other rule one for all  *)
(* its hits; the severity is the row's.  Neither "enabled" nor               *)
(* "learning_mode" is looked at.                                             *)
RunRuleNow(w, r, E) ==
  /\ handler[w] = Idle
  /\ LET names == IF rules[r].threshold THEN {{e} : e \in E}
                  ELSE {IF E = {} THEN {Match} ELSE E}
         found == {[rule |-> r, severity |-> rules[r].severity,
                    entities |-> n] : n \in names}
     IN /\ found # {}
        /\ ToSpare(Cardinality({k \in Keys(found) : WithKey(k) = {}}))
        /\ Become(w, [step |-> "list", found |-> found])
  /\ UNCHANGED <<rules, incidents, staler, detections>>

(* mutant: the row is kept, not its id *)
Existing_Row(k) ==
  IF WithKey(k) = {} THEN NoIncident
  ELSE incidents[CHOOSE i \in WithKey(k) : TRUE]

(* mutant: any incident of the rule is taken for the key's *)
Existing_OfRule(k) ==
  LET S == {i \in Stored : incidents[i].key[1] = k[1]} IN
  IF S = {} THEN NoIncident
  ELSE CHOOSE i \in S : \A j \in S : <<j, i>> \notin staler

(* mutant: resolved incidents do not count as existing *)
Existing_Unresolved(k) ==
  LET S == {i \in WithKey(k) : incidents[i].status # "resolved"} IN
  IF S = {} THEN NoIncident
  ELSE CHOOSE i \in S : \A j \in S : <<j, i>> \notin staler

(* The incidents are listed once, the most recently updated first, and the   *)
(* last one with a key is the one that is refreshed.                         *)
Existing(k) ==
  IF WithKey(k) = {} THEN NoIncident
  ELSE CHOOSE i \in WithKey(k) : \A j \in WithKey(k) : <<j, i>> \notin staler

ListIncidents(w) ==
  /\ handler[w].step = "list"
  /\ LET D == handler[w].found IN
       Become(w, [step |-> "raise", found |-> D, todo |-> Keys(D),
                  known |-> [k \in Key |-> Existing(k)]])
  /\ UNCHANGED <<rules, incidents, staler, detections>>

(* mutant: a candidate that was raised is not ticked off *)
RaiseIncident_Again(w, k) ==
  /\ handler[w].step = "raise"
  /\ k \in handler[w].todo
  /\ LET h == handler[w]
         i == handler[w].known[k]
     IN IF i # NoIncident
        THEN /\ incidents' = [incidents EXCEPT
                   ![i].count = Cardinality(Members(h.found, k))]
             /\ Touch(i)
             /\ Become(w, [h EXCEPT !.todo = @ \ {k}])
        ELSE /\ InsertIncident(Candidate(h.found, k, "run"))
             /\ UNCHANGED handler
  /\ UNCHANGED <<rules, detections>>

(* mutant: an incident that recurs is opened again *)
RaiseIncident_Reopens(w, k) ==
  /\ handler[w].step = "raise"
  /\ k \in handler[w].todo
  /\ LET h == handler[w]
         i == handler[w].known[k]
     IN IF i # NoIncident
        THEN /\ incidents' = [incidents EXCEPT
                   ![i].count = Cardinality(Members(h.found, k)),
                   ![i].status = "open"]
             /\ Touch(i)
        ELSE InsertIncident(Candidate(h.found, k, "run"))
  /\ Become(w, [handler[w] EXCEPT !.todo = @ \ {k}])
  /\ UNCHANGED <<rules, detections>>

(* Each candidate refreshes the detection_count of the incident known for    *)
(* its key, whatever its status, or becomes an open incident.                *)
RaiseIncident(w, k) ==
  /\ handler[w].step = "raise"
  /\ k \in handler[w].todo
  /\ LET h == handler[w]
         i == handler[w].known[k]
     IN IF i # NoIncident
        THEN /\ incidents' = [incidents EXCEPT
                   ![i].count = Cardinality(Members(h.found, k))]
             /\ Touch(i)
        ELSE InsertIncident(Candidate(h.found, k, "run"))
  /\ Become(w, [handler[w] EXCEPT !.todo = @ \ {k}])
  /\ UNCHANGED <<rules, detections>>

RunAnswered(w) ==
  /\ handler[w].step = "raise"
  /\ handler[w].todo = {}
  /\ Become(w, Idle)
  /\ UNCHANGED <<rules, incidents, staler, detections>>

-----------------------------------------------------------------------------
(* run_pipeline, with the rules its caller loaded.  run_tenant skips the     *)
(* ones that are disabled.                                                   *)
RunPipeline(p) ==
  /\ handler[p] = Idle
  /\ Become(p, [step |-> "sweep", rules |-> rules,
                todo |-> {r \in RuleId : rules[r].enabled}, found |-> {}])
  /\ UNCHANGED <<rules, incidents, staler, detections>>

(* The one detection run_one reports: the YAML's id and severity. *)
Report(r, rule, E) ==
  [rule |-> IF rule.named THEN r ELSE NoRule,
   severity |-> rule.graded, entities |-> E]

(* run_one without a match, or in learning mode. *)
RunSilently(p, r) ==
  /\ handler[p].step = "sweep"
  /\ r \in handler[p].todo
  /\ Become(p, [handler[p] EXCEPT !.todo = @ \ {r}])
  /\ UNCHANGED <<rules, incidents, staler, detections>>

(* mutant: an emit that fails does not stop the run *)
RunAndEmit_Regardless(p, r, E) ==
  /\ handler[p].step = "sweep"
  /\ ToSpare(1)
  /\ r \in handler[p].todo
  /\ ~handler[p].rules[r].learning
  /\ handler[p].rules[r].threshold => E # {}
  /\ LET d == Report(r, handler[p].rules[r], E) IN
       /\ detections' \in {detections, detections \cup {d}}
       /\ Become(p, [handler[p] EXCEPT !.todo = @ \ {r}, !.found = @ \cup {d}])
  /\ UNCHANGED <<rules, incidents, staler>>

(* run_one with matches: one detection for all the entities is indexed.  If  *)
(* that fails, or the search does, the whole run is over (see Abort).        *)
RunAndEmit(p, r, E) ==
  /\ handler[p].step = "sweep"
  /\ ToSpare(1)
  /\ r \in handler[p].todo
  /\ ~handler[p].rules[r].learning
  /\ handler[p].rules[r].threshold => E # {}
  /\ LET d == Report(r, handler[p].rules[r], E) IN
       /\ detections' = detections \cup {d}
       /\ Become(p, [handler[p] EXCEPT !.todo = @ \ {r}, !.found = @ \cup {d}])
  /\ UNCHANGED <<rules, incidents, staler>>

(* All rules have run: what alerted is correlated. *)
Correlate(p) ==
  /\ handler[p].step = "sweep"
  /\ handler[p].todo = {}
  /\ LET D == handler[p].found IN
       Become(p, [step |-> "persist", found |-> D, todo |-> Keys(D)])
  /\ UNCHANGED <<rules, incidents, staler, detections>>

(* persist_incidents inserts the candidates one by one. *)
PersistIncident(p, k) ==
  /\ handler[p].step = "persist"
  /\ k \in handler[p].todo
  /\ InsertIncident(Candidate(handler[p].found, k, "pipeline"))
  /\ Become(p, [handler[p] EXCEPT !.todo = @ \ {k}])
  /\ UNCHANGED <<rules, detections>>

(* A failed insert is swallowed: run_pipeline returns all the candidates     *)
(* with "persisted" 0 ...                                                    *)
PersistFails(p) ==
  /\ Faults
  /\ handler[p].step = "persist"
  /\ handler[p].todo # {}
  /\ Become(p, [step |-> "returned", found |-> handler[p].found,
                todo |-> Keys(handler[p].found)])
  /\ UNCHANGED <<rules, incidents, staler, detections>>

(* ... "for the caller to retry". *)
RetryPersist(p) ==
  /\ handler[p].step = "returned"
  /\ ToSpare(Cardinality(handler[p].todo))
  /\ Become(p, [handler[p] EXCEPT !.step = "persist"])
  /\ UNCHANGED <<rules, incidents, staler, detections>>

PipelineDone(p) ==
  /\ \/ handler[p].step = "persist" /\ handler[p].todo = {}
     \/ handler[p].step = "returned"
  /\ Become(p, Idle)
  /\ UNCHANGED <<rules, incidents, staler, detections>>

-----------------------------------------------------------------------------
(* PATCH /incidents/{id} *)
UpdateIncident(w, i, status, severity) ==
  /\ Edits
  /\ handler[w] = Idle
  /\ i \in Stored
  /\ incidents' = [incidents EXCEPT ![i].status = status,
                                    ![i].severity = severity]
  /\ Touch(i)
  /\ UNCHANGED <<rules, detections, handler>>

(* PUT /rules/{id} *)
UpdateRule(w, r, rule) ==
  /\ Edits
  /\ handler[w] = Idle
  /\ rules' = [rules EXCEPT ![r] = rule]
  /\ UNCHANGED <<incidents, staler, detections, handler>>

(* A call raises or the process dies: what was written stays written. *)
Abort(p) ==
  /\ Faults
  /\ handler[p] # Idle
  /\ Become(p, Idle)
  /\ UNCHANGED <<rules, incidents, staler, detections>>

Next ==
  \/ \E w \in Worker :
       \/ \E r \in RuleId, E \in SUBSET Entity : RunRuleNow(w, r, E)
       \/ ListIncidents(w)
       \/ \E k \in Key : RaiseIncident(w, k)
       \/ RunAnswered(w)
       \/ \E i \in IncidentId, s \in Status, v \in Severity :
            UpdateIncident(w, i, s, v)
       \/ \E r \in RuleId, rule \in RuleText : UpdateRule(w, r, rule)
  \/ \E p \in Runner :
       \/ RunPipeline(p)
       \/ \E r \in RuleId :
            \/ RunSilently(p, r)
            \/ \E E \in SUBSET Entity : RunAndEmit(p, r, E)
       \/ Correlate(p)
       \/ \E k \in Key : PersistIncident(p, k)
       \/ PersistFails(p)
       \/ RetryPersist(p)
       \/ PipelineDone(p)
  \/ \E p \in Worker \cup Runner : Abort(p)

Spec == Init /\ [][Next]_vars

-----------------------------------------------------------------------------
(* Properties. *)

(* "Re-running is idempotent - an existing incident for the same correlation *)
(* key is updated, not duplicated" (run_rule_now): no two incidents have the *)
(* same key.  It rests on one worker listing and creating without another    *)
(* producer in between.                                                      *)
OneIncidentPerKey ==
  \A i, j \in Stored : incidents[i].key = incidents[j].key => i = j

(* The invariant behind it: a run only refreshes incidents of the key it      *)
(* found, and while it goes through its candidates it knows the incident of   *)
(* every key that has one and is still to be handled.                         *)
KnowsExisting ==
  \A w \in Worker :
    handler[w].step = "raise" =>
      /\ \A k \in Key : LET i == handler[w].known[k] IN
           i # NoIncident => i \in WithKey(k)
      /\ \A k \in handler[w].todo :
           WithKey(k) # {} => handler[w].known[k] # NoIncident

(* Both rest on there being one producer. *)
OneProducer == Runner = {} /\ \A v, w \in Worker : v = w

(* The detections of one run are graded alike, and no two have the same key. *)
Uniform(D) ==
  \A d, e \in D : /\ d.severity = e.severity
                  /\ KeyOf(d) = KeyOf(e) => d = e

RunInv ==
  \A w \in Worker :
    /\ handler[w].step \in {"list", "raise"} => Uniform(handler[w].found)
    /\ handler[w].step = "raise" => handler[w].todo \subseteq Keys(handler[w].found)

BridgeInv ==
  /\ \A i \in IncidentId : <<i, i>> \notin staler
  /\ OneIncidentPerKey
  /\ KnowsExisting
  /\ RunInv

(* A run that is answered has lost no match: whatever else happened          *)
(* meanwhile, each (rule, primary entity) it found has an incident.          *)
NoMatchLost ==
  [][\A w \in Worker :
       /\ handler[w].step = "raise" /\ handler[w].todo = {}
       /\ handler'[w] = Idle
       => \A k \in Keys(handler[w].found) : WithKey(k)' # {}]_vars

(* An analyst's verdict stands: no run and no pipeline changes the status,   *)
(* the severity or the entities of an incident that exists.                  *)
TriageKept ==
  [][handler' # handler =>
       \A i \in Stored :
         /\ incidents'[i] # NoIncident
         /\ incidents'[i] = [incidents[i] EXCEPT !.count = incidents'[i].count]]_vars

(* detection_count does not count recurrences: however often a rule matches, *)
(* an incident it raised shows no count or 1, for no two detections of one   *)
(* run have the same key.                                                    *)
CountsOneRun == \A i \in Stored : incidents[i].count <= 1

(* An incident the pipeline stored rests on detections that were indexed: for *)
(* each of its entities one that names it, of the same rule.                  *)
PipelineShowsEvidence ==
  \A i \in Stored :
    incidents[i].origin = "pipeline" =>
      LET D == Members(detections, incidents[i].key) IN
      D # {} /\ incidents[i].entities \subseteq UNION {d.entities : d \in D}
=============================================================================
