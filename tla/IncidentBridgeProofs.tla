------------------------ MODULE IncidentBridgeProofs ------------------------
(***************************************************************************)
(* Proofs about IncidentBridge, for any rules, entities, severities and    *)
(* incident ids, crashes included: first what holds for any number of API  *)
(* processes and callers of the pipeline, then what one producer adds.     *)
(***************************************************************************)
EXTENDS IncidentBridge, FiniteSetTheorems, WellFoundedInduction, TLAPS

USE DEF Severity, Status, Name

(* A set of numbered entities has a first one. *)
LEMMA LeastIsFirst ==
  ASSUME NEW E \in SUBSET Nat, E # {}
  PROVE  Least(E) \in E /\ \A f \in E : Least(E) <= f
<1>1. IsWellFoundedOn(OpToRel(<, Nat), Nat)
  BY NatLessThanWellFounded
<1>2. PICK x \in E : \A y \in E : ~(<<y, x>> \in OpToRel(<, Nat))
  BY <1>1, WFMin
<1>3. \A y \in E : ~(y < x)
  BY <1>2, Zenon DEF OpToRel
<1>4. \A y \in E : x <= y
  BY <1>3
<1> QED
  BY <1>4 DEF Least

(* A set with one entity has that one as its first. *)
LEMMA LeastOfOne ==
  ASSUME NEW e \in Nat
  PROVE  Least({e}) = e
BY DEF Least

(* The key of a detection is a correlation key. *)
LEMMA KeyIsKey ==
  ASSUME NEW d \in Detection
  PROVE  KeyOf(d) \in Key
<1>1. d.rule \in RuleId \cup {NoRule} /\ d.entities \in SUBSET Name
  BY DEF Detection
<1>2. CASE d.entities = {}
  BY <1>1, <1>2 DEF KeyOf, Key
<1>3. CASE d.entities # {}
  <2>1. Least(d.entities) \in d.entities
    BY <1>1, <1>3, LeastIsFirst, BridgeAssumption
  <2> QED
    BY <1>1, <1>3, <2>1 DEF KeyOf, Key
<1> QED
  BY <1>2, <1>3

(* A set of bounded numbers has a greatest one, here by the least distance    *)
(* from the bound.                                                            *)
LEMMA GreatestExists ==
  ASSUME NEW N \in Nat, NEW S \in SUBSET (0 .. N), S # {}
  PROVE  \E s \in S : \A t \in S : t <= s
<1> DEFINE T == {N - s : s \in S}
<1>1. T \in SUBSET Nat /\ T # {}
  OBVIOUS
<1>2. PICK m \in T : \A t \in T : m <= t
  BY <1>1, LeastIsFirst
<1>3. PICK s \in S : m = N - s
  BY <1>2
<1>4. \A t \in S : N - s <= N - t
  BY <1>2, <1>3
<1> QED
  BY <1>4

(* The members of a key of D exist, and have that key. *)
LEMMA KeyHasMembers ==
  ASSUME NEW D, NEW k \in Keys(D)
  PROVE  Members(D, k) # {} /\ Members(D, k) \subseteq D
BY DEF Keys, Members

(* Each key of one run stands for one detection. *)
LEMMA OneMember ==
  ASSUME NEW D, Uniform(D), NEW k \in Keys(D)
  PROVE  \E d \in D : Members(D, k) = {d}
<1>1. PICK d \in D : KeyOf(d) = k
  BY DEF Keys
<1>2. Members(D, k) = {d}
  BY <1>1 DEF Members, Uniform
<1> QED
  BY <1>2

(* The candidate of a key is an incident with that key, no count, and the     *)
(* entities of the key's detections, whatever their grades.                   *)
LEMMA CandidateIsIncident ==
  ASSUME NEW D \in SUBSET Detection, NEW k \in Keys(D),
         NEW origin \in {"run", "pipeline"}
  PROVE  /\ Candidate(D, k, origin) \in Incident
         /\ Candidate(D, k, origin).key = k
         /\ Candidate(D, k, origin).count = 0
         /\ Candidate(D, k, origin).origin = origin
         /\ Candidate(D, k, origin).entities =
              UNION {d.entities : d \in Members(D, k)}
<1>1. Members(D, k) # {} /\ Members(D, k) \subseteq Detection
  BY KeyHasMembers
<1>2. k \in Key
  BY KeyIsKey DEF Keys
<1>3. PICK S : S = {d.severity : d \in Members(D, k)}
  OBVIOUS
<1>4. S \in SUBSET (0 .. MaxSeverity) /\ S # {}
  BY <1>1, <1>3 DEF Detection
<1>5. \E s \in S : \A t \in S : t <= s
  BY <1>4, GreatestExists, BridgeAssumption
<1>6. \E s \in S : \A d \in Members(D, k) : d.severity <= s
  BY <1>3, <1>5
<1>7. PICK top : top = CHOOSE s \in S : \A d \in Members(D, k) : d.severity <= s
  OBVIOUS
<1>8. top \in 0 .. MaxSeverity
  BY <1>4, <1>6, <1>7
<1>9. PICK all : all = UNION {d.entities : d \in Members(D, k)}
  OBVIOUS
<1>10. all \in SUBSET Name
  BY <1>1, <1>9 DEF Detection
<1>11. Candidate(D, k, origin) =
         [key |-> k, severity |-> top, status |-> "open", entities |-> all,
          count |-> 0, origin |-> origin]
  BY <1>3, <1>7, <1>9 DEF Candidate
<1> QED
  BY <1>2, <1>8, <1>9, <1>10, <1>11 DEF Incident

(* The count written for a key of one run is 1. *)
LEMMA CountIsOne ==
  ASSUME NEW D, Uniform(D), NEW k \in Keys(D)
  PROVE  Cardinality(Members(D, k)) = 1
<1>1. PICK d \in D : Members(D, k) = {d}
  BY OneMember
<1> QED
  BY <1>1, FS_Singleton

(* What a run finds is a set of detections of one grade and distinct keys. *)
LEMMA FoundIsUniform ==
  ASSUME TypeOK, NEW r \in RuleId, NEW E \in SUBSET Entity, NEW D,
         D = {[rule |-> r, severity |-> rules[r].severity, entities |-> n] :
                n \in IF rules[r].threshold THEN {{e} : e \in E}
                      ELSE {IF E = {} THEN {Match} ELSE E}}
  PROVE  D \subseteq Detection /\ Uniform(D)
<1>1. rules[r].severity \in Severity
  BY BridgeAssumption DEF TypeOK, Rule
<1>2. D \subseteq Detection
  BY <1>1 DEF Detection
<1>3. CASE rules[r].threshold
  <2>1. \A e \in E : Least({e}) = e
    BY LeastOfOne, BridgeAssumption
  <2>2. \A d \in D : \E e \in E :
          /\ d = [rule |-> r, severity |-> rules[r].severity, entities |-> {e}]
          /\ KeyOf(d) = <<r, e>>
    BY <1>3, <2>1 DEF KeyOf
  <2> SUFFICES ASSUME NEW c \in D, NEW d \in D
               PROVE  c.severity = d.severity /\ (KeyOf(c) = KeyOf(d) => c = d)
    BY <1>2 DEF Uniform
  <2>3. PICK e \in E :
          /\ c = [rule |-> r, severity |-> rules[r].severity, entities |-> {e}]
          /\ KeyOf(c) = <<r, e>>
    BY <2>2
  <2>4. PICK f \in E :
          /\ d = [rule |-> r, severity |-> rules[r].severity, entities |-> {f}]
          /\ KeyOf(d) = <<r, f>>
    BY <2>2
  <2>5. <<r, e>> = <<r, f>> => e = f
    OBVIOUS
  <2> QED
    BY <2>3, <2>4, <2>5
<1>4. CASE ~rules[r].threshold
  BY <1>2, <1>4 DEF Uniform
<1> QED
  BY <1>2, <1>3, <1>4

-----------------------------------------------------------------------------
(* What holds for any number of workers and runners.                          *)

(* Of any incidents, one was updated before none of the others last. *)
Ordered ==
  \A S \in SUBSET IncidentId :
    S # {} => \E i \in S : \A j \in S : <<j, i>> \notin staler

(* What a worker or runner is in the middle of rests on: what it found was    *)
(* indexed, if it is the pipeline, and has distinct keys, if it is a run; a   *)
(* run refreshes incidents of the keys it knows them for, and the keys it has *)
(* handled have one.                                                          *)
Held(p) ==
  /\ handler[p].step \in {"list", "raise"} => Uniform(handler[p].found)
  /\ handler[p].step \in {"raise", "persist", "returned"} =>
       handler[p].todo \subseteq Keys(handler[p].found)
  /\ handler[p].step \in {"sweep", "persist", "returned"} =>
       handler[p].found \subseteq detections
  /\ handler[p].step = "raise" =>
       /\ \A k \in Key : LET i == handler[p].known[k] IN
            i # NoIncident => i \in WithKey(k)
       /\ \A k \in Keys(handler[p].found) \ handler[p].todo : WithKey(k) # {}

(* The detections behind an incident of the pipeline. *)
Shown(row) ==
  row.origin = "pipeline" =>
    /\ Members(detections, row.key) # {}
    /\ row.entities \subseteq
         UNION {d.entities : d \in Members(detections, row.key)}

Sound ==
  /\ TypeOK
  /\ Ordered
  /\ \A p \in Worker \cup Runner : Held(p)
  /\ \A i \in Stored : incidents[i].count <= 1 /\ Shown(incidents[i])

(* Updating a row makes it the newest, and the others keep their order. *)
LEMMA TouchKept ==
  ASSUME TypeOK, Ordered, NEW i \in IncidentId, Touch(i)
  PROVE  staler' \subseteq IncidentId \X IncidentId /\ Ordered'
<1>1. staler' \subseteq IncidentId \X IncidentId
  BY DEF Touch, TypeOK, Stored
<1>2. ASSUME NEW S \in SUBSET IncidentId, S # {}
      PROVE  \E m \in S : \A j \in S : <<j, m>> \notin staler'
  <2>1. CASE S \ {i} = {}
    <3>1. S = {i}
      BY <1>2, <2>1
    <3>2. <<i, i>> \notin staler'
      BY DEF Touch
    <3> QED
      BY <3>1, <3>2
  <2>2. CASE S \ {i} # {}
    <3>1. PICK m \in S \ {i} : \A j \in S \ {i} : <<j, m>> \notin staler
      BY <2>2 DEF Ordered
    <3>2. \A j \in S : <<j, m>> \notin staler'
      BY <3>1 DEF Touch
    <3> QED
      BY <3>1, <3>2
  <2> QED
    BY <2>1, <2>2
<1> QED
  BY <1>1, <1>2 DEF Ordered

(* Rewriting a stored incident, its key kept. *)
LEMMA RewriteKept ==
  ASSUME TypeOK, NEW i \in Stored, NEW row \in Incident,
         row.key = incidents[i].key,
         incidents' = [incidents EXCEPT ![i] = row]
  PROVE  /\ incidents' \in [IncidentId -> Incident \cup {NoIncident}]
         /\ incidents'[i] = row
         /\ \A j \in IncidentId \ {i} : incidents'[j] = incidents[j]
         /\ Stored' = Stored
         /\ \A k : WithKey(k)' = WithKey(k)
<1>1. i \in IncidentId /\ incidents[i] # NoIncident
  BY DEF Stored
<1>2. /\ incidents' \in [IncidentId -> Incident \cup {NoIncident}]
      /\ incidents'[i] = row
      /\ \A j \in IncidentId \ {i} : incidents'[j] = incidents[j]
  BY <1>1 DEF TypeOK
<1>3. Stored' = Stored
  BY <1>1, <1>2, IncidentAssumption DEF Stored
<1>4. \A j \in Stored : incidents'[j].key = incidents[j].key
  BY <1>1, <1>2 DEF Stored
<1>5. \A k : WithKey(k)' = WithKey(k)
  BY <1>3, <1>4 DEF WithKey
<1> QED
  BY <1>2, <1>3, <1>5

(* Inserting an incident under a new id. *)
LEMMA InsertKept ==
  ASSUME TypeOK, NEW i \in IncidentId \ Stored, NEW row \in Incident,
         incidents' = [incidents EXCEPT ![i] = row]
  PROVE  /\ incidents' \in [IncidentId -> Incident \cup {NoIncident}]
         /\ incidents'[i] = row
         /\ \A j \in IncidentId \ {i} : incidents'[j] = incidents[j]
         /\ Stored' = Stored \cup {i}
         /\ \A k : WithKey(k)' = IF k = row.key THEN WithKey(k) \cup {i}
                                  ELSE WithKey(k)
<1>1. /\ incidents' \in [IncidentId -> Incident \cup {NoIncident}]
      /\ incidents'[i] = row
      /\ \A j \in IncidentId \ {i} : incidents'[j] = incidents[j]
  BY DEF TypeOK
<1>2. Stored' = Stored \cup {i}
  BY <1>1, IncidentAssumption DEF Stored
<1>3. \A j \in Stored : incidents'[j] = incidents[j]
  BY <1>1 DEF Stored
<1>4. \A k : WithKey(k)' = {j \in Stored \cup {i} : incidents'[j].key = k}
  BY <1>2 DEF WithKey
<1>5. \A k : WithKey(k)' = IF k = row.key THEN WithKey(k) \cup {i}
                           ELSE WithKey(k)
  <2> SUFFICES ASSUME NEW k
               PROVE  {j \in Stored \cup {i} : incidents'[j].key = k} =
                      IF k = row.key THEN WithKey(k) \cup {i} ELSE WithKey(k)
    BY <1>4
  <2>1. CASE k = row.key
    BY <1>1, <1>3, <2>1 DEF WithKey
  <2>2. CASE k # row.key
    BY <1>1, <1>3, <2>2 DEF WithKey
  <2> QED
    BY <2>1, <2>2
<1> QED
  BY <1>1, <1>2, <1>5

(* Who is not moved keeps what it holds, while incidents and detections only  *)
(* become more.                                                               *)
LEMMA HeldKept ==
  ASSUME NEW p, Held(p), handler'[p] = handler[p], TypeOK,
         p \in Worker \cup Runner,
         detections \subseteq detections',
         \A k : WithKey(k) \subseteq WithKey(k)'
  PROVE  Held(p)'
<1>1. handler[p].step = "raise" =>
        \A k \in Key : handler[p].known[k] # NoIncident =>
                         handler[p].known[k] \in WithKey(k)'
  BY DEF Held
<1>2. handler[p].step = "raise" =>
        \A k \in Keys(handler[p].found) \ handler[p].todo : WithKey(k)' # {}
  BY DEF Held
<1> QED
  BY <1>1, <1>2 DEF Held

LEMMA ShownKept ==
  ASSUME NEW row, Shown(row), detections \subseteq detections'
  PROVE  Shown(row)'
<1>1. Members(detections, row.key) \subseteq Members(detections, row.key)'
  BY DEF Members
<1> QED
  BY <1>1 DEF Shown

(* Steps that write no incident: it is enough to look at who moves. *)
LEMMA MoveKept ==
  ASSUME Sound, NEW p \in Worker \cup Runner, NEW h \in Handler, Become(p, h),
         UNCHANGED <<rules, incidents, staler>>,
         detections \subseteq detections', detections' \subseteq Detection,
         Held(p)'
  PROVE  Sound'
<1>1. TypeOK'
  BY DEF Sound, TypeOK, Become
<1>2. \A k : WithKey(k)' = WithKey(k)
  BY DEF WithKey, Stored
<1>3. \A q \in Worker \cup Runner : Held(q)'
  <2> SUFFICES ASSUME NEW q \in Worker \cup Runner, q # p PROVE Held(q)'
    OBVIOUS
  <2>1. handler'[q] = handler[q]
    BY DEF Sound, TypeOK, Become
  <2> QED
    BY <1>2, <2>1, HeldKept DEF Sound
<1>4. (\A i \in Stored : incidents[i].count <= 1 /\ Shown(incidents[i]))'
  <2> SUFFICES ASSUME NEW i \in Stored
               PROVE  incidents[i].count <= 1 /\ Shown(incidents[i])'
    BY DEF Stored
  <2>1. PICK row : row = incidents[i]
    OBVIOUS
  <2>2. Shown(row)'
    BY <2>1, ShownKept DEF Sound
  <2> QED
    BY <2>1, <2>2 DEF Sound, Shown
<1>5. Ordered'
  BY DEF Sound, Ordered
<1> QED
  BY <1>1, <1>3, <1>4, <1>5 DEF Sound

(* Steps that rewrite or insert one incident. *)
LEMMA WriteKept ==
  ASSUME Sound, NEW i \in IncidentId, Touch(i),
         UNCHANGED <<rules, detections>>,
         NEW row \in Incident, row.count <= 1, Shown(row),
         incidents' \in [IncidentId -> Incident \cup {NoIncident}],
         incidents'[i] = row,
         \A j \in IncidentId \ {i} : incidents'[j] = incidents[j],
         \A k : WithKey(k) \subseteq WithKey(k)',
         handler' \in [Worker \cup Runner -> Handler],
         \A p \in Worker \cup Runner : handler'[p] # handler[p] => Held(p)'
  PROVE  Sound'
<1>1. staler' \subseteq IncidentId \X IncidentId /\ Ordered'
  BY TouchKept DEF Sound
<1>2. TypeOK'
  BY <1>1 DEF Sound, TypeOK
<1>3. \A p \in Worker \cup Runner : Held(p)'
  BY HeldKept DEF Sound
<1>4. (\A j \in Stored : incidents[j].count <= 1 /\ Shown(incidents[j]))'
  <2> SUFFICES ASSUME NEW j \in Stored'
               PROVE  incidents'[j].count <= 1 /\ Shown(incidents[j])'
    OBVIOUS
  <2>1. PICK r : r = incidents'[j]
    OBVIOUS
  <2>2. r.count <= 1 /\ Shown(r)
    <3>1. CASE j = i
      BY <2>1, <3>1
    <3>2. CASE j # i
      BY <2>1, <3>2 DEF Sound, Stored
    <3> QED
      BY <3>1, <3>2
  <2> QED
    BY <2>1, <2>2 DEF Shown
<1> QED
  BY <1>1, <1>2, <1>3, <1>4 DEF Sound

(* What a handler in a run, or of the pipeline, holds. *)
LEMMA HandlerHolds ==
  ASSUME TypeOK, NEW p \in Worker \cup Runner
  PROVE  /\ handler[p].step \in {"list", "raise", "sweep", "persist", "returned"}
              => handler[p].found \in SUBSET Detection
         /\ handler[p].step = "raise" =>
              handler[p] \in [step : {"raise"}, found : SUBSET Detection,
                              todo : SUBSET Key,
                              known : [Key -> IncidentId \cup {NoIncident}]]
         /\ handler[p].step = "sweep" =>
              handler[p] \in [step : {"sweep"}, rules : [RuleId -> RuleText],
                              todo : SUBSET RuleId, found : SUBSET Detection]
         /\ handler[p].step \in {"persist", "returned"} =>
              handler[p] \in [step : {"persist", "returned"},
                              found : SUBSET Detection, todo : SUBSET Key]
<1>1. handler[p] \in Handler
  BY DEF TypeOK
<1> QED
  BY <1>1 DEF Handler, Idle

LEMMA KeysAreKeys ==
  ASSUME NEW D \in SUBSET Detection
  PROVE  Keys(D) \in SUBSET Key
BY KeyIsKey DEF Keys

LEMMA Initially == Init => Sound
<1> SUFFICES ASSUME Init PROVE Sound
  OBVIOUS
<1>1. \A p \in Worker \cup Runner : Held(p)
  BY DEF Init, Held, Idle
<1>2. TypeOK
  BY DEF Init, TypeOK, Handler
<1> QED
  BY <1>1, <1>2 DEF Init, Sound, Ordered, Stored

(* Whoever stops has nothing left to hold. *)
LEMMA RestKept ==
  ASSUME Sound, NEW p \in Worker \cup Runner, Become(p, Idle),
         UNCHANGED <<rules, incidents, staler, detections>>
  PROVE  Sound'
<1>1. handler'[p] = Idle
  BY DEF Sound, TypeOK, Become
<1>2. Held(p)'
  BY <1>1 DEF Held, Idle
<1>3. Idle \in Handler
  BY DEF Handler
<1>4. detections' \subseteq Detection
  BY DEF Sound, TypeOK
<1> QED
  BY <1>2, <1>3, <1>4, MoveKept

LEMMA RunRuleNowKept ==
  ASSUME Sound, NEW w \in Worker, NEW r \in RuleId, NEW E \in SUBSET Entity,
         RunRuleNow(w, r, E)
  PROVE  Sound'
<1>1. PICK D : D = {[rule |-> r, severity |-> rules[r].severity, entities |-> n] :
                      n \in IF rules[r].threshold THEN {{e} : e \in E}
                            ELSE {IF E = {} THEN {Match} ELSE E}}
  OBVIOUS
<1>2. PICK h : h = [step |-> "list", found |-> D]
  OBVIOUS
<1>3. Become(w, h) /\ UNCHANGED <<rules, incidents, staler, detections>>
  BY <1>1, <1>2 DEF RunRuleNow
<1>4. D \in SUBSET Detection /\ Uniform(D)
  BY <1>1, FoundIsUniform DEF Sound
<1>5. h \in Handler
  BY <1>2, <1>4 DEF Handler
<1>6. handler'[w] = h
  BY <1>3 DEF Sound, TypeOK, Become
<1>7. Held(w)'
  BY <1>2, <1>4, <1>6 DEF Held
<1>8. detections' \subseteq Detection
  BY <1>3 DEF Sound, TypeOK
<1> QED
  BY <1>3, <1>5, <1>7, <1>8, MoveKept

(* The incident that is found for a key has it, and is found if there is one. *)
LEMMA ExistingHasKey ==
  ASSUME Ordered, NEW k
  PROVE  IF WithKey(k) = {} THEN Existing(k) = NoIncident
         ELSE Existing(k) \in WithKey(k)
<1>1. CASE WithKey(k) # {}
  <2>1. WithKey(k) \in SUBSET IncidentId
    BY DEF WithKey, Stored
  <2>2. \E i \in WithKey(k) : \A j \in WithKey(k) : <<j, i>> \notin staler
    BY <1>1, <2>1 DEF Ordered
  <2> QED
    BY <1>1, <2>2 DEF Existing
<1>2. CASE WithKey(k) = {}
  BY <1>2 DEF Existing
<1> QED
  BY <1>1, <1>2

LEMMA ListIncidentsKept ==
  ASSUME Sound, NEW w \in Worker, ListIncidents(w)
  PROVE  Sound'
<1>1. PICK D : D = handler[w].found
  OBVIOUS
<1>2. PICK K : K = [k \in Key |-> Existing(k)]
  OBVIOUS
<1>3. PICK h : h = [step |-> "raise", found |-> D, todo |-> Keys(D), known |-> K]
  OBVIOUS
<1>4. Become(w, h) /\ UNCHANGED <<rules, incidents, staler, detections>>
  BY <1>1, <1>2, <1>3 DEF ListIncidents
<1>5. D \in SUBSET Detection /\ Uniform(D)
  BY <1>1, HandlerHolds DEF ListIncidents, Sound, Held
<1>6. Keys(D) \in SUBSET Key
  BY <1>5, KeysAreKeys
<1>7. \A k \in Key : IF WithKey(k) = {} THEN K[k] = NoIncident
                     ELSE K[k] \in WithKey(k)
  BY <1>2, ExistingHasKey DEF Sound
<1>8. K \in [Key -> IncidentId \cup {NoIncident}]
  BY <1>2, <1>7 DEF WithKey, Stored
<1>9. h \in Handler
  BY <1>3, <1>5, <1>6, <1>8 DEF Handler
<1>10. handler'[w] = h
  BY <1>4 DEF Sound, TypeOK, Become
<1>11. \A k : WithKey(k)' = WithKey(k)
  BY <1>4 DEF WithKey, Stored
<1>12. Held(w)'
  BY <1>3, <1>5, <1>7, <1>10, <1>11 DEF Held
<1>13. detections' \subseteq Detection
  BY <1>4 DEF Sound, TypeOK
<1> QED
  BY <1>4, <1>9, <1>12, <1>13, MoveKept

(* Who ticks off candidate k goes on with the others. *)
LEMMA Ticked ==
  ASSUME Sound, NEW p \in Worker \cup Runner, NEW k,
         handler[p].step \in {"raise", "sweep", "persist"},
         Become(p, [handler[p] EXCEPT !.todo = @ \ {k}])
  PROVE  /\ handler' \in [Worker \cup Runner -> Handler]
         /\ handler'[p] \in Handler
         /\ handler' = [handler EXCEPT ![p] = handler'[p]]
         /\ handler'[p].step = handler[p].step
         /\ handler'[p].todo = handler[p].todo \ {k}
         /\ handler'[p].found = handler[p].found
         /\ handler[p].step = "raise" => handler'[p].known = handler[p].known
         /\ \A q \in Worker \cup Runner : q # p => handler'[q] = handler[q]
<1>1. PICK h : h = [handler[p] EXCEPT !.todo = @ \ {k}]
  OBVIOUS
<1>2. /\ h.step = handler[p].step /\ h.todo = handler[p].todo \ {k}
      /\ h.found = handler[p].found
      /\ handler[p].step = "raise" => h.known = handler[p].known
      /\ h \in Handler
  <2>1. TypeOK
    BY DEF Sound
  <2>2. CASE handler[p].step = "raise"
    BY <1>1, <2>1, <2>2, HandlerHolds DEF Handler
  <2>3. CASE handler[p].step = "sweep"
    BY <1>1, <2>1, <2>3, HandlerHolds DEF Handler
  <2>4. CASE handler[p].step = "persist"
    BY <1>1, <2>1, <2>4, HandlerHolds DEF Handler
  <2> QED
    BY <2>2, <2>3, <2>4
<1>3. handler' = [handler EXCEPT ![p] = h]
  BY <1>1 DEF Become
<1> QED
  BY <1>2, <1>3 DEF Sound, TypeOK

(* What a run does with a candidate: refresh the incident known, ... *)
LEMMA RefreshStep ==
  ASSUME Sound, NEW w \in Worker, NEW k \in Key, RaiseIncident(w, k),
         NEW i, i = handler[w].known[k], i # NoIncident
  PROVE  /\ i \in WithKey(k) /\ i \in Stored /\ i \in IncidentId /\ Touch(i)
         /\ \E row \in Incident :
              /\ row = [incidents[i] EXCEPT !.count = 1]
              /\ row.count = 1 /\ row.key = incidents[i].key
              /\ row.origin = incidents[i].origin
              /\ row.entities = incidents[i].entities
              /\ incidents' = [incidents EXCEPT ![i] = row]
<1>1. handler[w].step = "raise" /\ k \in handler[w].todo
  BY DEF RaiseIncident
<1>2. i \in WithKey(k) /\ Held(w)
  BY <1>1 DEF Sound, Held
<1>3. i \in Stored /\ i \in IncidentId /\ incidents[i] \in Incident
  BY <1>2 DEF WithKey, Stored, Sound, TypeOK
<1>4. Cardinality(Members(handler[w].found, k)) = 1
  BY <1>1, <1>2, CountIsOne DEF Held
<1>5. Touch(i) /\ incidents' = [incidents EXCEPT ![i].count = 1]
  BY <1>4 DEF RaiseIncident
<1>6. PICK row : row = [incidents[i] EXCEPT !.count = 1]
  OBVIOUS
<1>7. /\ row \in Incident /\ row.count = 1 /\ row.key = incidents[i].key
      /\ row.origin = incidents[i].origin
      /\ row.entities = incidents[i].entities
  BY <1>3, <1>6 DEF Incident
<1>8. incidents' = [incidents EXCEPT ![i] = row]
  BY <1>3, <1>5, <1>6 DEF Sound, TypeOK
<1> QED
  BY <1>2, <1>3, <1>5, <1>6, <1>7, <1>8

(* ... or insert a new one. *)
LEMMA RaiseStep ==
  ASSUME Sound, NEW w \in Worker, NEW k \in Key, RaiseIncident(w, k),
         handler[w].known[k] = NoIncident
  PROVE  \E i \in IncidentId \ Stored, row \in Incident :
           /\ Touch(i)
           /\ row.count = 0 /\ row.key = k /\ row.origin = "run"
           /\ incidents' = [incidents EXCEPT ![i] = row]
<1>1. PICK row : row = Candidate(handler[w].found, k, "run")
  OBVIOUS
<1>2. PICK i \in IncidentId \ Stored :
        Touch(i) /\ incidents' = [incidents EXCEPT ![i] = row]
  BY <1>1 DEF RaiseIncident, InsertIncident
<1>3. /\ handler[w].found \in SUBSET Detection
      /\ k \in Keys(handler[w].found)
  BY HandlerHolds DEF RaiseIncident, Sound, Held
<1>4. row \in Incident /\ row.count = 0 /\ row.key = k /\ row.origin = "run"
  BY <1>1, <1>3, CandidateIsIncident
<1> QED
  BY <1>2, <1>4

LEMMA RaiseIncidentKept ==
  ASSUME Sound, NEW w \in Worker, NEW k \in Key, RaiseIncident(w, k)
  PROVE  Sound'
<1>1. /\ handler[w].step = "raise" /\ k \in handler[w].todo
      /\ Become(w, [handler[w] EXCEPT !.todo = @ \ {k}])
      /\ UNCHANGED <<rules, detections>>
  BY DEF RaiseIncident
<1>2. TypeOK /\ Held(w)
  BY DEF Sound
<1>3. ASSUME \A l : WithKey(l) \subseteq WithKey(l)', WithKey(k)' # {}
      PROVE  Held(w)'
  <2>1. /\ handler'[w].step = "raise" /\ handler'[w].todo = handler[w].todo \ {k}
        /\ handler'[w].found = handler[w].found
        /\ handler'[w].known = handler[w].known
    BY <1>1, Ticked
  <2>2. \A l \in Key : handler[w].known[l] # NoIncident =>
                        handler[w].known[l] \in WithKey(l)'
    BY <1>1, <1>2, <1>3 DEF Held
  <2>3. \A l \in Keys(handler[w].found) \ (handler[w].todo \ {k}) :
          WithKey(l)' # {}
    BY <1>1, <1>2, <1>3 DEF Held
  <2> QED
    BY <1>1, <1>2, <2>1, <2>2, <2>3 DEF Held
<1>4. /\ handler' \in [Worker \cup Runner -> Handler]
      /\ \A p \in Worker \cup Runner : p # w => handler'[p] = handler[p]
  BY <1>1, Ticked
<1>5. CASE handler[w].known[k] # NoIncident
  <2>1. PICK i : i = handler[w].known[k]
    OBVIOUS
  <2>2. i \in WithKey(k) /\ i \in Stored /\ i \in IncidentId /\ Touch(i)
    BY <1>5, <2>1, RefreshStep
  <2>3. PICK row \in Incident :
          /\ row.count = 1 /\ row.key = incidents[i].key
          /\ row.origin = incidents[i].origin
          /\ row.entities = incidents[i].entities
          /\ incidents' = [incidents EXCEPT ![i] = row]
    BY <1>5, <2>1, RefreshStep
  <2>4. /\ incidents' \in [IncidentId -> Incident \cup {NoIncident}]
        /\ incidents'[i] = row
        /\ \A j \in IncidentId \ {i} : incidents'[j] = incidents[j]
        /\ \A l : WithKey(l)' = WithKey(l)
    BY <1>2, <2>2, <2>3, RewriteKept
  <2>5. Shown(row)
    BY <2>2, <2>3 DEF Sound, Shown
  <2>6. Held(w)'
    BY <1>3, <2>2, <2>4
  <2>7. \A p \in Worker \cup Runner : handler'[p] # handler[p] => Held(p)'
    BY <1>4, <2>6
  <2>8. row.count <= 1 /\ \A l : WithKey(l) \subseteq WithKey(l)'
    BY <2>3, <2>4
  <2> QED
    BY <1>1, <1>4, <2>2, <2>4, <2>5, <2>7, <2>8, WriteKept
<1>6. CASE handler[w].known[k] = NoIncident
  <2>1. PICK i \in IncidentId \ Stored, row \in Incident :
          /\ Touch(i)
          /\ row.count = 0 /\ row.key = k /\ row.origin = "run"
          /\ incidents' = [incidents EXCEPT ![i] = row]
    BY <1>6, RaiseStep
  <2>2. /\ incidents' \in [IncidentId -> Incident \cup {NoIncident}]
        /\ incidents'[i] = row
        /\ \A j \in IncidentId \ {i} : incidents'[j] = incidents[j]
        /\ \A l : WithKey(l)' = IF l = row.key THEN WithKey(l) \cup {i}
                                 ELSE WithKey(l)
    BY <1>2, <2>1, InsertKept
  <2>3. Shown(row)
    BY <2>1 DEF Shown
  <2>4. \A l : WithKey(l) \subseteq WithKey(l)'
    BY <2>2
  <2>5. Held(w)'
    BY <1>3, <2>1, <2>2, <2>4
  <2>6. \A p \in Worker \cup Runner : handler'[p] # handler[p] => Held(p)'
    BY <1>4, <2>5
  <2>7. row.count <= 1 /\ i \in IncidentId /\ Touch(i)
    BY <2>1
  <2> QED
    BY <1>1, <1>4, <2>2, <2>3, <2>4, <2>6, <2>7, WriteKept
<1> QED
  BY <1>5, <1>6

LEMMA RunPipelineKept ==
  ASSUME Sound, NEW p \in Runner, RunPipeline(p)
  PROVE  Sound'
<1>1. PICK h : h = [step |-> "sweep", rules |-> rules,
                    todo |-> {r \in RuleId : rules[r].enabled}, found |-> {}]
  OBVIOUS
<1>2. Become(p, h) /\ UNCHANGED <<rules, incidents, staler, detections>>
  BY <1>1 DEF RunPipeline
<1>3. h \in Handler
  BY <1>1 DEF Sound, TypeOK, Handler
<1>4. handler'[p] = h
  BY <1>2 DEF Sound, TypeOK, Become
<1>5. Held(p)'
  BY <1>1, <1>4 DEF Held
<1>6. detections' \subseteq Detection
  BY <1>2 DEF Sound, TypeOK
<1> QED
  BY <1>2, <1>3, <1>5, <1>6, MoveKept

LEMMA RunSilentlyKept ==
  ASSUME Sound, NEW p \in Runner, NEW r \in RuleId, RunSilently(p, r)
  PROVE  Sound'
<1>1. /\ handler[p].step = "sweep"
      /\ Become(p, [handler[p] EXCEPT !.todo = @ \ {r}])
      /\ UNCHANGED <<rules, incidents, staler, detections>>
  BY DEF RunSilently
<1>2. Held(p) /\ detections \subseteq Detection
  BY DEF Sound, TypeOK
<1>3. /\ handler'[p] \in Handler /\ handler'[p].step = "sweep"
      /\ handler'[p].found = handler[p].found
      /\ handler' = [handler EXCEPT ![p] = handler'[p]]
  BY <1>1, Ticked
<1>4. Held(p)'
  BY <1>1, <1>2, <1>3 DEF Held
<1>5. PICK h \in Handler : Become(p, h)
  BY <1>3 DEF Become
<1> QED
  BY <1>1, <1>2, <1>4, <1>5, MoveKept

LEMMA RunAndEmitKept ==
  ASSUME Sound, NEW p \in Runner, NEW r \in RuleId, NEW E \in SUBSET Entity,
         RunAndEmit(p, r, E)
  PROVE  Sound'
<1>1. PICK d : d = Report(r, handler[p].rules[r], E)
  OBVIOUS
<1>2. PICK h : h = [handler[p] EXCEPT !.todo = @ \ {r}, !.found = @ \cup {d}]
  OBVIOUS
<1>3. /\ handler[p].step = "sweep"
      /\ Become(p, h) /\ detections' = detections \cup {d}
      /\ UNCHANGED <<rules, incidents, staler>>
  BY <1>1, <1>2 DEF RunAndEmit
<1>4. TypeOK /\ Held(p)
  BY DEF Sound
<1>5. handler[p] \in [step : {"sweep"}, rules : [RuleId -> RuleText],
                      todo : SUBSET RuleId, found : SUBSET Detection]
  BY <1>3, <1>4, HandlerHolds
<1>6. d \in Detection
  <2>1. handler[p].rules[r] \in Rule
    BY <1>5, BridgeAssumption
  <2> QED
    BY <1>1, <2>1 DEF Report, Rule, Detection
<1>7. /\ h \in Handler /\ h.step = "sweep"
      /\ h.found = handler[p].found \cup {d}
  BY <1>2, <1>5, <1>6 DEF Handler
<1>8. handler'[p] = h
  BY <1>3, <1>4 DEF TypeOK, Become
<1>9. Held(p)'
  BY <1>3, <1>4, <1>7, <1>8 DEF Held
<1>10. detections' \subseteq Detection
  BY <1>3, <1>4, <1>6 DEF TypeOK
<1> QED
  BY <1>3, <1>7, <1>9, <1>10, MoveKept

(* The pipeline starts to persist, or returns, with all its candidates. *)
LEMMA AllToDoKept ==
  ASSUME Sound, NEW p \in Runner, NEW s \in {"persist", "returned"},
         handler[p].step \in {"sweep", "persist", "returned"},
         Become(p, [step |-> s, found |-> handler[p].found,
                    todo |-> Keys(handler[p].found)]),
         UNCHANGED <<rules, incidents, staler, detections>>
  PROVE  Sound'
<1>1. PICK D : D = handler[p].found
  OBVIOUS
<1>2. PICK h : h = [step |-> s, found |-> D, todo |-> Keys(D)]
  OBVIOUS
<1>3. D \in SUBSET Detection /\ D \subseteq detections
  BY <1>1, HandlerHolds DEF Sound, Held
<1>4. h \in Handler
  BY <1>2, <1>3, KeysAreKeys DEF Handler
<1>5. Become(p, h)
  BY <1>1, <1>2
<1>6. handler'[p] = h
  BY <1>5 DEF Sound, TypeOK, Become
<1>7. Held(p)'
  BY <1>2, <1>3, <1>6 DEF Held
<1>8. detections' \subseteq Detection
  BY DEF Sound, TypeOK
<1> QED
  BY <1>4, <1>5, <1>7, <1>8, MoveKept

LEMMA RetryPersistKept ==
  ASSUME Sound, NEW p \in Runner, RetryPersist(p)
  PROVE  Sound'
<1>1. PICK h : h = [handler[p] EXCEPT !.step = "persist"]
  OBVIOUS
<1>2. /\ handler[p].step = "returned" /\ Become(p, h)
      /\ UNCHANGED <<rules, incidents, staler, detections>>
  BY <1>1 DEF RetryPersist
<1>3. TypeOK /\ Held(p)
  BY DEF Sound
<1>4. handler[p] \in [step : {"persist", "returned"},
                      found : SUBSET Detection, todo : SUBSET Key]
  BY <1>2, <1>3, HandlerHolds
<1>5. /\ h \in Handler /\ h.step = "persist"
      /\ h.found = handler[p].found /\ h.todo = handler[p].todo
  BY <1>1, <1>4 DEF Handler
<1>6. handler'[p] = h
  BY <1>2, <1>3 DEF TypeOK, Become
<1>7. Held(p)'
  BY <1>2, <1>3, <1>5, <1>6 DEF Held
<1>8. detections' \subseteq Detection
  BY <1>2, <1>3 DEF TypeOK
<1> QED
  BY <1>2, <1>5, <1>7, <1>8, MoveKept

(* An incident of the pipeline rests on what its run found, which is indexed. *)
LEMMA PersistIncidentKept ==
  ASSUME Sound, NEW p \in Runner, NEW k \in Key, PersistIncident(p, k)
  PROVE  Sound'
<1>1. PICK D : D = handler[p].found
  OBVIOUS
<1>2. PICK row : row = Candidate(D, k, "pipeline")
  OBVIOUS
<1>3. /\ handler[p].step = "persist" /\ k \in handler[p].todo
      /\ Become(p, [handler[p] EXCEPT !.todo = @ \ {k}])
      /\ UNCHANGED <<rules, detections>>
  BY DEF PersistIncident
<1>4. PICK i \in IncidentId \ Stored :
        Touch(i) /\ incidents' = [incidents EXCEPT ![i] = row]
  BY <1>1, <1>2 DEF PersistIncident, InsertIncident
<1>5. TypeOK /\ Held(p)
  BY DEF Sound
<1>6. D \in SUBSET Detection /\ D \subseteq detections /\ k \in Keys(D)
  BY <1>1, <1>3, <1>5, HandlerHolds DEF Held
<1>7. /\ row \in Incident /\ row.key = k /\ row.count = 0
      /\ row.entities = UNION {d.entities : d \in Members(D, k)}
  BY <1>2, <1>6, CandidateIsIncident
<1>8. Shown(row)
  <2>1. Members(D, k) # {} /\ Members(D, k) \subseteq Members(detections, k)
    BY <1>6, KeyHasMembers DEF Members
  <2> QED
    BY <1>7, <2>1 DEF Shown
<1>9. /\ incidents' \in [IncidentId -> Incident \cup {NoIncident}]
      /\ incidents'[i] = row
      /\ \A j \in IncidentId \ {i} : incidents'[j] = incidents[j]
      /\ \A l : WithKey(l)' = IF l = row.key THEN WithKey(l) \cup {i}
                               ELSE WithKey(l)
  BY <1>4, <1>5, <1>7, InsertKept
<1>10. \A l : WithKey(l) \subseteq WithKey(l)'
  BY <1>9
<1>11. /\ handler'[p].step = "persist"
       /\ handler'[p].todo = handler[p].todo \ {k}
       /\ handler'[p].found = handler[p].found
       /\ handler' \in [Worker \cup Runner -> Handler]
       /\ \A q \in Worker \cup Runner : q # p => handler'[q] = handler[q]
  BY <1>3, Ticked
<1>12. Held(p)'
  BY <1>3, <1>5, <1>11 DEF Held
<1> QED
  BY <1>3, <1>4, <1>7, <1>8, <1>9, <1>10, <1>11, <1>12, WriteKept

(* Triage rewrites status and severity of a row, and nothing else of it. *)
LEMMA TriageStep ==
  ASSUME Sound, NEW w \in Worker, NEW i \in IncidentId, NEW s \in Status,
         NEW v \in Severity, UpdateIncident(w, i, s, v)
  PROVE  /\ i \in Stored
         /\ \E row \in Incident :
              /\ row.key = incidents[i].key /\ row.count = incidents[i].count
              /\ row.origin = incidents[i].origin
              /\ row.entities = incidents[i].entities
              /\ incidents' = [incidents EXCEPT ![i] = row]
<1>1. i \in Stored /\ incidents[i] \in Incident
  BY DEF UpdateIncident, Stored, Sound, TypeOK
<1>2. PICK row : row = [incidents[i] EXCEPT !.status = s, !.severity = v]
  OBVIOUS
<1>3. incidents' = [incidents EXCEPT ![i] = row]
  BY <1>1, <1>2 DEF UpdateIncident, Sound, TypeOK
<1>4. /\ row \in Incident /\ row.key = incidents[i].key
      /\ row.count = incidents[i].count /\ row.origin = incidents[i].origin
      /\ row.entities = incidents[i].entities
  BY <1>1, <1>2 DEF Incident
<1> QED
  BY <1>1, <1>3, <1>4

LEMMA UpdateIncidentKept ==
  ASSUME Sound, NEW w \in Worker, NEW i \in IncidentId, NEW s \in Status,
         NEW v \in Severity, UpdateIncident(w, i, s, v)
  PROVE  Sound'
<1>1. i \in Stored /\ Touch(i) /\ UNCHANGED <<rules, detections, handler>>
  BY DEF UpdateIncident
<1>2. PICK row \in Incident :
        /\ row.key = incidents[i].key /\ row.count = incidents[i].count
        /\ row.origin = incidents[i].origin
        /\ row.entities = incidents[i].entities
        /\ incidents' = [incidents EXCEPT ![i] = row]
  BY TriageStep
<1>3. TypeOK
  BY DEF Sound
<1>4. /\ incidents' \in [IncidentId -> Incident \cup {NoIncident}]
      /\ incidents'[i] = row
      /\ \A j \in IncidentId \ {i} : incidents'[j] = incidents[j]
      /\ \A l : WithKey(l)' = WithKey(l)
  BY <1>1, <1>2, <1>3, RewriteKept
<1>5. row.count <= 1 /\ Shown(row)
  BY <1>1, <1>2 DEF Sound, Shown
<1>6. handler' \in [Worker \cup Runner -> Handler]
  BY <1>1, <1>3 DEF TypeOK
<1> QED
  BY <1>1, <1>2, <1>4, <1>5, <1>6, WriteKept

LEMMA UpdateRuleKept ==
  ASSUME Sound, NEW w \in Worker, NEW r \in RuleId, NEW rule \in RuleText,
         UpdateRule(w, r, rule)
  PROVE  Sound'
BY DEF UpdateRule, Sound, TypeOK, Ordered, Held, Shown, WithKey, Stored

LEMMA Step ==
  ASSUME Sound, [Next]_vars
  PROVE  Sound'
<1>1. CASE UNCHANGED vars
  BY <1>1 DEF vars, Sound, TypeOK, Ordered, Held, Shown, WithKey, Stored
<1>2. ASSUME NEW w \in Worker, NEW r \in RuleId, NEW E \in SUBSET Entity,
             RunRuleNow(w, r, E)
      PROVE  Sound'
  BY <1>2, RunRuleNowKept
<1>3. ASSUME NEW w \in Worker, ListIncidents(w)
      PROVE  Sound'
  BY <1>3, ListIncidentsKept
<1>4. ASSUME NEW w \in Worker, NEW k \in Key, RaiseIncident(w, k)
      PROVE  Sound'
  BY <1>4, RaiseIncidentKept
<1>5. ASSUME NEW w \in Worker, RunAnswered(w)
      PROVE  Sound'
  BY <1>5, RestKept DEF RunAnswered
<1>6. ASSUME NEW w \in Worker, NEW i \in IncidentId, NEW s \in Status,
             NEW v \in Severity, UpdateIncident(w, i, s, v)
      PROVE  Sound'
  BY <1>6, UpdateIncidentKept
<1>7. ASSUME NEW w \in Worker, NEW r \in RuleId, NEW rule \in RuleText,
             UpdateRule(w, r, rule)
      PROVE  Sound'
  BY <1>7, UpdateRuleKept
<1>8. ASSUME NEW p \in Runner, RunPipeline(p)
      PROVE  Sound'
  BY <1>8, RunPipelineKept
<1>9. ASSUME NEW p \in Runner, NEW r \in RuleId, RunSilently(p, r)
      PROVE  Sound'
  BY <1>9, RunSilentlyKept
<1>10. ASSUME NEW p \in Runner, NEW r \in RuleId, NEW E \in SUBSET Entity,
              RunAndEmit(p, r, E)
       PROVE  Sound'
  BY <1>10, RunAndEmitKept
<1>11. ASSUME NEW p \in Runner, Correlate(p)
       PROVE  Sound'
  BY <1>11, AllToDoKept DEF Correlate
<1>12. ASSUME NEW p \in Runner, NEW k \in Key, PersistIncident(p, k)
       PROVE  Sound'
  BY <1>12, PersistIncidentKept
<1>13. ASSUME NEW p \in Runner, PersistFails(p)
       PROVE  Sound'
  BY <1>13, AllToDoKept DEF PersistFails
<1>14. ASSUME NEW p \in Runner, RetryPersist(p)
       PROVE  Sound'
  BY <1>14, RetryPersistKept
<1>15. ASSUME NEW p \in Runner, PipelineDone(p)
       PROVE  Sound'
  BY <1>15, RestKept DEF PipelineDone
<1>16. ASSUME NEW p \in Worker \cup Runner, Abort(p)
       PROVE  Sound'
  BY <1>16, RestKept DEF Abort
<1> QED
  BY <1>1, <1>2, <1>3, <1>4, <1>5, <1>6, <1>7, <1>8, <1>9, <1>10, <1>11, <1>12,
     <1>13, <1>14, <1>15, <1>16 DEF Next

LEMMA SoundHolds == Spec => []Sound
<1>1. Init => Sound
  BY Initially
<1>2. Sound /\ [Next]_vars => Sound'
  BY Step
<1> QED
  BY <1>1, <1>2, PTL DEF Spec

(* Every variable keeps its type, for any number of producers: what a run     *)
(* knows and still has to do are incidents and keys, and what is created is   *)
(* an incident, of the highest of any grades.                                 *)
THEOREM TypeCorrect == Spec => []TypeOK
<1>1. Sound => TypeOK
  BY DEF Sound
<1> QED
  BY <1>1, SoundHolds, PTL

(* Each incident of the pipeline rests on detections that were indexed, of    *)
(* its rule and naming its entities, however inserts fail and are retried,    *)
(* and whoever else runs rules and triages.                                   *)
THEOREM EvidenceIsIndexed == Spec => []PipelineShowsEvidence
<1>1. Sound => PipelineShowsEvidence
  BY DEF Sound, Shown, PipelineShowsEvidence
<1> QED
  BY <1>1, SoundHolds, PTL

(* However often a rule matches, however many entities and buckets it matches *)
(* at once and whoever else is at work, the detection_count of an incident    *)
(* never exceeds 1.                                                           *)
THEOREM CountsNeverAddUp == Spec => []CountsOneRun
<1>1. Sound => CountsOneRun
  BY DEF Sound, CountsOneRun
<1> QED
  BY <1>1, SoundHolds, PTL

-----------------------------------------------------------------------------
(* What a step does to the incidents that exist: a run rewrites the count of  *)
(* one at most, triage keeps keys, the others touch none.                     *)
LEMMA IncidentsStay ==
  ASSUME Sound, [Next]_vars, NEW i \in Stored
  PROVE  /\ incidents'[i] # NoIncident
         /\ incidents'[i].key = incidents[i].key
         /\ handler' # handler =>
              incidents'[i] = [incidents[i] EXCEPT !.count = incidents'[i].count]
<1>1. /\ TypeOK /\ i \in IncidentId /\ incidents[i] \in Incident
      /\ incidents[i] # NoIncident
  BY DEF Sound, TypeOK, Stored
<1>2. incidents[i] = [incidents[i] EXCEPT !.count = incidents[i].count]
  BY <1>1 DEF Incident
<1>3. CASE incidents'[i] = incidents[i]
  BY <1>1, <1>2, <1>3
<1>4. ASSUME NEW w \in Worker, NEW k \in Key, RaiseIncident(w, k)
      PROVE  \/ incidents'[i] = incidents[i]
             \/ /\ incidents'[i] # NoIncident
                /\ incidents'[i].key = incidents[i].key
                /\ incidents'[i] = [incidents[i] EXCEPT
                                      !.count = incidents'[i].count]
  <2>1. CASE handler[w].known[k] # NoIncident
    <3>1. PICK j : j = handler[w].known[k]
      OBVIOUS
    <3>2. j \in Stored
      BY <1>4, <2>1, <3>1, RefreshStep
    <3>3. PICK row \in Incident :
            /\ row = [incidents[j] EXCEPT !.count = 1]
            /\ row.count = 1 /\ row.key = incidents[j].key
            /\ incidents' = [incidents EXCEPT ![j] = row]
      BY <1>4, <2>1, <3>1, RefreshStep
    <3>4. /\ incidents'[j] = row
          /\ \A l \in IncidentId \ {j} : incidents'[l] = incidents[l]
      BY <1>1, <3>2, <3>3, RewriteKept
    <3> QED
      BY <1>1, <3>3, <3>4, IncidentAssumption
  <2>2. CASE handler[w].known[k] = NoIncident
    <3>1. PICK j \in IncidentId \ Stored, row \in Incident :
            incidents' = [incidents EXCEPT ![j] = row]
      BY <1>4, <2>2, RaiseStep
    <3> QED
      BY <1>1, <3>1, InsertKept
  <2> QED
    BY <2>1, <2>2
<1>5. ASSUME NEW p \in Runner, NEW k \in Key, PersistIncident(p, k)
      PROVE  incidents'[i] = incidents[i]
  <2>1. PICK row : row = Candidate(handler[p].found, k, "pipeline")
    OBVIOUS
  <2>2. PICK j \in IncidentId \ Stored : incidents' = [incidents EXCEPT ![j] = row]
    BY <1>5, <2>1 DEF PersistIncident, InsertIncident
  <2> QED
    BY <1>1, <2>2 DEF TypeOK
<1>6. ASSUME NEW w \in Worker, NEW j \in IncidentId, NEW s \in Status,
             NEW v \in Severity, UpdateIncident(w, j, s, v)
      PROVE  /\ handler' = handler
             /\ incidents'[i] # NoIncident
             /\ incidents'[i].key = incidents[i].key
  <2>1. j \in Stored
    BY <1>6, TriageStep
  <2>2. PICK row \in Incident :
          /\ row.key = incidents[j].key
          /\ incidents' = [incidents EXCEPT ![j] = row]
    BY <1>6, TriageStep
  <2>3. /\ incidents'[j] = row
        /\ \A l \in IncidentId \ {j} : incidents'[l] = incidents[l]
    BY <1>1, <2>1, <2>2, RewriteKept
  <2> QED
    BY <1>1, <1>6, <2>2, <2>3, IncidentAssumption DEF UpdateIncident
<1>7. \/ incidents' = incidents
      \/ \E w \in Worker, k \in Key : RaiseIncident(w, k)
      \/ \E p \in Runner, k \in Key : PersistIncident(p, k)
      \/ \E w \in Worker, j \in IncidentId, s \in Status, v \in Severity :
           UpdateIncident(w, j, s, v)
  BY ZenonT(30) DEF Next, vars, RunRuleNow, ListIncidents, RunAnswered, UpdateRule,
         RunPipeline, RunSilently, RunAndEmit, Correlate, PersistFails,
         RetryPersist, PipelineDone, Abort
<1> QED
  BY <1>3, <1>4, <1>5, <1>6, <1>7

(* A run and a pipeline leave what analysts set as it is, whoever else is at  *)
(* work: they rewrite the count of an incident at most.                       *)
THEOREM RunsKeepTriage == Spec => TriageKept
<1>1. Sound /\ [Next]_vars =>
        [handler' # handler =>
           \A i \in Stored :
             /\ incidents'[i] # NoIncident
             /\ incidents'[i] = [incidents[i] EXCEPT
                                   !.count = incidents'[i].count]]_vars
  BY IncidentsStay
<1> QED
  BY <1>1, SoundHolds, PTL DEF Spec, TriageKept

(* A run that is answered has an incident for each key it found, whatever     *)
(* other workers and the pipeline did meanwhile: what it was going to refresh *)
(* is still there, and has the key it had.                                    *)
THEOREM MatchesAreKept == Spec => NoMatchLost
<1>1. ASSUME Sound, [Next]_vars, NEW w \in Worker,
             handler[w].step = "raise", handler[w].todo = {},
             NEW k \in Keys(handler[w].found)
      PROVE  WithKey(k)' # {}
  <2>1. WithKey(k) # {}
    BY <1>1 DEF Sound, Held
  <2>2. PICK i \in Stored : incidents[i].key = k
    BY <2>1 DEF WithKey
  <2>3. incidents'[i] # NoIncident /\ incidents'[i].key = k
    BY <1>1, <2>2, IncidentsStay
  <2> QED
    BY <2>2, <2>3 DEF WithKey, Stored
<1>2. Sound /\ [Next]_vars =>
        [\A w \in Worker :
           /\ handler[w].step = "raise" /\ handler[w].todo = {}
           /\ handler'[w] = Idle
           => \A k \in Keys(handler[w].found) : WithKey(k)' # {}]_vars
  BY <1>1
<1> QED
  BY <1>2, SoundHolds, PTL DEF Spec, NoMatchLost

-----------------------------------------------------------------------------
(* What one producer adds: nothing is created between a run's list and what   *)
(* it creates.                                                                *)

(* A run knows the incident of each key that it has still to handle. *)
Knows(w) ==
  handler[w].step = "raise" =>
    \A k \in handler[w].todo :
      WithKey(k) # {} => handler[w].known[k] # NoIncident

IInv == OneIncidentPerKey /\ \A w \in Worker : Knows(w)

(* Steps that write no incident, and after which no run has more to handle or *)
(* knows of less.                                                             *)
LEMMA IdleKept ==
  ASSUME IInv, UNCHANGED incidents,
         \A w \in Worker : handler'[w] = handler[w] \/ handler'[w].step # "raise"
  PROVE  IInv'
<1>1. \A k : WithKey(k)' = WithKey(k)
  BY DEF WithKey, Stored
<1>2. OneIncidentPerKey'
  BY DEF IInv, OneIncidentPerKey, Stored
<1>3. ASSUME NEW w \in Worker PROVE Knows(w)'
  <2>1. CASE handler'[w] = handler[w]
    BY <1>1, <2>1 DEF IInv, Knows
  <2>2. CASE handler'[w].step # "raise"
    BY <2>2 DEF Knows
  <2> QED
    BY <2>1, <2>2
<1> QED
  BY <1>2, <1>3 DEF IInv

LEMMA ListKept ==
  ASSUME Sound, IInv, NEW w \in Worker, ListIncidents(w), OneProducer
  PROVE  IInv'
<1>1. UNCHANGED incidents /\ \A v \in Worker : v = w
  BY DEF ListIncidents, OneProducer
<1>2. PICK D : D = handler[w].found
  OBVIOUS
<1>3. handler'[w] = [step |-> "raise", found |-> D, todo |-> Keys(D),
                    known |-> [k \in Key |-> Existing(k)]]
  BY <1>2 DEF ListIncidents, Become, Sound, TypeOK
<1>4. Keys(D) \in SUBSET Key
  BY <1>2, HandlerHolds, KeysAreKeys DEF Sound, ListIncidents
<1>5. \A k : WithKey(k)' = WithKey(k)
  BY <1>1 DEF WithKey, Stored
<1>6. \A k \in Key : WithKey(k) # {} => Existing(k) # NoIncident
  BY ExistingHasKey, IncidentAssumption DEF Sound, WithKey, Stored
<1>7. Knows(w)'
  BY <1>3, <1>4, <1>5, <1>6 DEF Knows
<1>8. OneIncidentPerKey'
  BY <1>1 DEF IInv, OneIncidentPerKey, Stored
<1> QED
  BY <1>1, <1>7, <1>8 DEF IInv

LEMMA RaiseKept ==
  ASSUME Sound, IInv, NEW w \in Worker, NEW k \in Key, RaiseIncident(w, k),
         OneProducer
  PROVE  IInv'
<1>1. /\ handler[w].step = "raise" /\ k \in handler[w].todo
      /\ Become(w, [handler[w] EXCEPT !.todo = @ \ {k}])
      /\ \A v \in Worker : v = w
      /\ TypeOK /\ Knows(w)
  BY DEF RaiseIncident, OneProducer, Sound, IInv
<1>2. /\ handler'[w].todo = handler[w].todo \ {k}
      /\ handler'[w].known = handler[w].known
  BY <1>1, Ticked
<1>3. CASE handler[w].known[k] # NoIncident
  <2>1. PICK i : i = handler[w].known[k]
    OBVIOUS
  <2>2. i \in Stored
    BY <1>3, <2>1, RefreshStep
  <2>3. PICK row \in Incident :
          /\ row.key = incidents[i].key
          /\ incidents' = [incidents EXCEPT ![i] = row]
    BY <1>3, <2>1, RefreshStep
  <2>4. /\ incidents'[i] = row
        /\ \A j \in IncidentId \ {i} : incidents'[j] = incidents[j]
        /\ Stored' = Stored
        /\ \A l : WithKey(l)' = WithKey(l)
    BY <1>1, <2>2, <2>3, RewriteKept
  <2>5. OneIncidentPerKey'
    BY <2>3, <2>4 DEF IInv, OneIncidentPerKey, Stored
  <2>6. Knows(w)'
    BY <1>1, <1>2, <2>4 DEF Knows
  <2> QED
    BY <1>1, <2>5, <2>6 DEF IInv
<1>4. CASE handler[w].known[k] = NoIncident
  <2>1. PICK i \in IncidentId \ Stored, row \in Incident :
          row.key = k /\ incidents' = [incidents EXCEPT ![i] = row]
    BY <1>4, RaiseStep
  <2>2. /\ incidents'[i] = row
        /\ \A j \in IncidentId \ {i} : incidents'[j] = incidents[j]
        /\ Stored' = Stored \cup {i}
        /\ \A l : l # k => WithKey(l)' = WithKey(l)
    BY <1>1, <2>1, InsertKept, ZenonT(30)
  <2>3. \A j \in Stored : incidents[j].key # k
    BY <1>1, <1>4 DEF Knows, WithKey
  <2>4. OneIncidentPerKey'
    <3> SUFFICES ASSUME NEW a \in Stored \cup {i}, NEW b \in Stored \cup {i},
                        incidents'[a].key = incidents'[b].key
                 PROVE  a = b
      BY <2>2 DEF OneIncidentPerKey
    <3>1. \A j \in Stored : incidents'[j] = incidents[j]
      BY <2>1, <2>2 DEF Stored
    <3> QED
      BY <2>1, <2>2, <2>3, <3>1 DEF IInv, OneIncidentPerKey
  <2>5. Knows(w)'
    BY <1>1, <1>2, <2>2 DEF Knows
  <2> QED
    BY <1>1, <2>4, <2>5 DEF IInv
<1> QED
  BY <1>3, <1>4

LEMMA TriageKnown ==
  ASSUME Sound, IInv, NEW w \in Worker, NEW i \in IncidentId, NEW s \in Status,
         NEW v \in Severity, UpdateIncident(w, i, s, v)
  PROVE  IInv'
<1>1. i \in Stored /\ TypeOK /\ UNCHANGED handler
  BY TriageStep DEF Sound, UpdateIncident
<1>2. PICK row \in Incident :
        /\ row.key = incidents[i].key
        /\ incidents' = [incidents EXCEPT ![i] = row]
  BY TriageStep
<1>3. /\ incidents'[i] = row
      /\ \A j \in IncidentId \ {i} : incidents'[j] = incidents[j]
      /\ Stored' = Stored
      /\ \A l : WithKey(l)' = WithKey(l)
  BY <1>1, <1>2, RewriteKept
<1>4. OneIncidentPerKey'
  BY <1>2, <1>3 DEF IInv, OneIncidentPerKey, Stored
<1>5. (\A u \in Worker : Knows(u))'
  BY <1>1, <1>3 DEF IInv, Knows
<1> QED
  BY <1>4, <1>5 DEF IInv

LEMMA OneProducerStep ==
  ASSUME Sound, IInv, OneProducer, [Next]_vars
  PROVE  IInv'
<1>1. CASE UNCHANGED vars
  BY <1>1, IdleKept DEF vars
<1>2. ASSUME NEW w \in Worker, NEW h, Become(w, h), h.step # "raise",
             UNCHANGED incidents
      PROVE  IInv'
  <2>1. \A v \in Worker : handler'[v] = handler[v] \/ handler'[v].step # "raise"
    BY <1>2 DEF Become, Sound, TypeOK
  <2> QED
    BY <1>2, <2>1, IdleKept
<1>3. ASSUME NEW w \in Worker, NEW r \in RuleId, NEW E \in SUBSET Entity,
             RunRuleNow(w, r, E)
      PROVE  IInv'
  <2>1. PICK D : Become(w, [step |-> "list", found |-> D])
    BY <1>3 DEF RunRuleNow
  <2> QED
    BY <1>2, <1>3, <2>1 DEF RunRuleNow
<1>4. ASSUME NEW w \in Worker, RunAnswered(w) \/ Abort(w)
      PROVE  IInv'
  BY <1>2, <1>4 DEF RunAnswered, Abort, Idle
<1>5. ASSUME NEW w \in Worker, NEW r \in RuleId, NEW rule \in RuleText,
             UpdateRule(w, r, rule)
      PROVE  IInv'
  BY <1>5, IdleKept DEF UpdateRule
<1>6. Runner = {}
  BY DEF OneProducer
<1> QED
  BY <1>1, <1>3, <1>4, <1>5, <1>6, ListKept, RaiseKept, TriageKnown DEF Next

LEMMA OneProducerInvariant == OneProducer /\ Spec => [](Sound /\ IInv)
<1> SUFFICES ASSUME OneProducer PROVE Spec => [](Sound /\ IInv)
  OBVIOUS
<1>1. Init => IInv
  BY DEF Init, IInv, OneIncidentPerKey, Stored, Knows, Idle
<1>2. Sound /\ IInv /\ [Next]_vars => IInv'
  BY OneProducerStep
<1> QED
  BY <1>1, <1>2, SoundHolds, PTL DEF Spec

(* Re-running rules never gives two incidents for one correlation key:        *)
(* whatever rules are run and edited, however runs are cut short, and         *)
(* however analysts triage.                                                   *)
THEOREM RerunsAreIdempotent == OneProducer /\ Spec => []OneIncidentPerKey
<1> SUFFICES ASSUME OneProducer PROVE Spec => []OneIncidentPerKey
  OBVIOUS
<1>1. Sound /\ IInv => OneIncidentPerKey
  BY DEF IInv
<1> QED
  BY <1>1, OneProducerInvariant, PTL

(* The order in which a list is shown is one, a run never refreshes an        *)
(* incident of another key, and it knows the incident of each key it has      *)
(* still to handle, although its snapshot of them is as old as the run.       *)
THEOREM RunsKnowTheirIncidents == OneProducer /\ Spec => []BridgeInv
<1> SUFFICES ASSUME OneProducer PROVE Spec => []BridgeInv
  OBVIOUS
<1>1. Sound /\ IInv => BridgeInv
  <2> SUFFICES ASSUME Sound, IInv PROVE BridgeInv
    OBVIOUS
  <2>1. ASSUME NEW i \in IncidentId PROVE <<i, i>> \notin staler
    <3>1. PICK j \in {i} : \A k \in {i} : <<k, j>> \notin staler
      BY ZenonT(30) DEF Sound, Ordered
    <3> QED
      BY <3>1
  <2>2. KnowsExisting
    BY DEF Sound, IInv, Held, Knows, KnowsExisting
  <2>3. RunInv
    BY DEF Sound, Held, RunInv
  <2> QED
    BY <2>1, <2>2, <2>3 DEF BridgeInv, IInv
<1> QED
  BY <1>1, OneProducerInvariant, PTL
=============================================================================
