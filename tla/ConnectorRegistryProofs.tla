----------------------- MODULE ConnectorRegistryProofs -----------------------
(***************************************************************************)
(* Proofs about ConnectorRegistry, for any tenants, providers, endpoints   *)
(* and integration ids, with or without Duplicates and StoreFaults.        *)
(***************************************************************************)
EXTENDS ConnectorRegistry, TLAPS

(* Reading the row of a live integration gives an Integration. *)
LEMMA LiveRow ==
  ASSUME TypeOK, NEW i \in Live
  PROVE  i \in Id /\ integrations[i] \in Integration
BY DEF TypeOK, Live

(* What a request changes is a stored row, and what it sends is a config. *)
LEMMA Steps ==
  ASSUME Next
  PROVE  \E p \in ApiProcess :
           \/ \E t \in Tenant, e \in Endpoint \cup {NoEndpoint} : Onboard(p, t, e)
           \/ \E i \in Id : OnboardSource(p, i)
           \/ \E t \in Tenant, v \in Provider, c \in Config, i \in Id :
                AddIntegration(p, t, v, c, i)
           \/ \E i \in Id, c \in Config : UpdateIntegration(p, i, c)
           \/ Mirror(p)
           \/ \E i \in Id : TestIntegration(p, i)
           \/ \E ok \in BOOLEAN : TestAnswered(p, ok)
           \/ \E i \in Id : DeleteIntegration(p, i)
           \/ Revoke(p)
           \/ Crash(p)
           \/ Rehydrate(p)
<1>1. \A v : Accepted(v) \subseteq Config
  BY DEF Accepted
<1>2. Live \subseteq Id
  BY DEF Live
<1>3. ASSUME NEW p \in ApiProcess, NEW t \in Tenant, NEW v \in Provider,
             \E c \in Accepted(v), i \in Id : AddIntegration(p, t, v, c, i)
      PROVE  \E c \in Config, i \in Id : AddIntegration(p, t, v, c, i)
  BY <1>1, <1>3
<1>4. ASSUME NEW p \in ApiProcess, NEW i \in Live,
             \E c \in Accepted(integrations[i].provider) : UpdateIntegration(p, i, c)
      PROVE  \E j \in Id, c \in Config : UpdateIntegration(p, j, c)
  BY <1>1, <1>2, <1>4
<1> QED
  BY <1>3, <1>4, Zenon DEF Next

(* Every entry that a replay can build is a config of a row of that tenant *)
(* and provider, or empty.                                                 *)
LEMMA ReplayIsBacked ==
  ASSUME NEW t \in Tenant, NEW v \in RegistryProvider,
         NEW c \in ReplayWinner(t, v), c # NoRow
  PROVE  \E i \in RowsOf(t, v) : integrations[i].config = c
BY DEF ReplayWinner, Replayable

(* Every variable keeps its type: in particular a handler always holds a   *)
(* row of the shape the database returned, and no registry holds anything  *)
(* but a config.                                                           *)
THEOREM TypeCorrect == Spec => []TypeOK
<1>1. Init => TypeOK
  BY DEF Init, TypeOK, EmptyRegistry, Idle, Handler, Integration
<1>2. TypeOK /\ [Next]_vars => TypeOK'
  <2> SUFFICES ASSUME TypeOK, [Next]_vars PROVE TypeOK'
    OBVIOUS
  <2>1. CASE UNCHANGED vars
    BY <2>1 DEF TypeOK, vars
  <2>2. ASSUME NEW p \in ApiProcess, NEW t \in Tenant,
               NEW e \in Endpoint \cup {NoEndpoint}, Onboard(p, t, e)
        PROVE  TypeOK'
    BY <2>2 DEF Onboard, TypeOK, Become, Handler, Config, Integration
  <2>3. ASSUME NEW p \in ApiProcess, NEW i \in Id, OnboardSource(p, i)
        PROVE  TypeOK'
    <3>1. handler[p].tenant \in Tenant /\ handler[p].config \in Config
      BY <2>3 DEF OnboardSource, TypeOK, Handler
    <3>2. [tenant   |-> handler[p].tenant,
           provider |-> "opensearch",
           config   |-> handler[p].config] \in Integration
      BY <3>1, ConfigAssumption DEF Integration
    <3> QED
      BY <2>3, <3>2 DEF OnboardSource, Insert, Touched, Become, TypeOK, Handler, Live
  <2>4. ASSUME NEW p \in ApiProcess, NEW t \in Tenant, NEW v \in Provider,
               NEW c \in Config, NEW i \in Id, AddIntegration(p, t, v, c, i)
        PROVE  TypeOK'
    <3>1. [tenant |-> t, provider |-> v, config |-> c] \in Integration
      BY DEF Integration
    <3> QED
      BY <2>4, <3>1 DEF AddIntegration, Insert, Touched, Become, TypeOK, Handler, Live
  <2>5. ASSUME NEW p \in ApiProcess, NEW i \in Id, NEW c \in Config,
               UpdateIntegration(p, i, c)
        PROVE  TypeOK'
    <3>1. [integrations[i] EXCEPT !.config = c] \in Integration
      BY <2>5, LiveRow DEF UpdateIntegration, Integration
    <3> QED
      BY <2>5, <3>1 DEF UpdateIntegration, Touched, Become, TypeOK, Handler, Live
  <2>6. ASSUME NEW p \in ApiProcess, Mirror(p)
        PROVE  TypeOK'
    <3>1. handler[p].row \in Integration
      BY <2>6 DEF Mirror, TypeOK, Handler
    <3>2. handler' \in [ApiProcess -> Handler]
      BY <2>6 DEF Mirror, TypeOK, Become, Idle, Handler
    <3>3. registry' \in
            [ApiProcess -> [Tenant -> [RegistryProvider -> Config \cup {NoRow}]]]
      BY <2>6, <3>1 DEF Mirror, TypeOK, Integration
    <3> QED
      BY <2>6, <3>2, <3>3 DEF Mirror, TypeOK
  <2>7. ASSUME NEW p \in ApiProcess, NEW i \in Id, TestIntegration(p, i)
        PROVE  TypeOK'
    <3>1. integrations[i] \in Integration
      BY <2>7, LiveRow DEF TestIntegration
    <3> QED
      BY <2>7, <3>1 DEF TestIntegration, TypeOK, Become, Handler
  <2>8. ASSUME NEW p \in ApiProcess, NEW ok \in BOOLEAN, TestAnswered(p, ok)
        PROVE  TypeOK'
    <3>2. CASE handler[p].id \in Live
      <4> DEFINE i   == handler[p].id
                 row == integrations[handler[p].id]
                 h   == [step |-> "mirror", id |-> i, row |-> row]
      <4>1. i \in Id /\ row \in Integration
        BY <3>2, LiveRow
      <4>2. h \in Handler /\ Idle \in Handler
        BY <4>1 DEF Handler, Idle
      <4>3. handler' = [handler EXCEPT ![p] = IF ok THEN h ELSE Idle]
        BY <2>8, <3>2 DEF TestAnswered, Become
      <4>4. handler' \in [ApiProcess -> Handler]
        BY <4>2, <4>3 DEF TypeOK
      <4>5. staler' \subseteq Id \X Id
        BY <2>8, <3>2, <4>1 DEF TestAnswered, Touched, TypeOK, Live
      <4> QED
        BY <2>8, <4>4, <4>5 DEF TestAnswered, TypeOK
    <3>3. CASE handler[p].id \notin Live
      <4>1. Idle \in Handler
        BY DEF Handler, Idle
      <4>2. handler' = [handler EXCEPT ![p] = Idle] /\ staler' = staler
        BY <2>8, <3>3 DEF TestAnswered, Become
      <4> QED
        BY <2>8, <4>1, <4>2 DEF TestAnswered, TypeOK
    <3> QED
      BY <3>2, <3>3
  <2>9. ASSUME NEW p \in ApiProcess, NEW i \in Id, DeleteIntegration(p, i)
        PROVE  TypeOK'
    <3>1. integrations[i] \in Integration
      BY <2>9, LiveRow DEF DeleteIntegration
    <3> QED
      BY <2>9, <3>1 DEF DeleteIntegration, TypeOK, Become, Handler, Integration
  <2>10. ASSUME NEW p \in ApiProcess, Revoke(p)
         PROVE  TypeOK'
    <3>1. handler[p].tenant \in Tenant /\ handler[p].provider \in Provider
      BY <2>10 DEF Revoke, TypeOK, Handler
    <3> QED
      BY <2>10, <3>1 DEF Revoke, TypeOK, Become, Idle, Handler
  <2>11. ASSUME NEW p \in ApiProcess, Crash(p)
         PROVE  TypeOK'
    BY <2>11 DEF Crash, TypeOK, Become, Down, Handler, EmptyRegistry
  <2>12. ASSUME NEW p \in ApiProcess, Rehydrate(p)
         PROVE  TypeOK'
    <3>1. Stored \subseteq Config
      BY LiveRow DEF Stored, Integration
    <3>2. PICK skipped : \E r \in Replays(skipped) :
                            registry' = [registry EXCEPT ![p] = r]
      BY <2>12 DEF Rehydrate
    <3>3. PICK r \in Replays(skipped) : registry' = [registry EXCEPT ![p] = r]
      BY <3>2
    <3>4. r \in [Tenant -> [RegistryProvider -> Config \cup {NoRow}]]
      BY <3>1 DEF Replays
    <3> QED
      BY <2>12, <3>3, <3>4 DEF Rehydrate, TypeOK, Become, Idle, Handler
  <2> QED
    BY <2>1, <2>2, <2>3, <2>4, <2>5, <2>6, <2>7, <2>8, <2>9, <2>10, <2>11, <2>12, Steps
<1> QED
  BY <1>1, <1>2, PTL DEF Spec

(* With one API process nothing but its own handlers writes the rows. *)
OneApiProcess == \A p, q \in ApiProcess : p = q

(* A row that did not change still backs the entries it backed, if the      *)
(* registry did not change either.                                          *)
LEMMA BackedKept ==
  ASSUME NEW p \in ApiProcess, NEW t \in Tenant, NEW v \in RegistryProvider,
         Backed(p, t, v),
         registry'[p][t][v] = registry[p][t][v],
         \A i \in RowsOf(t, v) : integrations'[i] = integrations[i]
  PROVE  Backed(p, t, v)'
BY DEF Backed, RowsOf, Live

(* RegistryInv is inductive with one API process: a handler spoils at most  *)
(* the entry it will rewrite in its next step.                              *)
LEMMA RegistryInvariant == OneApiProcess /\ Spec => []RegistryInv
<1> SUFFICES ASSUME OneApiProcess PROVE Spec => []RegistryInv
  OBVIOUS
<1>1. Init => RegistryInv
  BY ConfigAssumption
     DEF Init, RegistryInv, Live, Backed, EmptyRegistry, Idle
<1>2. TypeOK /\ RegistryInv /\ [Next]_vars => RegistryInv'
  <2> SUFFICES ASSUME TypeOK, RegistryInv, [Next]_vars PROVE RegistryInv'
    OBVIOUS
  <2> USE DEF OneApiProcess
  <2>1. CASE UNCHANGED vars
    BY <2>1 DEF RegistryInv, Live, Backed, RowsOf, Pending, vars
  <2>2. ASSUME NEW p \in ApiProcess, NEW t \in Tenant,
               NEW e \in Endpoint \cup {NoEndpoint}, Onboard(p, t, e)
        PROVE  RegistryInv'
    BY <2>2 DEF Onboard, Become, Idle, TypeOK, RegistryInv, Live, Backed, RowsOf,
                Pending
  <2>3. ASSUME NEW p \in ApiProcess, NEW i \in Id, NEW row \in Integration,
               Insert(p, i, row), UNCHANGED registry,
               handler[p].step \in {"idle", "onboard"}
        PROVE  RegistryInv'
    <3>1. integrations[i] = NoRow /\ integrations'[i] = row
      BY <2>3 DEF Insert, TypeOK, RegistryInv, Live
    <3>2. (Live \subseteq issued)'
      BY <2>3 DEF Insert, TypeOK, RegistryInv, Live
    <3>3. handler'[p] = [step |-> "mirror", id |-> i, row |-> row]
      BY <2>3 DEF Insert, Become, TypeOK
    <3>4. ASSUME NEW t \in Tenant, NEW v \in RegistryProvider
          PROVE  Backed(p, t, v)'
      <4>1. Backed(p, t, v)
        BY <2>3 DEF RegistryInv, Pending
      <4>2. \A j \in RowsOf(t, v) : integrations'[j] = integrations[j]
        BY <2>3, <3>1 DEF Insert, RowsOf, Live, TypeOK
      <4> QED
        BY <2>3, <4>1, <4>2, BackedKept
    <3> QED
      BY <3>1, <3>2, <3>3, <3>4 DEF RegistryInv
  <2>4. ASSUME NEW p \in ApiProcess, NEW i \in Id, OnboardSource(p, i)
        PROVE  RegistryInv'
    <3>1. [tenant   |-> handler[p].tenant,
           provider |-> "opensearch",
           config   |-> handler[p].config] \in Integration
      <4>1. handler[p].tenant \in Tenant /\ handler[p].config \in Config
        BY <2>4 DEF OnboardSource, TypeOK, Handler
      <4> QED
        BY <4>1, ConfigAssumption DEF Integration
    <3> QED
      BY <2>3, <2>4, <3>1 DEF OnboardSource
  <2>5. ASSUME NEW p \in ApiProcess, NEW t \in Tenant, NEW v \in Provider,
               NEW c \in Config, NEW i \in Id, AddIntegration(p, t, v, c, i)
        PROVE  RegistryInv'
    <3>1. [tenant |-> t, provider |-> v, config |-> c] \in Integration
      BY DEF Integration
    <3> QED
      BY <2>3, <2>5, <3>1 DEF AddIntegration, Idle
  <2>6. ASSUME NEW p \in ApiProcess, NEW i \in Id, NEW c \in Config,
               UpdateIntegration(p, i, c)
        PROVE  RegistryInv'
    <3> DEFINE row == [integrations[i] EXCEPT !.config = c]
    <3>1. integrations[i] \in Integration /\ i \in Live
      BY <2>6, LiveRow DEF UpdateIntegration
    <3>2. /\ integrations' = [integrations EXCEPT ![i] = row]
          /\ handler'[p] = [step |-> "mirror", id |-> i, row |-> row]
          /\ UNCHANGED <<registry, issued>>
      BY <2>6 DEF UpdateIntegration, Become, TypeOK
    <3>3. /\ row.tenant = integrations[i].tenant
          /\ row.provider = integrations[i].provider
      BY <3>1 DEF Integration
    <3>4. integrations'[i] = row
      BY <3>2 DEF TypeOK
    <3>5. (Live \subseteq issued)'
      BY <3>1, <3>2 DEF TypeOK, RegistryInv, Live
    <3>6. ASSUME NEW t \in Tenant, NEW v \in RegistryProvider
          PROVE  (Backed(p, t, v) \/ Pending(p, t, v))'
      <4>1. CASE row.tenant = t /\ row.provider = v
        <5> HIDE DEF row
        <5>1. handler'[p].step = "mirror" /\ handler'[p].row = row
          BY <3>2
        <5> QED
          BY <4>1, <5>1 DEF Pending
      <4>2. CASE ~(row.tenant = t /\ row.provider = v)
        <5>1. \A j \in RowsOf(t, v) : integrations'[j] = integrations[j]
          BY <3>2, <3>3, <4>2 DEF RowsOf, Live, TypeOK
        <5>2. Backed(p, t, v)
          BY <2>6 DEF RegistryInv, Pending, UpdateIntegration, Idle
        <5> QED
          BY <3>2, <5>1, <5>2, BackedKept
      <4> QED
        BY <4>1, <4>2
    <3> QED
      BY <3>2, <3>4, <3>5, <3>6 DEF RegistryInv
  <2>7. ASSUME NEW p \in ApiProcess, Mirror(p)
        PROVE  RegistryInv'
    <3> DEFINE row == handler[p].row
    <3>1. /\ row \in Integration
          /\ handler[p].id \in Id
          /\ integrations[handler[p].id] = row
      BY <2>7 DEF Mirror, TypeOK, Handler, RegistryInv
    <3>2. handler'[p] = Idle /\ UNCHANGED <<integrations, issued>>
      BY <2>7 DEF Mirror, Become, TypeOK
    <3>3. ASSUME NEW t \in Tenant, NEW v \in RegistryProvider
          PROVE  Backed(p, t, v)'
      <4>1. CASE row.tenant = t /\ row.provider = v
        <5>1. registry'[p][t][v] = row.config
          BY <2>7, <4>1 DEF Mirror, TypeOK
        <5>2. handler[p].id \in RowsOf(t, v)'
          BY <3>1, <3>2, <4>1, ConfigAssumption DEF RowsOf, Live
        <5> QED
          BY <3>1, <3>2, <5>1, <5>2 DEF Backed
      <4>2. CASE ~(row.tenant = t /\ row.provider = v)
        <5>1. registry'[p][t][v] = registry[p][t][v]
          BY <2>7, <3>1, <4>2 DEF Mirror, TypeOK, Integration
        <5>2. Backed(p, t, v)
          BY <2>7, <4>2 DEF RegistryInv, Pending, Mirror
        <5> QED
          BY <3>2, <5>1, <5>2, BackedKept
      <4> QED
        BY <4>1, <4>2
    <3> QED
      BY <3>2, <3>3 DEF RegistryInv, Idle, Live
  <2>8. ASSUME NEW p \in ApiProcess, NEW i \in Id, TestIntegration(p, i)
        PROVE  RegistryInv'
    BY <2>8 DEF TestIntegration, Become, Idle, TypeOK, RegistryInv, Live, Backed,
                RowsOf, Pending
  <2>9. ASSUME NEW p \in ApiProcess, NEW ok \in BOOLEAN, TestAnswered(p, ok)
        PROVE  RegistryInv'
    <3> DEFINE i == handler[p].id
    <3>1. UNCHANGED <<integrations, issued, registry>>
      BY <2>9 DEF TestAnswered
    <3>2. \/ handler'[p] = Idle
          \/ handler'[p] = [step |-> "mirror", id |-> i, row |-> integrations[i]]
      BY <2>9 DEF TestAnswered, Become, TypeOK
    <3>3. ASSUME NEW t \in Tenant, NEW v \in RegistryProvider
          PROVE  Backed(p, t, v)'
      <4>1. Backed(p, t, v)
        BY <2>9 DEF RegistryInv, Pending, TestAnswered
      <4> QED
        BY <3>1, <4>1, BackedKept
    <3> QED
      BY <3>1, <3>2, <3>3 DEF RegistryInv, Idle, Live
  <2>10. ASSUME NEW p \in ApiProcess, NEW i \in Id, DeleteIntegration(p, i)
         PROVE  RegistryInv'
    <3> DEFINE row == integrations[i]
    <3>1. row \in Integration /\ i \in Live
      BY <2>10, LiveRow DEF DeleteIntegration
    <3>2. /\ integrations' = [integrations EXCEPT ![i] = NoRow]
          /\ handler'[p] = [step |-> "revoke", tenant |-> row.tenant,
                            provider |-> row.provider]
          /\ UNCHANGED <<registry, issued>>
      BY <2>10 DEF DeleteIntegration, Become, TypeOK
    <3>3. ASSUME NEW t \in Tenant, NEW v \in RegistryProvider
          PROVE  (Backed(p, t, v) \/ Pending(p, t, v))'
      <4>1. CASE row.tenant = t /\ row.provider = v
        BY <3>2, <4>1 DEF Pending
      <4>2. CASE ~(row.tenant = t /\ row.provider = v)
        <5>1. \A j \in RowsOf(t, v) : integrations'[j] = integrations[j]
          BY <3>2, <4>2 DEF RowsOf, Live, TypeOK
        <5>2. Backed(p, t, v)
          BY <2>10 DEF RegistryInv, Pending, DeleteIntegration, Idle
        <5> QED
          BY <3>2, <5>1, <5>2, BackedKept
      <4> QED
        BY <4>1, <4>2
    <3>4. (Live \subseteq issued)'
      BY <3>2 DEF TypeOK, RegistryInv, Live
    <3> QED
      BY <3>2, <3>3, <3>4 DEF RegistryInv
  <2>11. ASSUME NEW p \in ApiProcess, Revoke(p)
         PROVE  RegistryInv'
    <3> DEFINE s == handler[p].tenant
               w == handler[p].provider
    <3>1. handler'[p] = Idle /\ UNCHANGED <<integrations, issued>>
      BY <2>11 DEF Revoke, Become, TypeOK
    <3>2. ASSUME NEW t \in Tenant, NEW v \in RegistryProvider
          PROVE  Backed(p, t, v)'
      <4>1. CASE s = t /\ w = v
        <5>1. registry'[p][t][v] = NoRow
          BY <2>11, <4>1 DEF Revoke, TypeOK
        <5> QED
          BY <5>1 DEF Backed
      <4>2. CASE ~(s = t /\ w = v)
        <5>1. s \in Tenant
          BY <2>11 DEF Revoke, TypeOK, Handler
        <5>2. registry'[p][t][v] = registry[p][t][v]
          BY <2>11, <4>2, <5>1 DEF Revoke, TypeOK
        <5>3. Backed(p, t, v)
          BY <2>11, <4>2 DEF RegistryInv, Pending, Revoke
        <5> QED
          BY <3>1, <5>2, <5>3, BackedKept
      <4> QED
        BY <4>1, <4>2
    <3> QED
      BY <3>1, <3>2 DEF RegistryInv, Idle, Live
  <2>12. ASSUME NEW p \in ApiProcess, Crash(p)
         PROVE  RegistryInv'
    <3>1. /\ handler'[p] = Down
          /\ registry'[p] = EmptyRegistry
          /\ UNCHANGED <<integrations, issued>>
      BY <2>12 DEF Crash, Become, TypeOK
    <3> QED
      BY <3>1 DEF RegistryInv, Backed, EmptyRegistry, Down, Live
  <2>13. ASSUME NEW p \in ApiProcess, Rehydrate(p)
         PROVE  RegistryInv'
    <3>1. PICK skipped : \E r \in Replays(skipped) :
                            registry' = [registry EXCEPT ![p] = r]
      BY <2>13 DEF Rehydrate
    <3>2. PICK r \in Replays(skipped) : registry' = [registry EXCEPT ![p] = r]
      BY <3>1
    <3>3. /\ handler'[p] = Idle
          /\ registry'[p] = r
          /\ UNCHANGED <<integrations, issued>>
      BY <2>13, <3>2 DEF Rehydrate, Become, TypeOK
    <3>4. ASSUME NEW t \in Tenant, NEW v \in RegistryProvider
          PROVE  Backed(p, t, v)'
      <4>1. r[t][v] # NoRow => r[t][v] \in ReplayWinner(t, v)
        BY DEF Replays
      <4>2. r[t][v] # NoRow =>
              \E i \in RowsOf(t, v) : integrations[i].config = r[t][v]
        BY <4>1, ReplayIsBacked
      <4> QED
        BY <3>3, <4>2 DEF Backed, RowsOf, Live
    <3> QED
      BY <3>3, <3>4 DEF RegistryInv, Idle, Live
  <2> QED
    BY <2>1, <2>2, <2>4, <2>5, <2>6, <2>7, <2>8, <2>9, <2>10, <2>11, <2>12, <2>13, Steps
<1> QED
  BY <1>1, <1>2, TypeCorrect, PTL DEF Spec

(* Between two requests the one API process holds only connectors that are *)
(* stored, for the same tenant and provider, with their present config.    *)
THEOREM RegistryIsBacked == OneApiProcess /\ Spec => []RegistryBacked
<1>1. RegistryInv => RegistryBacked
  BY DEF RegistryInv, RegistryBacked, Pending, Idle
<1> QED
  BY <1>1, RegistryInvariant, PTL

-----------------------------------------------------------------------------
(* Tenants with one integration per provider, whose rows can be read.       *)

(* The entry c says what is stored for a tenant and provider, be it that     *)
(* nothing is; or it is empty where the last start found nothing to replay.  *)
Shows(t, v, c) ==
  /\ RowsOf(t, v) = {} => c = NoRow
  /\ \A i \in RowsOf(t, v) :
       \/ c = integrations[i].config
       \/ c = NoRow /\ ~(t \in directory /\ HasKey(integrations[i].config))

(* A steady tenant never has two rows of a provider, for one is added only    *)
(* where there is none, and when it is onboarded it has none at all; so the   *)
(* entry left by a handler or a replay is the entry of that row, if the       *)
(* replay takes it.                                                           *)
SteadyInv ==
  /\ \A i \in Id : <<i, i>> \notin staler
  /\ \A p \in ApiProcess :
       /\ handler[p].step = "onboard" /\ handler[p].tenant \in Steady =>
            \A v \in Provider : RowsOf(handler[p].tenant, v) = {}
       /\ handler[p].step = "revoke" /\ handler[p].tenant \in Steady =>
            RowsOf(handler[p].tenant, handler[p].provider) = {}
  /\ \A t \in Steady, v \in Provider : \A i, j \in RowsOf(t, v) : i = j
  /\ \A t \in Steady, v \in RegistryProvider, p \in ApiProcess :
       \/ handler[p] = Down
       \/ Pending(p, t, v)
       \/ Shows(t, v, registry[p][t][v])

(* Which rows a tenant has of a provider, and what they hold, depends on the  *)
(* rows of that tenant and provider alone.                                    *)
LEMMA ShowsKept ==
  ASSUME NEW t, NEW v, NEW c, Shows(t, v, c), RowsOf(t, v)' = RowsOf(t, v),
         \A i \in RowsOf(t, v) : integrations'[i] = integrations[i],
         directory' = directory
  PROVE  Shows(t, v, c)'
BY DEF Shows

(* Statements that write no row. *)
LEMMA SameRows ==
  ASSUME UNCHANGED integrations, NEW t, NEW v
  PROVE  RowsOf(t, v)' = RowsOf(t, v)
BY DEF RowsOf, Live

(* Making a row the newest puts no row before itself. *)
LEMMA TouchedIrreflexive ==
  ASSUME NEW i, NEW k, <<k, k>> \notin staler
  PROVE  <<k, k>> \notin Touched(i)
BY DEF Touched

(* A row is added to the rows of its tenant and provider, if its id is new. *)
LEMMA InsertAdds ==
  ASSUME TypeOK, RegistryInv, NEW p \in ApiProcess, NEW i \in Id,
         NEW row \in Integration, Insert(p, i, row), NEW t, NEW v
  PROVE  /\ row.tenant = t /\ row.provider = v =>
              RowsOf(t, v)' = RowsOf(t, v) \cup {i}
         /\ ~(row.tenant = t /\ row.provider = v) =>
              /\ RowsOf(t, v)' = RowsOf(t, v)
              /\ \A k \in RowsOf(t, v) : integrations'[k] = integrations[k]
<1>1. /\ integrations[i] = NoRow /\ integrations'[i] = row
      /\ \A k \in Id \ {i} : integrations'[k] = integrations[k]
  BY DEF Insert, TypeOK, RegistryInv, Live
<1>2. row # NoRow /\ i \notin RowsOf(t, v)
  BY <1>1, ConfigAssumption DEF RowsOf, Live
<1>3. \A k \in Id : k \in RowsOf(t, v)' <=>
        \/ k \in RowsOf(t, v)
        \/ k = i /\ row.tenant = t /\ row.provider = v
  BY <1>1, <1>2 DEF RowsOf, Live
<1>4. RowsOf(t, v) \subseteq Id /\ RowsOf(t, v)' \subseteq Id
  BY DEF RowsOf, Live
<1> QED
  BY <1>1, <1>2, <1>3, <1>4

LEMMA InsertKeepsSteady ==
  ASSUME OneApiProcess, TypeOK, RegistryInv, SteadyInv,
         NEW p \in ApiProcess, NEW i \in Id, NEW row \in Integration,
         Insert(p, i, row), UNCHANGED <<registry, directory>>,
         handler[p].step \in {"idle", "onboard"},
         row.tenant \in Steady => RowsOf(row.tenant, row.provider) = {}
  PROVE  SteadyInv'
<1>1. /\ \A k \in Id \ {i} : integrations'[k] = integrations[k]
      /\ integrations'[i] = row
  BY DEF Insert, TypeOK
<1>3. (\A k \in Id : <<k, k>> \notin staler)'
  BY TouchedIrreflexive DEF Insert, SteadyInv
<1>4. handler'[p].step = "mirror" /\ handler'[p].row = row
  BY DEF Insert, Become, TypeOK
<1>5. ASSUME NEW t \in Steady, NEW v \in Provider
      PROVE  \A k, j \in RowsOf(t, v)' : k = j
  <2>1. CASE row.tenant = t /\ row.provider = v
    BY <2>1, InsertAdds
  <2>2. CASE ~(row.tenant = t /\ row.provider = v)
    BY <2>2, InsertAdds DEF SteadyInv
  <2> QED
    BY <2>1, <2>2
<1>6. ASSUME NEW t \in Steady, NEW v \in RegistryProvider
      PROVE  Pending(p, t, v)' \/ Shows(t, v, registry[p][t][v])'
  <2>1. CASE row.tenant = t /\ row.provider = v
    BY <1>4, <2>1 DEF Pending
  <2>2. CASE ~(row.tenant = t /\ row.provider = v)
    <3>1. Shows(t, v, registry[p][t][v])
      BY DEF SteadyInv, Pending, Down
    <3>2. /\ RowsOf(t, v)' = RowsOf(t, v)
          /\ \A k \in RowsOf(t, v) : integrations'[k] = integrations[k]
      BY <2>2, InsertAdds
    <3> QED
      BY <3>1, <3>2 DEF Shows
  <2> QED
    BY <2>1, <2>2
<1>7. (/\ handler[p].step = "onboard" /\ handler[p].tenant \in Steady =>
            \A v \in Provider : RowsOf(handler[p].tenant, v) = {}
       /\ handler[p].step = "revoke" /\ handler[p].tenant \in Steady =>
            RowsOf(handler[p].tenant, handler[p].provider) = {})'
  BY <1>4
<1> QED
  BY <1>3, <1>5, <1>6, <1>7 DEF SteadyInv, OneApiProcess

(* Steps that write neither a row nor the registry, and leave the handler     *)
(* where it does not owe the registry anything.                               *)
LEMMA IdleKeepsSteady ==
  ASSUME OneApiProcess, TypeOK, SteadyInv, NEW p \in ApiProcess,
         UNCHANGED <<integrations, registry, directory>>,
         \A k \in Id : <<k, k>> \notin staler => <<k, k>> \notin staler',
         handler[p].step \in {"idle", "probe"},
         handler'[p].step \in {"idle", "probe", "mirror"}
  PROVE  SteadyInv'
<1>1. ASSUME NEW t \in Steady, NEW v \in RegistryProvider
      PROVE  Shows(t, v, registry[p][t][v])'
  <2>1. Shows(t, v, registry[p][t][v])
    BY DEF SteadyInv, Pending, Down
  <2> QED
    BY <2>1, SameRows DEF Shows
<1>2. \A t \in Steady, v \in Provider : \A k, j \in RowsOf(t, v)' : k = j
  BY SameRows DEF SteadyInv
<1> QED
  BY <1>1, <1>2 DEF SteadyInv, OneApiProcess

(* A replay gives a steady tenant the entry of its row. *)
LEMMA ReplayShows ==
  ASSUME SteadyInv, NEW skipped \in SUBSET StoreFaults,
         NEW r \in Replays(skipped),
         NEW t \in Steady, NEW v \in RegistryProvider
  PROVE  Shows(t, v, r[t][v])
<1>1. t \in Tenant /\ t \notin skipped /\ v \in Provider
  BY ConfigAssumption DEF Steady
<1>2. CASE t \notin directory \/ Replayable(t, v) = {}
  <2>1. r[t][v] = NoRow
    BY <1>1, <1>2 DEF Replays, ReplayWinner
  <2>2. \A i \in RowsOf(t, v) : ~(t \in directory /\ HasKey(integrations[i].config))
    BY <1>2 DEF Replayable
  <2> QED
    BY <2>1, <2>2 DEF Shows
<1>3. CASE t \in directory /\ Replayable(t, v) # {}
  <2>1. r[t][v] \in ReplayWinner(t, v)
    BY <1>1, <1>3 DEF Replays
  <2>2. PICK j \in RowsOf(t, v) : r[t][v] = integrations[j].config
    BY <1>3, <2>1 DEF ReplayWinner, Replayable
  <2>3. \A k \in RowsOf(t, v) : k = j
    BY <1>1, <2>2 DEF SteadyInv
  <2> QED
    BY <2>2, <2>3 DEF Shows
<1> QED
  BY <1>2, <1>3

(* Every step keeps the tenants with one integration per provider in step    *)
(* with their rows, when there is one API process.                            *)
LEMMA SteadyStep ==
  ASSUME OneApiProcess, TypeOK, RegistryInv, SteadyInv, [Next]_vars
  PROVE  SteadyInv'
<1>1. CASE UNCHANGED vars
  BY <1>1 DEF SteadyInv, Live, RowsOf, Pending, Shows, vars
<1>2. ASSUME NEW p \in ApiProcess, NEW t \in Tenant,
             NEW e \in Endpoint \cup {NoEndpoint}, Onboard(p, t, e)
      PROVE  SteadyInv'
  <2>1. /\ UNCHANGED <<integrations, issued, staler, registry>>
        /\ t \notin directory /\ directory' = directory \cup {t}
        /\ handler[p] = Idle
        /\ handler'[p].step = "onboard" /\ handler'[p].tenant = t
    BY <1>2 DEF Onboard, Become, TypeOK
  <2>2. t \in Steady => \A v \in Provider : RowsOf(t, v)' = {}
    BY <1>2, <2>1, SameRows DEF Onboard, MayOnboard, Steady
  <2>3. ASSUME NEW u \in Steady, NEW v \in RegistryProvider
        PROVE  Shows(u, v, registry[p][u][v])'
    <3>1. Shows(u, v, registry[p][u][v])
      BY <2>1 DEF SteadyInv, Pending, Down, Idle
    <3>2. RowsOf(u, v)' = RowsOf(u, v)
      BY <2>1, SameRows
    <3>3. u # t \/ RowsOf(u, v) = {}
      BY <2>2, <3>2, ConfigAssumption
    <3>4. \A i \in RowsOf(u, v) : u \in directory' <=> u \in directory
      BY <2>1, <3>3
    <3> QED
      BY <2>1, <3>1, <3>2, <3>4 DEF Shows, HasKey
  <2>4. \A u \in Steady, v \in Provider : \A k, j \in RowsOf(u, v)' : k = j
    BY <2>1, SameRows DEF SteadyInv
  <2> QED
    BY <2>1, <2>2, <2>3, <2>4 DEF SteadyInv, OneApiProcess
<1>3. ASSUME NEW p \in ApiProcess, NEW i \in Id, OnboardSource(p, i)
      PROVE  SteadyInv'
  <2> DEFINE row == [tenant   |-> handler[p].tenant,
                     provider |-> "opensearch",
                     config   |-> handler[p].config]
  <2>1. row \in Integration
    <3>1. handler[p].tenant \in Tenant /\ handler[p].config \in Config
      BY <1>3 DEF OnboardSource, TypeOK, Handler
    <3> QED
      BY <3>1, ConfigAssumption DEF Integration
  <2>2. row.tenant \in Steady => RowsOf(row.tenant, row.provider) = {}
    BY <1>3, ConfigAssumption DEF OnboardSource, SteadyInv
  <2> QED
    BY <1>3, <2>1, <2>2, InsertKeepsSteady DEF OnboardSource
<1>4. ASSUME NEW p \in ApiProcess, NEW t \in Tenant, NEW v \in Provider,
             NEW c \in Config, NEW i \in Id, AddIntegration(p, t, v, c, i)
      PROVE  SteadyInv'
  <2> DEFINE row == [tenant |-> t, provider |-> v, config |-> c]
  <2>1. row \in Integration
    BY DEF Integration
  <2>2. row.tenant \in Steady => RowsOf(row.tenant, row.provider) = {}
    BY <1>4 DEF AddIntegration, MayAdd, Steady
  <2> QED
    BY <1>4, <2>1, <2>2, InsertKeepsSteady DEF AddIntegration, Idle
<1>5. ASSUME NEW p \in ApiProcess, NEW i \in Id, NEW c \in Config,
             UpdateIntegration(p, i, c)
      PROVE  SteadyInv'
  <2> DEFINE row == [integrations[i] EXCEPT !.config = c]
  <2>1. integrations[i] \in Integration /\ i \in Live
    BY <1>5, LiveRow DEF UpdateIntegration
  <2>2. /\ row.tenant = integrations[i].tenant
        /\ row.provider = integrations[i].provider
        /\ row \in Integration
    BY <2>1 DEF Integration
  <2>3. /\ integrations' = [integrations EXCEPT ![i] = row]
        /\ handler'[p].step = "mirror" /\ handler'[p].row = row
        /\ UNCHANGED <<registry, issued, directory>>
        /\ staler' = Touched(i)
        /\ handler[p] = Idle
    BY <1>5 DEF UpdateIntegration, Become, TypeOK
  <2> HIDE DEF row
  <2>4. /\ integrations'[i] = row
        /\ \A k \in Id \ {i} : integrations'[k] = integrations[k]
    BY <2>3 DEF TypeOK
  <2>5. ASSUME NEW t, NEW v PROVE RowsOf(t, v)' = RowsOf(t, v)
    <3>1. row # NoRow
      BY <2>2, ConfigAssumption
    <3>2. \A k \in Id : k \in RowsOf(t, v)' <=> k \in RowsOf(t, v)
      BY <2>1, <2>2, <2>4, <3>1 DEF RowsOf, Live
    <3> QED
      BY <3>2 DEF RowsOf, Live
  <2>6. ASSUME NEW t \in Steady, NEW v \in RegistryProvider
        PROVE  (Pending(p, t, v) \/ Shows(t, v, registry[p][t][v]))'
    <3>1. CASE row.tenant = t /\ row.provider = v
      BY <2>3, <3>1 DEF Pending
    <3>2. CASE ~(row.tenant = t /\ row.provider = v)
      <4>1. Shows(t, v, registry[p][t][v])
        BY <2>3 DEF SteadyInv, Pending, Down, Idle
      <4>2. \A k \in RowsOf(t, v) : integrations'[k] = integrations[k]
        BY <2>2, <2>4, <3>2 DEF RowsOf, Live
      <4> QED
        BY <2>3, <2>5, <4>1, <4>2 DEF Shows
    <3> QED
      BY <3>1, <3>2
  <2>7. \A t \in Steady, v \in Provider : \A k, j \in RowsOf(t, v)' : k = j
    BY <2>5 DEF SteadyInv
  <2>9. (\A k \in Id : <<k, k>> \notin staler)'
    BY <2>3, TouchedIrreflexive DEF SteadyInv
  <2> QED
    BY <2>3, <2>6, <2>7, <2>9 DEF SteadyInv, OneApiProcess
<1>6. ASSUME NEW p \in ApiProcess, Mirror(p)
      PROVE  SteadyInv'
  <2> DEFINE row == handler[p].row
  <2>1. /\ row \in Integration
        /\ handler[p].id \in Id
        /\ integrations[handler[p].id] = row
    BY <1>6 DEF Mirror, TypeOK, Handler, RegistryInv
  <2>2. handler'[p] = Idle /\ UNCHANGED <<directory, integrations, issued, staler>>
    BY <1>6 DEF Mirror, Become, TypeOK
  <2>3. ASSUME NEW t \in Steady, NEW v \in RegistryProvider
        PROVE  Shows(t, v, registry[p][t][v])'
    <3>0. t \in Tenant /\ v \in Provider
      BY ConfigAssumption DEF Steady
    <3>1. CASE row.tenant = t /\ row.provider = v
      <4>1. registry'[p][t][v] = row.config
        BY <1>6, <3>0, <3>1 DEF Mirror, TypeOK
      <4>2. handler[p].id \in RowsOf(t, v)
        BY <2>1, <3>1, ConfigAssumption DEF RowsOf, Live
      <4>3. \A k \in RowsOf(t, v) : k = handler[p].id
        BY <3>0, <4>2 DEF SteadyInv
      <4>4. RowsOf(t, v)' = RowsOf(t, v)
        BY <2>2, SameRows
      <4> QED
        BY <2>1, <2>2, <4>1, <4>2, <4>3, <4>4 DEF Shows
    <3>2. CASE ~(row.tenant = t /\ row.provider = v)
      <4>1. registry'[p][t][v] = registry[p][t][v]
        BY <1>6, <2>1, <3>0, <3>2 DEF Mirror, TypeOK, Integration
      <4>2. Shows(t, v, registry[p][t][v])
        BY <1>6, <3>2 DEF SteadyInv, Pending, Mirror, Down
      <4> QED
        BY <2>2, <4>1, <4>2, SameRows DEF Shows
    <3> QED
      BY <3>1, <3>2
  <2>4. \A t \in Steady, v \in Provider : \A k, j \in RowsOf(t, v)' : k = j
    BY <2>2, SameRows DEF SteadyInv
  <2> QED
    BY <2>2, <2>3, <2>4 DEF SteadyInv, OneApiProcess, Idle
<1>7. ASSUME NEW p \in ApiProcess, NEW i \in Id, TestIntegration(p, i)
      PROVE  SteadyInv'
  <2>1. handler[p].step = "idle" /\ handler'[p].step = "probe"
    BY <1>7 DEF TestIntegration, Become, TypeOK, Idle
  <2> QED
    BY <1>7, <2>1, IdleKeepsSteady DEF TestIntegration
<1>8. ASSUME NEW p \in ApiProcess, NEW ok \in BOOLEAN, TestAnswered(p, ok)
      PROVE  SteadyInv'
  <2>1. /\ handler[p].step = "probe"
        /\ \/ handler'[p] = Idle
           \/ handler'[p] = [step |-> "mirror", id |-> handler[p].id,
                             row |-> integrations[handler[p].id]]
    BY <1>8 DEF TestAnswered, Become, TypeOK
  <2>2. handler'[p].step \in {"idle", "mirror"}
    BY <2>1 DEF Idle
  <2>3. staler' = Touched(handler[p].id) \/ staler' = staler
    BY <1>8 DEF TestAnswered
  <2>4. \A k \in Id : <<k, k>> \notin staler => <<k, k>> \notin staler'
    BY <2>3, TouchedIrreflexive
  <2> QED
    BY <1>8, <2>1, <2>2, <2>4, IdleKeepsSteady DEF TestAnswered
<1>9. ASSUME NEW p \in ApiProcess, NEW i \in Id, DeleteIntegration(p, i)
      PROVE  SteadyInv'
  <2>0. PICK row : row = integrations[i]
    OBVIOUS
  <2>1. row \in Integration /\ i \in Live
    BY <1>9, <2>0, LiveRow DEF DeleteIntegration
  <2>2. /\ integrations' = [integrations EXCEPT ![i] = NoRow]
        /\ handler'[p] = [step |-> "revoke", tenant |-> row.tenant,
                          provider |-> row.provider]
        /\ UNCHANGED <<registry, issued, directory>>
        /\ staler' \subseteq staler
        /\ handler[p] = Idle
    BY <1>9, <2>0 DEF DeleteIntegration, Become, TypeOK
  <2>3. /\ integrations'[i] = NoRow
        /\ \A k \in Id \ {i} : integrations'[k] = integrations[k]
    BY <2>2 DEF TypeOK
  <2>4. ASSUME NEW t, NEW v PROVE RowsOf(t, v)' = RowsOf(t, v) \ {i}
    <3>1. \A k \in Id : k \in RowsOf(t, v)' <=> k \in RowsOf(t, v) /\ k # i
      BY <2>1, <2>3 DEF RowsOf, Live
    <3> QED
      BY <3>1 DEF RowsOf, Live
  <2>5. ASSUME NEW t \in Steady, NEW v \in RegistryProvider
        PROVE  (Pending(p, t, v) \/ Shows(t, v, registry[p][t][v]))'
    <3>1. CASE row.tenant = t /\ row.provider = v
      BY <2>2, <3>1 DEF Pending
    <3>2. CASE ~(row.tenant = t /\ row.provider = v)
      <4>1. Shows(t, v, registry[p][t][v])
        BY <2>2 DEF SteadyInv, Pending, Down, Idle
      <4>2. i \notin RowsOf(t, v)
        BY <2>0, <3>2 DEF RowsOf
      <4>3. RowsOf(t, v)' = RowsOf(t, v)
        BY <2>4, <4>2
      <4>4. \A k \in RowsOf(t, v) : integrations'[k] = integrations[k]
        BY <2>3, <4>2 DEF RowsOf, Live
      <4> QED
        BY <2>2, <4>1, <4>3, <4>4 DEF Shows
    <3> QED
      BY <3>1, <3>2
  <2>6. \A t \in Steady, v \in Provider : \A k, j \in RowsOf(t, v)' : k = j
    BY <2>4 DEF SteadyInv
  <2>8. row.tenant \in Steady => RowsOf(row.tenant, row.provider)' = {}
    <3>1. row.provider \in Provider
      BY <2>1 DEF Integration
    <3>2. i \in RowsOf(row.tenant, row.provider)
      BY <2>0, <2>1 DEF RowsOf
    <3> QED
      BY <2>4, <3>1, <3>2 DEF SteadyInv
  <2>9. /\ handler'[p].step = "revoke"
        /\ handler'[p].tenant = row.tenant /\ handler'[p].provider = row.provider
    BY <2>2
  <2>10. (/\ handler[p].step = "onboard" /\ handler[p].tenant \in Steady =>
               \A v \in Provider : RowsOf(handler[p].tenant, v) = {}
          /\ handler[p].step = "revoke" /\ handler[p].tenant \in Steady =>
               RowsOf(handler[p].tenant, handler[p].provider) = {})'
    BY <2>8, <2>9 DEF RowsOf, Live
  <2> QED
    BY <2>2, <2>5, <2>6, <2>10 DEF SteadyInv, OneApiProcess
<1>10. ASSUME NEW p \in ApiProcess, Revoke(p)
       PROVE  SteadyInv'
  <2> DEFINE s == handler[p].tenant
             w == handler[p].provider
  <2>1. handler'[p] = Idle /\ UNCHANGED <<directory, integrations, issued, staler>>
    BY <1>10 DEF Revoke, Become, TypeOK
  <2>2. ASSUME NEW t \in Steady, NEW v \in RegistryProvider
        PROVE  Shows(t, v, registry[p][t][v])'
    <3>0. t \in Tenant /\ v \in Provider
      BY ConfigAssumption DEF Steady
    <3>1. CASE s = t /\ w = v
      <4>1. registry'[p][t][v] = NoRow
        BY <1>10, <3>0, <3>1 DEF Revoke, TypeOK
      <4>2. RowsOf(t, v) = {}
        BY <1>10, <3>1 DEF SteadyInv, Revoke
      <4> QED
        BY <2>1, <4>1, <4>2, SameRows DEF Shows
    <3>2. CASE ~(s = t /\ w = v)
      <4>1. s \in Tenant
        BY <1>10 DEF Revoke, TypeOK, Handler
      <4>2. registry'[p][t][v] = registry[p][t][v]
        BY <1>10, <3>0, <3>2, <4>1 DEF Revoke, TypeOK
      <4>3. Shows(t, v, registry[p][t][v])
        BY <1>10, <3>2 DEF SteadyInv, Pending, Revoke, Down
      <4> QED
        BY <2>1, <4>2, <4>3, SameRows DEF Shows
    <3> QED
      BY <3>1, <3>2
  <2>3. \A t \in Steady, v \in Provider : \A k, j \in RowsOf(t, v)' : k = j
    BY <2>1, SameRows DEF SteadyInv
  <2> QED
    BY <2>1, <2>2, <2>3 DEF SteadyInv, OneApiProcess, Idle
<1>11. ASSUME NEW p \in ApiProcess, Crash(p)
       PROVE  SteadyInv'
  <2>1. handler'[p] = Down /\ UNCHANGED <<directory, integrations, issued, staler>>
    BY <1>11 DEF Crash, Become, TypeOK
  <2>2. \A t \in Steady, v \in Provider : \A k, j \in RowsOf(t, v)' : k = j
    BY <2>1, SameRows DEF SteadyInv
  <2> QED
    BY <2>1, <2>2 DEF SteadyInv, OneApiProcess, Down
<1>12. ASSUME NEW p \in ApiProcess, Rehydrate(p)
       PROVE  SteadyInv'
  <2>1. PICK skipped \in SUBSET StoreFaults :
               \E r \in Replays(skipped) : registry' = [registry EXCEPT ![p] = r]
    BY <1>12 DEF Rehydrate
  <2>2. PICK r \in Replays(skipped) : registry' = [registry EXCEPT ![p] = r]
    BY <2>1
  <2>3. /\ handler'[p] = Idle
        /\ registry'[p] = r
        /\ UNCHANGED <<directory, integrations, issued, staler>>
    BY <1>12, <2>2 DEF Rehydrate, Become, TypeOK
  <2>4. ASSUME NEW t \in Steady, NEW v \in RegistryProvider
        PROVE  Shows(t, v, registry[p][t][v])'
    <3>1. Shows(t, v, r[t][v])
      BY ReplayShows
    <3> QED
      BY <2>3, <3>1, SameRows DEF Shows
  <2>5. \A t \in Steady, v \in Provider : \A k, j \in RowsOf(t, v)' : k = j
    BY <2>3, SameRows DEF SteadyInv
  <2> QED
    BY <2>3, <2>4, <2>5 DEF SteadyInv, OneApiProcess, Idle
<1> QED
  BY <1>1, <1>2, <1>3, <1>4, <1>5, <1>6, <1>7, <1>8, <1>9, <1>10, <1>11, <1>12, Steps

LEMMA SteadyInvariant == OneApiProcess /\ Spec => []SteadyInv
<1> SUFFICES ASSUME OneApiProcess PROVE Spec => []SteadyInv
  OBVIOUS
<1>1. Init => SteadyInv
  <2> SUFFICES ASSUME Init PROVE SteadyInv
    OBVIOUS
  <2>1. \A t, v : RowsOf(t, v) = {}
    BY DEF Init, RowsOf, Live
  <2>2. \A t \in Steady, v \in RegistryProvider, p \in ApiProcess :
          registry[p][t][v] = NoRow
    BY DEF Init, EmptyRegistry, Steady
  <2> QED
    BY <2>1, <2>2 DEF Init, SteadyInv, Live, Shows, Idle
<1>2. TypeOK /\ RegistryInv /\ SteadyInv /\ [Next]_vars => SteadyInv'
  BY SteadyStep
<1>3. Spec => []RegistryInv
  BY RegistryInvariant, PTL
<1> QED
  BY <1>1, <1>2, <1>3, TypeCorrect, PTL DEF Spec

(* Between two requests a restart would change nothing for a tenant of the   *)
(* directory with one integration per provider, whose rows can be read and   *)
(* have their url or api_key.                                                *)
THEOREM RestartKeepsWhatWasServed == OneApiProcess /\ Spec => []RestartKeepsSteady
<1>1. ASSUME TypeOK, SteadyInv, Quiescent, NEW p \in ApiProcess,
             NEW t \in Steady, NEW v \in RegistryProvider, Restorable(t, v)
      PROVE  Resolve(p, t, v) \in {Leads(v, c) : c \in ReplayWinner(t, v)}
  <2> DEFINE c == registry[p][t][v]
  <2>1. Shows(t, v, c) /\ v \in Provider /\ t \in Tenant
    BY <1>1, ConfigAssumption DEF SteadyInv, Quiescent, Idle, Down, Pending, Steady
  <2>2. c \in ReplayWinner(t, v)
    <3>1. CASE RowsOf(t, v) = {}
      <4>1. c = NoRow /\ Replayable(t, v) = {}
        BY <2>1, <3>1 DEF Shows, Replayable
      <4> QED
        BY <4>1 DEF ReplayWinner
    <3>2. CASE RowsOf(t, v) # {}
      <4>1. PICK i : i \in RowsOf(t, v)
        BY <3>2
      <4>2. t \in directory /\ HasKey(integrations[i].config)
        BY <1>1, <4>1 DEF Restorable
      <4>3. c = integrations[i].config
        BY <2>1, <4>1, <4>2 DEF Shows
      <4>4. /\ \A k \in RowsOf(t, v) : k = i
            /\ <<i, i>> \notin staler
        BY <1>1, <2>1, <4>1 DEF SteadyInv, RowsOf, Live
      <4>5. i \in Replayable(t, v) /\ \A k \in Replayable(t, v) : k = i
        BY <4>1, <4>2, <4>4 DEF Replayable
      <4> QED
        BY <4>3, <4>4, <4>5 DEF ReplayWinner
    <3> QED
      BY <3>1, <3>2
  <2> QED
    BY <2>2 DEF Resolve
<1>2. TypeOK /\ SteadyInv => RestartKeepsSteady
  <2> SUFFICES ASSUME TypeOK, SteadyInv, Quiescent, NEW p \in ApiProcess,
                      NEW t \in Steady, NEW v \in RegistryProvider,
                      Restorable(t, v)
               PROVE  Resolve(p, t, v) \in
                        {Leads(v, c) : c \in IF t \in directory
                                             THEN ReplayWinner(t, v) ELSE {NoRow}}
    BY DEF RestartKeepsSteady, RestartKeeps
  <2>1. t \in directory
    BY DEF Restorable
  <2> QED
    BY <1>1, <2>1
<1> QED
  BY <1>2, TypeCorrect, SteadyInvariant, PTL

(* Between two requests a tenant with one integration per provider reaches   *)
(* what that integration says, if it granted it, and the default if not; a   *)
(* grant is out of use only if it could not have been restored.              *)
THEOREM GrantsAreServed == OneApiProcess /\ Spec => []ConnectorInUse
<1>1. ASSUME TypeOK, SteadyInv, Quiescent, NEW p \in ApiProcess,
             NEW t \in Steady, NEW v \in RegistryProvider
      PROVE  \/ Resolve(p, t, v) \in Offered(t, v)
             \/ /\ Resolve(p, t, v) = GlobalDefault
                /\ Offered(t, v) = {} \/ ~Restorable(t, v)
  <2> DEFINE c == registry[p][t][v]
  <2>1. Shows(t, v, c) /\ v \in Provider
    BY <1>1, ConfigAssumption DEF SteadyInv, Quiescent, Idle, Down, Pending
  <2>2. \A i, j \in RowsOf(t, v) : i = j
    BY <1>1, <2>1 DEF SteadyInv
  <2>3. CASE Usable(c)
    <3>1. PICK i \in RowsOf(t, v) : c = integrations[i].config
      BY <2>1, <2>3 DEF Shows, Usable
    <3>2. Served(v, c) \in Offered(t, v)
      BY <2>3, <3>1 DEF Offered, Usable, Granted
    <3> QED
      BY <2>3, <3>2 DEF Resolve, Leads
  <2>4. CASE ~Usable(c)
    <3>1. Resolve(p, t, v) = GlobalDefault
      BY <2>4 DEF Resolve, Leads
    <3>2. ASSUME NEW i \in RowsOf(t, v), integrations[i].config # Blank,
                 integrations[i].config.agent_access, Restorable(t, v)
          PROVE  FALSE
      <4>1. c = integrations[i].config
        BY <2>1, <3>2 DEF Shows, Restorable
      <4>2. c # NoRow
        BY <1>1, <4>1, LiveRow, ConfigAssumption DEF RowsOf, Integration
      <4> QED
        BY <2>4, <3>2, <4>1, <4>2 DEF Usable, Granted
    <3>3. Restorable(t, v) => Offered(t, v) = {}
      BY <3>2 DEF Offered
    <3> QED
      BY <3>1, <3>3
  <2> QED
    BY <2>3, <2>4
<1>2. TypeOK /\ SteadyInv => ConnectorInUse
  BY <1>1 DEF ConnectorInUse
<1> QED
  BY <1>2, TypeCorrect, SteadyInvariant, PTL

-----------------------------------------------------------------------------
(* A restart cures a stale registry, however many API processes wrote the  *)
(* rows meanwhile: what a process holds when it has replayed them is       *)
(* stored, for the same tenant and provider.                               *)
THEOREM RestartHealsRegistry == Spec => RestartHeals
<1>1. ASSUME TypeOK, [Next]_vars, NEW p \in ApiProcess,
             handler[p] = Down, handler'[p] = Idle,
             NEW t \in Tenant, NEW v \in RegistryProvider
      PROVE  Backed(p, t, v)'
  <2>1. Rehydrate(p)
    <3>1. Down # Idle
      BY DEF Down, Idle
    <3>2. ASSUME NEW q \in ApiProcess, NEW h,
                 Become(q, h), handler[q] # Down \/ h # Idle
          PROVE  FALSE
      BY <1>1, <3>1, <3>2 DEF Become, TypeOK
    <3>3. ASSUME NEW q \in ApiProcess, NEW x, NEW y, NEW z, NEW i,
                 \/ Onboard(q, x, y)
                 \/ OnboardSource(q, i)
                 \/ AddIntegration(q, x, y, z, i)
                 \/ UpdateIntegration(q, i, z)
                 \/ TestIntegration(q, i)
                 \/ DeleteIntegration(q, i)
                 \/ Crash(q)
          PROVE  FALSE
      BY <3>1, <3>2, <3>3
         DEF Onboard, OnboardSource, AddIntegration, Insert, UpdateIntegration,
             TestIntegration, DeleteIntegration, Crash, Idle, Down
    <3>4. ASSUME NEW q \in ApiProcess, NEW ok \in BOOLEAN,
                 Mirror(q) \/ TestAnswered(q, ok) \/ Revoke(q)
          PROVE  FALSE
      BY <3>2, <3>4 DEF Mirror, TestAnswered, Revoke, Down
    <3>5. ASSUME NEW q \in ApiProcess, Rehydrate(q), q # p
          PROVE  FALSE
      BY <1>1, <3>1, <3>5 DEF Rehydrate, Become, TypeOK
    <3>6. ~UNCHANGED vars
      BY <1>1, <3>1 DEF vars
    <3> QED
      BY <1>1, <3>3, <3>4, <3>5, <3>6, Steps
  <2>2. PICK skipped : \E r \in Replays(skipped) :
                          registry' = [registry EXCEPT ![p] = r]
    BY <2>1 DEF Rehydrate
  <2>3. PICK r \in Replays(skipped) : registry' = [registry EXCEPT ![p] = r]
    BY <2>2
  <2>4. registry'[p] = r /\ UNCHANGED integrations
    BY <1>1, <2>1, <2>3 DEF Rehydrate, TypeOK
  <2>5. r[t][v] # NoRow => r[t][v] \in ReplayWinner(t, v)
    BY DEF Replays
  <2>6. r[t][v] # NoRow =>
          \E i \in RowsOf(t, v) : integrations[i].config = r[t][v]
    BY <2>5, ReplayIsBacked
  <2> QED
    BY <2>4, <2>6 DEF Backed, RowsOf, Live
<1>2. TypeOK /\ [Next]_vars =>
        [\A p \in ApiProcess :
           handler[p] = Down /\ handler'[p] = Idle =>
             \A t \in Tenant, v \in RegistryProvider : Backed(p, t, v)']_vars
  BY <1>1
<1> QED
  BY <1>2, TypeCorrect, PTL DEF Spec, RestartHeals
=============================================================================
