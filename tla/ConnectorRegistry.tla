-------------------------- MODULE ConnectorRegistry --------------------------
(***************************************************************************)
(* The tenant connector hub: integrations are rows of aegis.records, and   *)
(* every process that serves requests keeps, in its own memory, a registry *)
(* (tenant, provider) -> config which the detection engine, the routers    *)
(* and the agents' tools read to reach the tenant's OpenSearch cluster or  *)
(* to use the tenant's OpenRouter key (aegis_core/connectors.py).          *)
(*                                                                         *)
(* The rows are durable (PERSISTENCE=postgres); the registry is lost with  *)
(* its process and rebuilt by rehydrate_connectors at startup.  A route    *)
(* handler contains no await, so a process runs one handler at a time;     *)
(* its database statements and its registry write are separate steps, at   *)
(* which other processes, reader threads and crashes interleave.           *)
(***************************************************************************)
EXTENDS FiniteSets

CONSTANTS
  Tenant,             \* tenant ids
  Provider,           \* every provider an integration can name
  RegistryProvider,   \* the providers mirrored into the registry
  Id,                 \* integration ids; uuid4, never issued twice
  Endpoint,           \* what a config points at: a cluster url or an API key
  NoEndpoint,         \* the url or api_key is absent or blank
  Model,              \* the models an openrouter config can pin
  NoModel,            \* no model is pinned
  Blank,              \* the empty config dict
  Default,            \* the global default of Settings
  NoRow,              \* no row, no registry entry
  ApiProcess,         \* processes running apps.api.main
  Duplicates,         \* workload: tenants with several rows of a provider
  StoreFaults         \* the tenants whose rows a start may fail to read

(* A config is a dict, taken from the request as it comes: the empty one, or   *)
(* one with or without the url or api_key that its provider is reached by, a   *)
(* pinned model, and an agent_access grant.                                    *)
Config ==
  [endpoint     : Endpoint \cup {NoEndpoint},
   model        : Model \cup {NoModel},
   agent_access : BOOLEAN] \cup {Blank}

Integration == [tenant : Tenant, provider : Provider, config : Config]

ASSUME ConfigAssumption ==
  /\ RegistryProvider \subseteq Provider
  /\ "opensearch" \in RegistryProvider
  /\ Duplicates \subseteq Tenant
  /\ StoreFaults \subseteq Tenant
  /\ Blank \notin [endpoint     : Endpoint \cup {NoEndpoint},
                   model        : Model \cup {NoModel},
                   agent_access : BOOLEAN]
  /\ NoRow \notin Config
  /\ NoRow \notin Integration
  /\ {Default, NoEndpoint} \cap Endpoint = {}
  /\ NoModel \notin Model

VARIABLES
  directory,      \* aegis.tenants: the onboarded tenants
  integrations,   \* aegis.records of kind "integration", by id
  issued,         \* the ids given out so far
  staler,         \* <<i, j>>: row i was updated before row j (updated_at)
  registry,       \* registry[p][t][v]: the connector registry of process p
  handler         \* what each API process is in the middle of

vars == <<directory, integrations, issued, staler, registry, handler>>

Idle == [step |-> "idle"]
Down == [step |-> "down"]

Handler ==
       [step : {"idle", "down"}]
  \cup [step : {"onboard"}, tenant : Tenant, config : Config]
  \cup [step : {"mirror"}, id : Id, row : Integration]
  \cup [step : {"probe"}, id : Id, row : Integration]
  \cup [step : {"revoke"}, tenant : Tenant, provider : Provider]

EmptyRegistry == [t \in Tenant |-> [v \in RegistryProvider |-> NoRow]]

TypeOK ==
  /\ directory \subseteq Tenant
  /\ integrations \in [Id -> Integration \cup {NoRow}]
  /\ issued \subseteq Id
  /\ staler \subseteq Id \X Id
  /\ registry \in
       [ApiProcess -> [Tenant -> [RegistryProvider -> Config \cup {NoRow}]]]
  /\ handler \in [ApiProcess -> Handler]

-----------------------------------------------------------------------------
(* Reading: config_for, opensearch_for_tenant and openrouter_for_tenant.    *)

Live == {i \in Id : integrations[i] # NoRow}

RowsOf(t, v) ==
  {i \in Live : integrations[i].tenant = t /\ integrations[i].provider = v}

(* bool(config.get("agent_access", True)): a blank config counts as granted. *)
Granted(c) == c = Blank \/ c.agent_access

(* mutant: the grant is not looked at *)
Usable_IgnoresGrant(c) == c \notin {NoRow, Blank}

(* config_for hands out a config only if it was granted and is not empty. *)
Usable(c) == c \notin {NoRow, Blank} /\ Granted(c)

(* Does a config have the url or the api_key it needs? *)
HasKey(c) == c # Blank /\ c.endpoint # NoEndpoint

(* What a usable config leads to.  opensearch_from_config takes it as it is,   *)
(* and falls back to a url of its own that is not the global default;          *)
(* openrouter_for_tenant uses the global key when the config has none, with    *)
(* the model the config pins.                                                  *)
Served(v, c) ==
  [endpoint |-> IF v # "opensearch" /\ c.endpoint = NoEndpoint
                THEN Default ELSE c.endpoint,
   model    |-> c.model]

GlobalDefault == [endpoint |-> Default, model |-> NoModel]

(* Where an entry of the registry sends a tenant's traffic for provider v. *)
Leads(v, c) == IF Usable(c) THEN Served(v, c) ELSE GlobalDefault

Resolve(p, t, v) == Leads(v, registry[p][t][v])

-----------------------------------------------------------------------------
(* Effects shared by the handlers. *)

(* Writing row i makes it the most recently updated one. *)
Touched(i) ==
       {e \in staler : e[1] # i /\ e[2] # i}
  \cup {<<j, i>> : j \in Live \ {i}}

Become(p, h) == handler' = [handler EXCEPT ![p] = h]

Insert(p, i, row) ==
  /\ i \notin issued
  /\ issued' = issued \cup {i}
  /\ integrations' = [integrations EXCEPT ![i] = row]
  /\ staler' = Touched(i)
  /\ Become(p, [step |-> "mirror", id |-> i, row |-> row])

(* Workload: the other tenants have one integration per provider, ... *)
MayAdd(t, v) == t \in Duplicates \/ RowsOf(t, v) = {}

(* ... and are onboarded before they have any, or never. *)
MayOnboard(t) == t \in Duplicates \/ \A v \in Provider : RowsOf(t, v) = {}

(* Only an openrouter config pins a model that somebody reads. *)
Accepted(v) ==
  {c \in Config : v # "openrouter" /\ c # Blank => c.model = NoModel}

-----------------------------------------------------------------------------
Init ==
  /\ directory = {}
  /\ integrations = [i \in Id |-> NoRow]
  /\ issued = {}
  /\ staler = {}
  /\ registry = [p \in ApiProcess |-> EmptyRegistry]
  /\ handler = [p \in ApiProcess |-> Idle]

(* POST /tenants and /tenants/bootstrap, first the directory row: aegis.tenants *)
(* has the tenant id as its key, so a second insert fails.                      *)
Onboard(p, t, e) ==
  /\ handler[p] = Idle
  /\ t \notin directory
  /\ MayOnboard(t)
  /\ directory' = directory \cup {t}
  /\ Become(p, [step |-> "onboard", tenant |-> t,
                config |-> [endpoint |-> e, model |-> NoModel,
                            agent_access |-> TRUE]])
  /\ UNCHANGED <<integrations, issued, staler, registry>>

(* ... then the OpenSearch integration, connected or in error. *)
OnboardSource(p, i) ==
  /\ handler[p].step = "onboard"
  /\ Insert(p, i, [tenant   |-> handler[p].tenant,
                   provider |-> "opensearch",
                   config   |-> handler[p].config])
  /\ UNCHANGED <<directory, registry>>

(* POST /integrations, of any tenant a token names, onboarded or not. *)
AddIntegration(p, t, v, c, i) ==
  /\ handler[p] = Idle
  /\ MayAdd(t, v)
  /\ Insert(p, i, [tenant |-> t, provider |-> v, config |-> c])
  /\ UNCHANGED <<directory, registry>>

(* PATCH /integrations/{id}: the config is replaced as a whole, or kept. *)
UpdateIntegration(p, i, c) ==
  /\ handler[p] = Idle
  /\ i \in Live
  /\ LET row == [integrations[i] EXCEPT !.config = c] IN
       /\ integrations' = [integrations EXCEPT ![i] = row]
       /\ Become(p, [step |-> "mirror", id |-> i, row |-> row])
  /\ staler' = Touched(i)
  /\ UNCHANGED <<directory, issued, registry>>

(* mutant: rows of every provider but the data provider are mirrored *)
Mirror_SkipsData(p) ==
  /\ handler[p].step = "mirror"
  /\ LET row == handler[p].row IN
       registry' = IF row.provider \in RegistryProvider \ {"opensearch"}
                   THEN [registry EXCEPT
                           ![p][row.tenant][row.provider] = row.config]
                   ELSE registry
  /\ Become(p, Idle)
  /\ UNCHANGED <<directory, integrations, issued, staler>>

(* mutant: the whole row is put into the registry *)
Mirror_WholeRow(p) ==
  /\ handler[p].step = "mirror"
  /\ LET row == handler[p].row IN
       registry' = IF row.provider \in RegistryProvider
                   THEN [registry EXCEPT ![p][row.tenant][row.provider] = row]
                   ELSE registry
  /\ Become(p, Idle)
  /\ UNCHANGED <<directory, integrations, issued, staler>>

(* _sync_registry, with the row the database statement returned. *)
Mirror(p) ==
  /\ handler[p].step = "mirror"
  /\ LET row == handler[p].row IN
       registry' = IF row.provider \in RegistryProvider
                   THEN [registry EXCEPT
                           ![p][row.tenant][row.provider] = row.config]
                   ELSE registry
  /\ Become(p, Idle)
  /\ UNCHANGED <<directory, integrations, issued, staler>>

(* POST /integrations/{id}/test reads the row and probes its endpoint, ... *)
TestIntegration(p, i) ==
  /\ handler[p] = Idle
  /\ i \in Live
  /\ Become(p, [step |-> "probe", id |-> i, row |-> integrations[i]])
  /\ UNCHANGED <<directory, integrations, issued, staler, registry>>

(* What ping_connector can say of a row: a cluster answers or not, whatever  *)
(* url that is, a key can only be good if there is one, and other providers  *)
(* are not called at all.                                                    *)
Pings(row) ==
  CASE row.provider = "opensearch" -> BOOLEAN
    [] row.provider = "openrouter" ->
         IF HasKey(row.config) THEN BOOLEAN ELSE {FALSE}
    [] OTHER -> {row.config # Blank}

(* ... writes status and health, and mirrors the row if the probe succeeded. *)
(* A row deleted meanwhile fails the handler's assertion.                    *)
TestAnswered(p, ok) ==
  /\ handler[p].step = "probe"
  /\ ok \in Pings(handler[p].row)
  /\ LET i == handler[p].id IN
       IF i \in Live
       THEN /\ staler' = Touched(i)
            /\ Become(p, IF ok THEN [step |-> "mirror", id |-> i,
                                     row |-> integrations[i]]
                               ELSE Idle)
       ELSE /\ Become(p, Idle)
            /\ UNCHANGED staler
  /\ UNCHANGED <<directory, integrations, issued, registry>>

(* DELETE /integrations/{id}: the row, ... *)
DeleteIntegration(p, i) ==
  /\ handler[p] = Idle
  /\ i \in Live
  /\ integrations' = [integrations EXCEPT ![i] = NoRow]
  /\ staler' = {e \in staler : e[1] # i /\ e[2] # i}
  /\ Become(p, [step |-> "revoke", tenant |-> integrations[i].tenant,
                provider |-> integrations[i].provider])
  /\ UNCHANGED <<directory, issued, registry>>

(* mutant: deleting an integration leaves the registry alone *)
Revoke_Forgotten(p) ==
  /\ handler[p].step = "revoke"
  /\ Become(p, Idle)
  /\ UNCHANGED <<directory, integrations, issued, staler, registry>>

(* ... then the registry entry of its provider, whichever row it came from. *)
Revoke(p) ==
  /\ handler[p].step = "revoke"
  /\ LET t == handler[p].tenant
         v == handler[p].provider
     IN registry' = IF v \in RegistryProvider
                    THEN [registry EXCEPT ![p][t][v] = NoRow]
                    ELSE registry
  /\ Become(p, Idle)
  /\ UNCHANGED <<directory, integrations, issued, staler>>

(* A process dies: its registry and the handler it was running are gone. *)
Crash(p) ==
  /\ handler[p] # Down
  /\ registry' = [registry EXCEPT ![p] = EmptyRegistry]
  /\ Become(p, Down)
  /\ UNCHANGED <<directory, integrations, issued, staler>>

(* mutant: rows are replayed without looking at their provider *)
Replayable_AnyProvider(t, v) ==
  {i \in Live : /\ integrations[i].tenant = t
                /\ HasKey(integrations[i].config)}

(* The rows rehydrate_connectors replays: those with a url or an api_key. *)
Replayable(t, v) == {i \in RowsOf(t, v) : HasKey(integrations[i].config)}

(* PgRepo.list returns the most recently updated row first and every row     *)
(* overwrites the entry, so the least recently updated one stays.            *)
ReplayWinner(t, v) ==
  IF Replayable(t, v) = {} THEN {NoRow}
  ELSE {integrations[i].config :
          i \in {k \in Replayable(t, v) :
                   \A j \in Replayable(t, v) : <<j, k>> \notin staler}}

Stored == {integrations[i].config : i \in Live}

(* The registries a start may build when the tenants of "skipped" cannot be *)
(* read: it goes through the directory, so that the rows of a tenant that   *)
(* was never onboarded are not looked at.                                   *)
Replays(skipped) ==
  {r \in [Tenant -> [RegistryProvider -> Stored \cup {NoRow}]] :
     \A t \in Tenant, v \in RegistryProvider :
       r[t][v] \in IF t \in directory \ skipped
                   THEN ReplayWinner(t, v) ELSE {NoRow}}

(* lifespan: the registry is replayed before the first request is served; a *)
(* database error skips one tenant, or all of them, and never stops it.     *)
Rehydrate(p) ==
  /\ handler[p] = Down
  /\ \E skipped \in SUBSET StoreFaults :
       \E r \in Replays(skipped) : registry' = [registry EXCEPT ![p] = r]
  /\ Become(p, Idle)
  /\ UNCHANGED <<directory, integrations, issued, staler>>

Next ==
  \E p \in ApiProcess :
    \/ \E t \in Tenant, e \in Endpoint \cup {NoEndpoint} : Onboard(p, t, e)
    \/ \E i \in Id : OnboardSource(p, i)
    \/ \E t \in Tenant, v \in Provider : \E c \in Accepted(v), i \in Id :
         AddIntegration(p, t, v, c, i)
    \/ \E i \in Live : \E c \in Accepted(integrations[i].provider) :
         UpdateIntegration(p, i, c)
    \/ Mirror(p)
    \/ \E i \in Id : TestIntegration(p, i)
    \/ \E ok \in BOOLEAN : TestAnswered(p, ok)
    \/ \E i \in Id : DeleteIntegration(p, i)
    \/ Revoke(p)
    \/ Crash(p)
    \/ Rehydrate(p)

Spec == Init /\ [][Next]_vars

-----------------------------------------------------------------------------
(* Properties. *)

(* No handler is running: every process is up and idle. *)
Quiescent == \A p \in ApiProcess : handler[p] = Idle

(* The registry entry is empty or the present config of a stored row. *)
Backed(p, t, v) ==
  registry[p][t][v] # NoRow =>
    \E i \in RowsOf(t, v) : integrations[i].config = registry[p][t][v]

(* Between two requests, what an API process holds for a tenant and provider *)
(* is the present config of one of that tenant's stored integrations of that *)
(* provider: not one that was deleted, replaced, or belongs to another       *)
(* tenant.  It is what _sync_registry, the removal on DELETE and the replay  *)
(* at startup maintain together, crashes included, when there is one API     *)
(* process.                                                                  *)
RegistryBacked ==
  \A p \in ApiProcess : handler[p] = Idle =>
    \A t \in Tenant, v \in RegistryProvider : Backed(p, t, v)

(* The invariant behind it.  While a handler is between its row and its       *)
(* registry write, the one entry it is about to write may be out of date.     *)
Pending(p, t, v) ==
  \/ /\ handler[p].step = "mirror"
     /\ handler[p].row.tenant = t
     /\ handler[p].row.provider = v
  \/ /\ handler[p].step = "revoke"
     /\ handler[p].tenant = t
     /\ handler[p].provider = v

RegistryInv ==
  /\ Live \subseteq issued
  /\ \A p \in ApiProcess :
       /\ handler[p].step = "mirror" =>
            integrations[handler[p].id] = handler[p].row
       /\ \A t \in Tenant, v \in RegistryProvider :
            Backed(p, t, v) \/ Pending(p, t, v)

(* Whatever other processes changed while it was down or stale, a process    *)
(* that has just replayed the rows holds only connectors that are stored,    *)
(* each for its own tenant and provider: a restart cures a stale registry.   *)
RestartHeals ==
  [][\A p \in ApiProcess :
       handler[p] = Down /\ handler'[p] = Idle =>
         \A t \in Tenant, v \in RegistryProvider : Backed(p, t, v)']_vars

(* What a tenant resolves to is what the replay at startup would give it. *)
RestartKeeps(t, v) ==
  \A p \in ApiProcess :
    Resolve(p, t, v) \in
      {Leads(v, c) :
         c \in IF t \in directory THEN ReplayWinner(t, v) ELSE {NoRow}}

(* The replay finds what was saved of a tenant that is in the directory, as   *)
(* long as its rows have their url or api_key.                                *)
Restorable(t, v) ==
  /\ t \in directory
  /\ \A i \in RowsOf(t, v) : HasKey(integrations[i].config)

(* Between two requests a restart would change nothing of that                *)
(* (rehydrate_connectors, "replay every tenant's stored integration").        *)
RestartChangesNothing ==
  Quiescent =>
    \A t \in Tenant, v \in RegistryProvider :
      Restorable(t, v) => RestartKeeps(t, v)

(* It holds for tenants that have one integration per provider and whose rows *)
(* can be read, beside others that have several or are skipped at a start.    *)
Steady == Tenant \ (Duplicates \cup StoreFaults)

RestartKeepsSteady ==
  Quiescent =>
    \A t \in Steady, v \in RegistryProvider :
      Restorable(t, v) => RestartKeeps(t, v)

(* What the rows lead to that a tenant stored and granted for a provider. *)
Offered(t, v) ==
  {Served(v, integrations[i].config) :
     i \in {k \in RowsOf(t, v) : /\ integrations[k].config # Blank
                               /\ integrations[k].config.agent_access}}

(* Between two requests, a tenant with one integration per provider reaches   *)
(* what that integration says, cluster, key and model, when it granted it,    *)
(* and the default when it did not: the registry is neither behind a          *)
(* revocation nor short of a grant.  The exception is a grant that the last   *)
(* start could not restore, of a tenant that was never onboarded or of a row  *)
(* without url or api_key: it can also be out of use.                         *)
ConnectorInUse ==
  Quiescent =>
    \A p \in ApiProcess, t \in Steady, v \in RegistryProvider :
      \/ Resolve(p, t, v) \in Offered(t, v)
      \/ /\ Resolve(p, t, v) = GlobalDefault
         /\ Offered(t, v) = {} \/ ~Restorable(t, v)
=============================================================================
