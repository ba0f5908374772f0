# Aegis: a TLA+ model of the SOC platform

Aegis is a multi-tenant security operations platform: a FastAPI service keeps
tenants, rules, incidents, approvals and conversations in Postgres; an agents
service runs the language-model crew; OpenSearch clusters of the tenants hold
the telemetry and run alerting monitors; a Next.js console drives all of it.
Little of it computes much. What is hard is that one user action is several
writes in several places (a row, an in-process table, a monitor in a cluster, a
paused run in another service), that nothing ties those writes together, and
that between any two of them another request, a failure or a restart can come.
This directory models those sequences, checks them with TLC, and proves the most
important results with TLAPS.

Contents: 1 components, 2 modules, 3 runs and bounds, 4 fairness, 5 proofs,
6 what is not modelled, 7 where code and documentation disagree without a run,
8 plan.

## 1. The system

| Component | State | Operations | What is hard | What makes it correct |
|---|---|---|---|---|
| **Connector hub** (`routers/integrations.py`, `connectors.py`, `store.py`, `main.py` lifespan) | rows `aegis.records` of kind integration; a registry (tenant, provider) -> config in the memory of each process | add, update, test, delete; replay at startup; `opensearch_for_tenant` | row and registry are two writes; the registry dies with its process and is rebuilt from rows in another order | between requests the registry shows stored configs of its own tenant; a restart loses nothing that has its url or key; a revoked grant is not used |
| **Tenant onboarding** (`routers/tenants.py`) | directory, first integration | provision, rename, mint token | three writes without a transaction | the same |
| **Rules and monitors** (`routers/rules.py`, `monitor.py`, `tools/rules.py`) | rule rows; monitors in the cluster | CRUD, apply, deploy-yaml, import, toggle, delete; the crew's `rule_deploy`; removal from the console | row here, monitor there; either call may fail; Dashboards users delete monitors; access is revoked in between | one monitor per rule; no dangling ids; a deployed rule runs what it shows |
| **Detection to incidents** (`rules.py` run-now, `correlate.py`, `scheduler.py`, `persist.py`, `emit.py`) | incident rows, detection documents | run a rule, run the pipeline, retry it, triage | list, then create or refresh, one candidate at a time; failures and aborts half-way | one incident per correlation key; no match lost; triage stands; incidents rest on evidence |
| **Approvals** (`routers/approvals.py`, `agentos_client.py`, `agents/service.py`, `tools/soar.py`, `hooks.py`) | approval rows, paused runs | decide; resume over HTTP; tool call within hooks | a request that times out may still be carried out; decisions repeat; two threads resume one run; a run waits with several actions and is resumed as a whole | no destructive action before an approval of its run; none more often than the run was approved |
| **Audit chain** (`audit.py`) | per tenant: last hash, records | record, verify | threads record at once | the chain verifies, is complete, and shows tampering |
| **Assistant answers** (`agents/service.py`, `routers/assistant.py`, stream route, `assistant-chat.tsx`) | worker thread, queue, generator, frames | ask, stream, fail, disconnect | a generator that waits holds a thread of the server's only pool; sentinel and error order | texts whole and in order; never silent; every answer ends |
| **Assistant threads** (`routers/assistant.py`, `assistant-workspace.tsx`, `assistant-chat.tsx`) | conversation rows, the page's chat | open, load, leave, ask, upsert | answers, posts and loads arrive when the page shows another thread | one row per key; threads are not mixed; a reply lands where it was asked |
| **Record store** (`db.py`, `store.py`) | rows by tenant, kind, id | list, get, create, update, delete | autocommit per statement, list order by `updated_at`, lost updates | the two implementations agree |
| **Session and authorization** (`deps.py`, `rbac.py`, middleware, layout, `lib/api.ts`, proxy, login, tenant switch, drawer) | session and `aegis_token` cookies, kept tokens; what each tab has rendered | sign in and out, load, follow a link, switch, call | the middleware looks at the session, everything else at the token first; the cookie is every tab's | a page acts for the workspace it shows; redirects end |
| **Onboarding wizard** (`onboarding-wizard.tsx`) | step, source, test result, calls under way | test, provision, keep the token, switch in | inputs change under a test; a provisioning that succeeded may look failed | one workspace per attempt; what is provisioned was tested |
| **Console pages, cases, settings, autonomy** (`features/**`) | per page: drafts, copies, `busy`, `notice` | edit, save, deploy, comment, escalate, test, kill switch | replies out of order, several requests of which some fail, stale copies, pages left | what a page says it did is so; nothing else changes; no page is left spinning |
| **Pure parts** (windows and frequencies, deep merge, secrets, metrics, reports, search) | none | | boundaries | agreement with a reference definition |

How they interact. Every request passes `require_user`/`require_tenant`
(run in the server's thread pool) and then a handler on the event loop. The
handlers are `async def` but, except for `vibe_rule`, contain no `await`: one
process runs one handler at a time, and what interleaves is *other processes*
(docs/02-architecture.md:170 allows several), the pool's threads, the agents
service, the clusters and the browser. Handlers read the connector registry to
find a tenant's cluster; rules and detections go through it; incidents are rows
that the agents and analysts read and write; approvals resume runs in the agents
service, whose hooks write the audit chain.

`PROJECT.json` lists the components with their state of modelling, and the
hazards of the code at the lines where they bite.

## 2. The modules

| Module | Models | Variables | Granularity of a step |
|---|---|---|---|
| `ConnectorRegistry` | integrations, registry, replay, onboarding | `directory integrations issued staler registry handler` | one database statement or one registry write |
| `RuleDeployment` | rules, monitors, the console's removal | `rules used monitors status access handler console` | one database statement or one call of the cluster |
| `IncidentBridge` | run-now, pipeline, correlate, persist, triage | `rules incidents staler detections handler` | one statement or call; one candidate at a time |
| `AuditChain` | the hash chain and its lock | `lock last request read trail` | entering and leaving the lock |
| `ResponseGate` | decisions, resume, the tool call in its hooks | `approvals decided handler calls pending thread performed witnessed` and those of the chain | one statement, one request, one hook |
| `AnswerChannel` | abstract: what is promised of one answer | `said spoken shown outcome` | |
| `ArgusStream` | worker, queue, generator, pool, frames, console | `stage line worker events said queue sse wire console shown` | one queue operation, one step of the generator, one frame |
| `Conversations` | chats, loads, posts, the upsert | `rows issued chat loading asked replies posts` | one handler (it has no await), one callback of the page |
| `ConsolePages` | fifteen editing pages as tables: the requests of each button, what is done with the replies, when it is off | | |
| `ConsoleForms` | tabs that run those tables against the API | `page stored form jobs budget` | one press, one request served, one settled handler |
| `WebRouting` | who a browser is to the middleware, the server's reads, the proxy and the API | | |
| `WebSession` | tabs of a browser, redirects, switching, the wizard | `browser made expired tab wizard calls budget` | one redirect, one render, one call |

A process in the middle of a handler is a record in `handler`, whose `step`
names the place and whose other fields are the handler's local variables: what
it read before and will use after. In `ResponseGate` a decision also carries a number,
`nr`, which stands for the connection the answer comes back on: it tells apart two requests
of one run that a set would merge, and no receiver looks at it. `staler` is the order by `updated_at` that
`PgRepo.list` sorts by, kept as a relation so that no clock is needed. Ids are
uuid4 in the code; `issued`/`used` keep one from being given out twice.

Composition. `ResponseGate` instantiates `AuditChain` (`Audit`), shares its
variables, and takes its steps `Record`, `Enter`, `Leave` and `Restart` as parts
of the hooks' steps; that the gate implements the chain's specification is
proved. `ArgusStream` instantiates `AnswerChannel` with a refinement mapping;
that it implements it is checked and proved. `ConsoleForms` runs whatever tables `ConsolePages`
gives it: one machine (press, serve, settle) for all pages, and per page only
what differs. `WebSession` moves tabs about by the functions of `WebRouting`,
each of which is one of the places in the web app that decide who is there.
`RuleDeployment` sees the connector hub as the
status and grant of the tenant's integration (`Resolved` is
`opensearch_for_tenant`). `IncidentBridge` takes what a rule finds as any set
of entities.

How `ConsoleForms` corresponds to the code. Every editing page of the console is
written the same way: `setBusy(...)`, one or more awaited calls of
`/api/backend/...`, then `setX(reply)` and `setNotice(...)`, with a `catch` and
a `finally`. A row of `Handlers` says what a button's handler does at each of
those places, `View` which inputs there are and for which values of `busy` and of
the drafts a button is not `disabled`. A press makes a job, whose requests are
fixed by the drafts at that moment (they are values in a closure); the job is
served and settled later, and when the page has been left (`watched` is false) its
reply changes nothing. `stored` is the record as the API has it; the handlers of
the API do not await, so serving is one step. Fields hold one of two values, which
is enough to be different from what another tab has written.

How `ResponseGate` corresponds to the code. The API's half is `approvals.py` and
`agentos_client.py`. The request it sends, `POST /runs/{id}/continue`, is served by
AgentOS (`agentos_app.py` mounts it), which is agno's code and not in the
repository. The only place of the repository that says what a resume does is
`continue_paused` (`service.py:197-206`), and nothing calls it. The model takes from
it that *every* requirement of the run is confirmed, or every one rejected: the
approval names a tool, the request carries the name, and neither is looked at. The
other steps of the endpoint (`ContinuePaused`, `Taken`, `Proceed`) are external, and
`PROJECT.json` marks them so. The request does not say whose run it is either, and
`tenant_guard_hook` refuses a tool outside of a tenant's scope: `ContinuePaused` lets
the thread be `scoped` or not, and what is proved holds in both cases. `pending` are
the tool calls a run waits with, one or several, and a run that went on may pause
again, on others or on the same. So nothing is claimed of the action that was
approved, only of approvals of its run.

How `ConnectorRegistry` corresponds to the code. A config is the dict of the
request: empty (`Blank`), or with or without the url or api_key, the model that
an OpenRouter card pins, and the grant. What decides differs from place to place
and is kept apart: `Usable` (not empty and granted, `connectors.py:111-116`), `Served`
(which cluster, key and model that leads to), and `HasKey`, by which the
replay selects its rows (`store.py:198`, `:201`). `POST /integrations` takes any tenant a token
names, while the replay goes through the directory, so a tenant may have
integrations and never be onboarded.

How `WebSession` corresponds to the code. A tab is `asked` until the middleware
(`Route`) has let the request through or sent it elsewhere, `passed` until the
layout and the page are rendered (`Render`), and then `shown`. `header` is the
workspace in its header, `content` the one its rows were read for, `who` what the
drawer was told. A full load drops the header, a link keeps it, as Next.js keeps
a layout. The wizard's handlers are split at their awaits: `create` is a call of
kind "create", then "made", "activate", and "failed" wherever it throws. What it
swallows is there, too: the token of the new workspace may not be kept
(`onboarding-wizard.tsx:52`), and the wizard goes on all the same.

Four fields of a tab are not in the code; they say what its user asked for, so that
what the code makes of it can be held against it. `meant` is what the button
that was pressed had promised (`Promise`), not what the call carries: a row of the
drawer that says Open promises its workspace, one that says Default the default
one, the returns the default one, and the rows of the integrations page, which say
Open and reset, are held to their comment (`tenants-bar.tsx:17-18`). A row of
the drawer that said Default when it was rendered opens its own workspace if the
token is kept by the time of the press, so both are allowed there. `wanted` is the
page asked for, which no redirect changes; where the code forgets it, at the
middleware that meets a tab at the login when its browser is signed in elsewhere
(`middleware.ts:68-71`) and in a mailed link that is refused, `lost` is set, and such
a tab may end on the dashboard. `behind` says that the cookie was changed after the
layout was rendered.

Definitions named `X_Something` after a definition `X`, or `MF_Something`, are
faulty versions of one (each is introduced by a comment that begins with "mutant"): every property of a
passing run has one that breaks it, listed in `PROJECT.json`, which shows that
the property can fail.

What is abstracted, beside wording and formats: endpoints, queries, payloads and
keys are model values; a rule's YAML is its id, severity and kind; the monitor
JSON is query and threshold; hashes are injective terms (SHA-256 is taken to be
collision free); entities are numbers in the order in which `min` sorts them.
External parts are modelled from how the code uses them: the thread pool of
Starlette, deletion of monitors in OpenSearch Dashboards, the caller of
`run_pipeline` that retries.

## 3. The runs

| Run | Instance | What it shows |
|---|---|---|
| `Registry` | 2 tenants, onboarded or not, 2 registry providers and 1 other, 2 ids, 2 endpoints or none, 1 model or none, 1 process; one tenant adds a provider twice and its rows may be unreadable at startup | between requests the registry holds only stored configs of the same tenant and provider; so does a process that has just restarted; for the other tenant, what is resolved (cluster, key and model) is what was granted, and a restart would not change it, unless the row has no url or api_key or the tenant was never onboarded |
| `Registry_replay_order` | 1 tenant, 2 integrations of one provider | **violated**: requests leave the newest in the registry, the replay the least recently updated |
| `Rules` | 1 worker, 2 monitors, in two settings: 2 rules, no failures, imports of monitors that a rule owns; 1 rule, failures at every call, Dashboards, revocations | one running monitor per rule, and monitor ids name monitors that exist (where nothing fails); a rule not edited since runs the definition it shows; a stranded rule stays so until it is deleted |
| `Rules_console_removal` | 1 rule, 1 monitor, access can be revoked | **violated**: the console deletes the rule although its monitor was not deleted |
| `Incidents_one_worker` | 2 rules (plain, threshold), 2 entities, 3 incidents, 1 worker that may abort anywhere, triage, edits | one incident per key, the analyst's fields untouched, and the inductive invariant |
| `Incidents_concurrent` | 1 rule of 4 kinds (plain, without a name and of another grade, disabled, learning), run by hand and by the pipeline at once, failing, aborted and retried | an answered run has an incident for each key it found; the pipeline's incidents rest on indexed detections |
| `Response_gate` | 2 API processes, 2 threads, 1 run that waits with 1 or 2 actions and may pause again, 2 approvals of it, 2 decisions; lost, late and repeated requests; crashes of both services | no action before an approval of its run, none more often than the run was approved, a complete and verifying chain, no thread stuck |
| `Assistant_stream` | 2 questions over a pool of one thread, runs of at most 2 events, one of the questions faulty in every way | the stream implements the channel, is never silent, and ends |
| `Assistant_threads` | 2 pages, 1 incident thread, 2 fresh keys, 3 rows, 3 turns, faults | one row per key; no question in a row of another thread |
| `Assistant_reply` | the same | **violated**: the reply in a loaded thread creates a second row |
| `Console_forms` | every page in turn, 2 tabs on one record, 2 presses, 2 edits, 1 tab left or opened again | one request at a time where buttons are off; no page left spinning; a notice of success is true; a press changes what it means to and nothing else |
| `Web_session` | 2 tabs, 3 workspaces, both modes of login, a user with and without a workspace, 6 budgets of visits, switches, edits, tries and faults | a page acts for the workspace in its header; a switch opens what its button promised; a tab ends where its user asked to go, unless the code forgot it; redirects end; one workspace per attempt |

Bounds, all constants or guards named as bounds in the modules: `Id`,
`IncidentId`, `MonitorId`, `RowId` bound what can be created (`ToSpare` and
`MonitorToSpare` keep a handler from starting when it could not finish, so no
failure appears that the program does not have); `MaxVersion`, `MaxDecisions`,
`MaxEvents` and `MaxTurns` bound counters. They are enough because each hazard
needs few actors: two rows of one provider to differ in order, a second tenant
to be confused with, two monitors for one rule, two keys of one rule and a third
incident to be created in between, a decision that comes after one that timed
out, two actions of one run, one waiting answer to exhaust a pool of one and one more
question to be kept out by it, two threads and a page that has left the first.
In `ConsoleForms` `MaxPresses`, `MaxEdits` and `MaxOpens` bound what analysts do
in all tabs together: two presses are two requests of one page that cross, or one
of each tab; one edit before and one under a request is what can make a draft and
a copy differ. In `WebSession` `Bounds` is a set of budgets, each for one kind of
story (going about and signing in; a wizard with a failure; one whose inputs
change under a test; entering a new workspace and leaving it; one left alone by a
row of the integrations page; one whose token expires): a budget for all of them at
once is too large for TLC, and the page's safety is proved without any.
Where an invariant is also proved, the bound does not matter.

Deadlock is checked except in `Response_gate`, `Assistant_stream`,
`Assistant_threads`, `Assistant_reply`, `Console_forms` and `Web_session`, which
come to rest when the bounded number of decisions, questions, presses or visits is
used up. Symmetry is used on sets of model
values in runs without liveness properties only.

Why single processes. `OneIncidentPerKey`, `RegistryBacked`, `RestartKeepsSteady`,
`ConnectorInUse` and the four properties of rules and monitors hold where there is one API
process and no second producer. Several processes are within the documented
deployment, and there they fail (section 7). The constants are in the model, and
the theorems state the condition (`OneApiProcess`, `OneProducer`, `OneWorker`).

## 4. Fairness

Three specifications state fairness; the others are safety only.

* `ResponseGate`: weak fairness of the steps of a thread of the agents service
  that has taken up a request. It is a running thread, and nothing in its way
  blocks but the lock of the chain. Whether the lock comes free is what
  `EveryCallEnds` says, and the mutant that keeps the lock breaks it. Nobody has
  to decide, no request has to arrive.
* `ArgusStream`: weak fairness of the pool's admission (a queue, first come
  first served), of verification, of each worker, of each generator and of each
  console. The worker's fairness assumes that a run of the agent ends, which the
  client of the language model sees to by its own timeouts; nothing in
  `service.py` does. No question has to be asked, no connection has to fail and
  no analyst has to leave.
* `WebSession`: weak fairness of `Route` and `Render`, for each tab: the server
  answers a page load that was asked for. Nobody has to sign in, follow a link or
  press a button, and no call of a page has to come back. Under it
  `RedirectsEnd` says that the redirects of the middleware, the layout and the
  login end; the budgets matter here only in that a user cannot ask for pages,
  nor the session lapse, for ever.

## 5. The proofs

Proved for every value of the constants, from the named assumptions of the
modules (`ConfigAssumption`, `BridgeAssumption`, `IncidentAssumption`,
`GateAssumption`, `StreamAssumption`, `KeyAssumption`, `FormAssumption`,
`RoutingAssumption`, `SessionAssumption`, `DeploymentAssumption`,
`AbsenceAssumption`), which say little more than that model values differ and
bounds are numbers. Hypotheses a theorem needs beside them are in its statement:
`OneApiProcess`, `OneProducer`, `OneWorker` (section 3 says why), and
`FreeIsNoThread` and `NoneIsNoPayload`, that the values standing for no thread and
no payload are none.

The numbers of tabs, workers, threads, requests, ids and repetitions are constants
too, so in these theorems none of the bounds of section 3 matters. Every safety
property of the passing runs is proved; what is only model-checked is liveness
(below).

* `ConnectorRegistryProofs`. `TypeCorrect`. `RegistryIsBacked` (with one API
  process) by `RegistryInv`: an entry of the registry is backed by a row *or* is
  the one entry that the running handler is about to write. `RegistryBacked`
  alone is not inductive, for within a handler it is false. `RestartHealsRegistry`
  needs no such assumption: after a replay everything is backed, whatever the
  other processes did. `RestartKeepsWhatWasServed` and `GrantsAreServed`, for
  tenants with one integration per provider, by `SteadyInv`: such a tenant never
  has two rows of a provider (`Steady` restricts what is asked for; that it
  stays so while handlers are half-way is what has to be shown), a tenant being
  onboarded has no row yet, and each entry `Shows` what that row says, or that there
  is none, or is the one about to be written. `Shows` also allows an empty entry
  beside a row that the replay does not take, for a want of its url or api_key or
  because the tenant is not in the directory; of these rows (the ones that are not
  `Restorable`) the theorems say only that the tenant is on what the row offers or
  on the default. With one row the order of the replay cannot matter; with two it
  does, which `Registry_replay_order` shows.
* `IncidentBridgeProofs`, in two parts. For any number of workers and pipelines
  `Sound` is an invariant: what a run knows, for a key, is an incident with that
  key; the keys it has handled have an incident; its detections are graded alike
  with different keys (`Uniform`), from which the candidate of a key has exactly one
  member; what a pipeline persists was indexed (`Held`, `Shown`). No incident is
  ever removed or given another key (`IncidentsStay`), which is why the
  others' steps do no harm. It gives `TypeCorrect`, `EvidenceIsIndexed`,
  `CountsNeverAddUp`, `RunsKeepTriage` and `MatchesAreKept`. With one producer,
  `IInv` adds that a run knows the incident of each key that has one and is still
  to be handled (`Knows`): from it `RerunsAreIdempotent` and `RunsKnowTheirIncidents`.
  This is exactly what a second producer breaks. That the oldest row, `Least` and
  the highest severity exist in every nonempty set (`Ordered`) rests on
  `staler` being changed only by moving one row to the end, and on the
  well-foundedness of the naturals.
* `ResponseGateProofs`, for any number of actions a run waits with and of times it
  pauses. `ApprovalComesFirst` by `GateInv`: whatever confirms a
  run, in a handler, in flight or in a thread, was approved before, and a thread
  carries out what the run of its request wants and nothing else.
  `NeverMoreThanApproved` counts, for each action: by `EachApprovalSpentOnce` the times
  it was performed and the confirmations still on their way (`OnTheWay`: in a handler
  past its write, in flight, or in a thread that has the action still to carry out)
  are together no more than the approvals of its run. One approval may carry out
  every action the run waits with; each of them once. A step moves a confirmation from one place to the next
  (`Exchanged`), loses it, spends it (`Lost`) or comes with a new approval
  (`Gained`). Of the chain: `ChainTypeCorrect`, and `ChainsVerify` because what the
  holder of the lock read is still the newest hash. `TamperEvident`: two chains that
  verify, of the same length and with the same newest hash, are equal, by following
  the least suffix on which they agree down to the first record. `GateUsesChain`
  maps each step of the gate to a step of the chain or to none, and
  `ResumedRunsVerify` gets the chain's theorem for the gate through it.
  `AuditTellsAll` counts the places of a chain that hold an outcome and the threads
  that are just recording it: a hook adds a thread, the write of the record turns
  the thread into a place, and a crash empties all.
* `ArgusStreamProofs`. `TypeCorrect`. `NeverLeftSilent` by `StreamInv`: while the
  console reads, there is a number of texts taken from the queue such that the queue
  holds the others in order and the sentinel last if at all (`InQueue`), and those
  taken are shown or on the wire, in order (`Sent`), or none was and the notice is
  (`NoticeSent`). The generator stops only when worker and queue are done, which is
  the conjunct a check in another order would break. `StreamImplementsChannel`:
  under the mapping each step is one of `AnswerChannel` (a text said, shown, the run
  failed, the end) or a stutter, by the same invariant; that the pool admits each
  question once is `LineInv`.
* `ConversationsProofs`. `TypeCorrect` and `UpsertsAreIdempotent`, for any number of
  threads, messages and replies. `NoThreadInAnothersRow` by `ThreadInv`: every list of
  turns, in a chat, a load, a reply, a post or a row, holds questions of threads with
  the root of its key. `Root` is a recursive function, about which
  nothing can be proved by induction here; what is proved holds of *every*
  function that satisfies its equation (`IsRoot`), and that there is one is part
  of the invariant: a new row, under an id that nobody has yet, extends it.
* `ConsoleFormsProofs`. `NoPageIsStuck` and `RequestsDoNotOverlap`, for any number
  of tabs, presses, edits and reloads. `FormInv` says of each tab that a job of
  its that is still looked at is the one that made the page busy (`OneRequestPerPage`
  on the pages that guard all their buttons) and that a busy page has such a job;
  neither is inductive without the other, nor without the shape of the handlers,
  of which `GuardedButtons` says that on those pages a button can be pressed only
  when `busy` is empty and leaves it nonempty. `OnlyWhatWasPressed` by `MeantInv`:
  on the six pages it speaks of, what a job has still to send writes what its
  button is meant to write (`NarrowBodies` for what a press sends, `FewerBodies`
  for what a reply, a failure or leaving the page leaves of it).

  The other two rest on a table of all 42 buttons (`AllHandlers`, one lemma a page):
  whatever a request writes that its page has a copy of or shows, the page takes
  from the reply, sets itself or had in its draft when the button was pressed
  (`Told`); it names fields of the record, with values they can hold (`Valid`);
  two requests of one press send no two values of what is shown and do not post the
  same list (`Agree`); an input set at the end was sent (`Sets`); and only the
  kill switch, when it succeeds, says that it is on (`Words`). `Good` is all of
  that, and the rest of the proof looks at no page.
  `EverythingIsTyped` by `TypedInv`: a post adds one to whatever the list has, so the
  bound of a list is not inductive; that its length *and* the presses that still owe
  it a post are together no more than the presses made (`Counted`) is, and needs jobs
  to be of different presses and a job to post a list at most once.
  `NoticesAreTrue` by `HonestInv`: what `NoticeIsTrue` says of a page at rest (and
  `PagesAreRight` of every page at rest, whatever notice it shows) is false while a
  request is under way. `Honest` says, of every moment, that a page that has
  missed nothing has one job at most and that it is only wrong where the rest of this
  job will put it right (`CopyHonest`, `DraftHonest`): what the job sent is in the
  record, still to be sent, or has failed (`Served`), and is what the page shows or was
  typed over (`SentHonest`). A job that ends well has nothing left to send, and then
  the page is right (`SuccessHonest`); one that fails after something was done leaves
  a page that is `behind`, of which nothing is claimed (`DefeatHonest`). The notice of
  the kill switch outlives its own job: a later press that permits a class again is
  one that puts another notice in its place however it ends (`WordHonest`).
* `WebSessionProofs`, for any number of tabs, workspaces and calls and without the
  budgets, by three invariants. `SessionInv` says that the header of a tab that is not
  `behind` names the browser's workspace (`Named`), that outside of the app there
  is no header, that the wizard of a first run is open where there is none, and
  that what such a wizard has started and is still there to hear of comes back to
  that same wizard (`CallInv`). The last two are needed for the one step that
  changes the cookie without a page load in the tab that takes it, the wizard's
  activation of the workspace just made. That a token speaks for `Named` or for
  nobody is `TokenIsNamed`; it is the only place where the server's reads and the
  proxy are looked at, and would fail if the two preferred different tokens.
  It gives `PagesActWhereShown`. `WizardRight` says that a wizard has one job and one
  test under way at most and is the one they belong to: from
  `Provisioning`, that as long as it may press again it has not provisioned more often than it
  apologised, and from `Testing`, `WizardsProvisionOnceAsTested` follows. `Fitted`
  relates what a tab was asked for (`wanted`), whether that was `lost`, where it is
  (`at`) and where the login will send it (`next`): it is `Headed` for a place where it
  may end (`Ends`), which each way of sending a tab on keeps or makes anew (`Sent`, one
  lemma for each). It says that the browser's workspace is among those the button of
  the last switch had promised (`meant`), which needs to know of a call on its way that
  what it carries is among what its button said (`CallFit`): `TabsEndWhereAsked`,
  `SwitchesOpenWhatTheySay`, and, with the workspaces that exist, `TypeCorrect`.
* `RuleDeploymentProofs`. `TypeCorrect` with any number of API processes, by `Typed`,
  which also says what a handler carries between its steps. With one process
  (`OneWorker`) all four properties of the runs follow from `Consistent`:
  what a handler has read still stands (`Working`: a rule being pushed or saved
  is as it was read, a monitor being toggled has the definition that will be put
  back), ids are issued before they are written (`Issued`, so a deleted monitor
  never returns), rules share a monitor only by an import (`Unshared`), and, where
  nothing fails, a missing monitor's rules are on the list of the handler that
  deleted it (`Bound`) and a monitor made for a rule is bound to it or about to be
  (`Origins`). `OneWorker` is needed for `Working`: no lock is held from a read to
  the write, and with a second process `DeployedIsCurrent` fails.

Left to TLC. Liveness (`EveryCallEnds`, `EveryStreamEnds`, `RedirectsEnd`), which
is out of the prover's reach, as is what a fair scheduler makes possible (`ENABLED`).
No module declares a recursive operator.

## 6. Not modelled

* Read-only parts (telemetry, search, metrics, dashboards, investigations),
  federation, threat intelligence and the MCP servers: no state of their own. In
  the console `live-data.ts`, `workspace-data.ts`, the chart and table components
  and the generated-UI library turn rows into what is displayed: formatting.
* Which tools a model decides to call, and prompts: not in the code. The incident
  workflow hands its steps to a library and branches on what a model wrote.
* Roles (`rbac.py`): a refused call is one of the failures a page may get.
* Logging, tracing, infrastructure, seeds and migrations: no behaviour.
* In the modelled parts: a rule's `enabled` flag in `RuleDeployment` (no route
  reads it); the messages that a deployed rule card adds to a chat; rename; in
  `WebSession` refused passwords, the sending of mails, the pending states of the
  login form and what becomes of a page between two of its renders; in
  `ConsolePages` filters, selections, menus and everything else a page does without
  a request.
* Two API processes in `ConsoleForms`: each request is served in one step, so two
  comments that are appended at once by two processes, one of which is lost, do
  not appear. Also left out there: the Refresh button of `monitors-panel.tsx`, which only
  reads, and the third of the destructive classes of the automation page, which
  behaves as the other two.
* In `WebSession` a second wizard: one is open at a time in the whole browser.
* What AgentOS does with a request to continue a run, beyond what section 2 says.

## 7. Where the code and what is said of it differ, without a run

The three violated runs are findings in `PROJECT.json`. The following was met
while modelling and is recorded here only: the models do what the code does.

* A row without its url or api_key is served and not replayed: an OpenRouter card
  saved with a pinned model only (`data-connectors.tsx:79-88`), or an OpenSearch config
  without a url, is in use from its request on and gone after a restart
  (`store.py:198`, `:201`, although `connectors.py:114` takes any config that is not
  empty). So are all rows of a tenant that a token names and nobody onboarded
  (`store.py:184-187`).
* An approval is of one tool, a resume of the whole run: every destructive call the
  run waits with is carried out on one approval (`service.py:203-205`), and the
  `tool_name` of the request (`agentos_client.py:20`) is not looked at there.
* `continue_paused` sets the tenant's scope and has no caller; the request of
  `agentos_client.py` names no tenant, and the guard of the hooks refuses a tool
  without one.
* An approval can be decided again. `approvals.py:48-53` does not look at the
  status it finds: an approval that was carried out can be denied afterwards, and
  its row then says denied.
* With two API processes two runs may both list before either creates, and one
  key gets two incidents, against `rules.py:262-263`; and a revoked connector
  stays in the other process's registry until it restarts.
* The agents service is a process of its own (DEPLOY.md) and nothing fills its
  registry, although `connectors.py:10` says that the API and the crew share one
  process: its tools use the default cluster and key.
* `rules.py:220-227`: an integration that is connected but does not grant access
  lets apply go on, to the global default cluster, and the rule is marked live.
  `rules.py:204-217` accepts an integration whose status is "error".
* `rules.py:252` asserts that a row was "fetched above under lock"; there is no
  lock.
* A rule in learning mode raises incidents when it is run by hand
  (docs/06-detection-engine.md:78 promises no alert).
* `correlate.py` clusters by the first entity of a detection, not by shared
  entities: two runs can give two incidents for one entity.
* No code reads an autonomy policy before a tool runs (`autonomy.py:3-4`).
* The audit chain is in memory: after a restart it begins at GENESIS again, and
  a chain that was cut at its end still verifies.
* A refused stream (401, 5xx) has a body, so the console neither throws nor
  shows text: the bubble says "Thinking" for ever (`assistant-chat.tsx:100`,
  `:127`). `NeverSilent` is stated for responses that were not refused.
* The thread of an incident or case is opened without its messages
  (`assistant-workspace.tsx:55`), and the first reply overwrites the saved ones.
  The posts of two turns may arrive in either order. A rule card that is deployed
  while an answer streams and the stream each replace the last message
  (`assistant-chat.tsx:154`). "New thread" does nothing on a fresh chat.
* The comment at `deps.py:99-101` has the tenant's scope reach the handler; a
  synchronous dependency runs in a thread with a copy of the context, so what it
  sets there is not seen by the handler.
* The link in a confirmation or magic-link mail forgets the page that was asked
  for before the login; a link that is refused forgets where it led; and a tab at
  the login whose browser is signed in elsewhere goes to the dashboard at its next load
  (`middleware.ts:68-71`). `GoesWhereAsked` names the last two as exceptions.
* Signing out removes the session and leaves `aegis_token` (`auth/signout`), and no
  page links to it. In development mode, where the API's routes need no session,
  such a browser keeps acting for the workspace it had entered.
* The cookie of a workspace lives for seven days from the switch, its token for
  seven days from its minting: the token ends first, and from then on every page
  shows the first-run onboarding (`layout.tsx:12` takes "no tenant" for a new
  user), as it does when the API cannot be reached.
* `tenants-bar.tsx` has an "Open" button for each workspace that always returns to
  the default one, as its comment (`:17-18`) says and its label does not.
  `OpensWhatItSays` holds these rows to the comment, all others to their label.
* If the browser refuses to store the token of a new workspace
  (`onboarding-wizard.tsx:52`), nothing is said, and once the workspace is left there is
  no way back to it: its row in the drawer says Default.
* A user or password changed after a good test does not take the result back
  (`onboarding-wizard.tsx:119`, while the URL does at `:116`), and a test's reply
  counts although the inputs changed while it was out: what is provisioned may
  never have been tested. `ProvisionsOnceAsTested` is stated for the other cases.
* If the switch after a successful provisioning fails, the wizard says that
  onboarding failed (`:58`); pressing again provisions a second workspace.
* A switch that fails (`tenant-drawer.tsx:46`, no `catch`) leaves its button off
  until the page is loaded anew.
* The kill-switch has no `catch`: if one class could not be denied, nothing is
  said, and the modes shown are the old ones although others were written.
* `settings-workspace.tsx` sends all preferences at each toggle and lets a toggle
  and a save of the organisation cross; the reply that comes last sets all inputs.
  The source form of the drawer always sends `agent_access: true`
  (`tenant-drawer.tsx:155`), which grants again what was revoked elsewhere.
* The drawer of connectors makes an integration before it tests it; when that
  reply is lost, the next press makes another one, and the tenant has two of one
  provider, with the consequences of the first finding.

## 8. What could come next

1. `RecordStore`: one abstract store, implemented by the memory and the Postgres
   repository, with several API processes: which read-merge-writes (comments,
   settings) lose an update, and which cannot.
2. Roles, and the key cache of the agents service.
3. Algorithms as operators against reference definitions: deep merge, windows and
   frequencies (`schema.py`, `monitor.py`), secret names, report counts.
