---------------------------- MODULE ConsolePages ----------------------------
(***************************************************************************)
(* The editing pages of the web console (src/apps/web/src/features), as    *)
(* tables.  Every page is a client component that holds a draft of each of *)
(* its inputs and its own copy of the record it was loaded with, and whose *)
(* buttons send that draft to the API.  A page is described by             *)
(*   - its handlers: for each button, what it sends and what it does with  *)
(*     the reply;                                                          *)
(*   - its view: what the analyst can type into, and for which values of   *)
(*     the page's busy state each button can be pressed.                   *)
(* d is the page's draft, s its copy of the record.  ConsoleForms runs the *)
(* tables; two values stand for whatever an input may hold.                *)
(***************************************************************************)
EXTENDS Naturals, Sequences

Value == 0 .. 1

Gone == 2       \* a row that was deleted

(* What a handler may do besides sending one request:                       *)
(*   together  its requests go out at once (Promise.all), not in turn      *)
(*   before    the draft fields it sets as it starts                       *)
(*   undoes    it sets them back when it fails                             *)
(*   takes     the fields of the page's copy the reply replaces            *)
(*   adopts    the drafts the reply replaces                               *)
(*   after     the draft fields it sets when it succeeds                   *)
(*   keeps     what it takes of an earlier reply although a later request  *)
(*             fails                                                       *)
(*   leaves    on success the page is left, its buttons still off          *)
(*   clears    starting clears the notice                                  *)
(*   says      the notice on success, and fails the one on failure; ""     *)
(*             leaves the notice as it is                                  *)
Send(busy, bodies) ==
  [busy |-> busy, bodies |-> bodies, together |-> FALSE, before |-> <<>>,
   undoes |-> FALSE, takes |-> {}, adopts |-> {}, after |-> <<>>, keeps |-> {},
   leaves |-> FALSE, clears |-> TRUE, says |-> "saved", fails |-> "failed"]

Only(d, F) == [f \in F |-> d[f]]

(* d, with what g sets.                                                     *)
With(d, g) == [f \in DOMAIN d \cup DOMAIN g |-> IF f \in DOMAIN g THEN g[f] ELSE d[f]]

Silent(h) == [h EXCEPT !.clears = FALSE, !.says = "", !.fails = ""]

Idle == {""}

When(cond) == IF cond THEN Idle ELSE {}

-----------------------------------------------------------------------------
(* A record is a function from its fields.  Some fields count what was      *)
(* posted, some are turned over by a request, and "tested" is the           *)
(* configuration that was last probed.                                      *)

PostField == {"cases", "comments", "items"}

FieldsOf(p) ==
  CASE p = "incident"     -> {"status", "assignee", "cases"}
    [] p = "case"         -> {"status", "assignee", "comments"}
    [] p = "rule"         -> {"text", "enabled", "items", "gone"}
    [] p = "settings"     -> {"org", "digest", "weekly", "tenant"}
    [] p = "detection"    -> {"severity", "retention"}
    [] p = "automation"   -> {"notify", "block_ip", "isolate_host", "verdict"}
    [] p = "connector"    -> {"made", "config", "access", "tested"}
    [] p = "source"       -> {"config", "access", "tested"}
    [] p \in {"rules", "integrations"} -> {"row1", "row2"}
    [] p = "monitors"     -> {"row1", "row2", "items"}
    [] p \in {"picker", "cases", "assets", "reports"} -> {"items"}

(* incident-detail.tsx: either button sends its own field and nothing else; *)
(* the reply replaces the incident and the status drop-down, not the        *)
(* assignee box.  After an escalation the page is on its way to /cases.     *)
(* mutant: the assignee is sent under a key the record does not have.       *)
MF_OwnerKey(d, s) ==
  LET Patch(body) == [Send("status", <<body>>) EXCEPT
                        !.takes = FieldsOf("incident"), !.adopts = {"status"}]
  IN  [status   |-> Patch(Only(d, {"status"})),
       assign   |-> Patch([owner |-> d["assignee"]]),
       escalate |-> [Send("case", <<[cases |-> 1]>>) EXCEPT !.leaves = TRUE]]

(* mutant: either button sends the whole form.                              *)
MF_WholeForm(d, s) ==
  LET Patch(f) == [Send(f, <<Only(d, {"status", "assignee"})>>) EXCEPT
                     !.takes = FieldsOf("incident"), !.adopts = {"status"}]
  IN  [status   |-> Patch("status"),
       assign   |-> Patch("assignee"),
       escalate |-> [Send("case", <<[cases |-> 1]>>) EXCEPT !.leaves = TRUE]]

IncidentHandlers(d, s) ==
  LET Patch(f) == [Send(f, <<Only(d, {f})>>) EXCEPT
                     !.takes = FieldsOf("incident"), !.adopts = {"status"}]
  IN  [status   |-> Patch("status"),
       assign   |-> Patch("assignee"),
       escalate |-> [Send("case", <<[cases |-> 1]>>) EXCEPT !.leaves = TRUE]]

(* mutant: the escalation button is not off while the page is busy.         *)
MF_EscalateAnyTime(d, s) ==
  [inputs  |-> {"status", "assignee"},
   presses |-> [status   |-> When(d["status"] # s["status"]),
                assign   |-> Idle,
                escalate |-> {"", "status", "assignee", "case"}]]

IncidentView(d, s) ==
  [inputs  |-> {"status", "assignee"},
   presses |-> [status   |-> When(d["status"] # s["status"]),
                assign   |-> Idle,
                escalate |-> Idle]]

(* case-detail.tsx: as an incident; a comment needs a text, and clears it.  *)
CaseHandlers(d, s) ==
  LET Patch(f) == [Send(f, <<Only(d, {f})>>) EXCEPT
                     !.takes = FieldsOf("case"), !.adopts = {"status"}]
  IN  [status  |-> Patch("status"),
       assign  |-> Patch("assignee"),
       comment |-> [Send("comment", <<[comments |-> 1]>>) EXCEPT
                      !.takes = FieldsOf("case"),
                      !.after = [comments |-> 0],
                      !.clears = FALSE, !.says = ""]]

CaseView(d, s) ==
  [inputs  |-> {"status", "assignee", "comments"},
   presses |-> [status  |-> When(d["status"] # s["status"]),
                assign  |-> Idle,
                comment |-> When(d["comments"] # 0)]]

(* rule-editor.tsx.  Save sends every input; only the rule is replaced by   *)
(* the reply.  The enable button sends the opposite of the toggle, stored   *)
(* or not, and deploying switches the toggle on.  Generating a rule shares  *)
(* the page's busy state; its text waits on a tab of its own.               *)
RuleHandlers(d, s) ==
  LET Put(h) == [h EXCEPT !.takes = FieldsOf("rule")]
  IN  [save      |-> Put(Send("save", <<Only(d, {"text", "enabled"})>>)),
       deploy    |-> [Put(Send("apply", <<[enabled |-> 1]>>)) EXCEPT
                        !.after = [enabled |-> 1]],
       enable    |-> [Put(Send("save", <<[enabled |-> 1 - d["enabled"]]>>)) EXCEPT
                        !.adopts = {"enabled"}, !.clears = FALSE],
       duplicate |-> [Send("save", <<[items |-> 1]>>) EXCEPT
                        !.leaves = TRUE, !.clears = FALSE, !.says = ""],
       remove    |-> [Send("delete", <<[gone |-> 1]>>) EXCEPT
                        !.leaves = TRUE, !.clears = FALSE, !.says = ""],
       generate  |-> Silent(Send("gen", <<<<>>>>))]

(* Ctrl-Enter in the prompt starts a generation whatever the page is doing; *)
(* the button beside it would not.                                          *)
RuleView(d, s) ==
  [inputs  |-> {"text", "enabled"},
   presses |-> [save |-> Idle, deploy |-> Idle, enable |-> Idle,
                duplicate |-> Idle, remove |-> Idle,
                generate |-> {"", "save", "apply", "delete", "gen"}]]

(* settings-workspace.tsx: a preference is sent with all the others, as the *)
(* page has them, the moment it is toggled, and is not set back when that   *)
(* fails; every reply replaces every draft of the settings document.        *)
SettingsHandlers(d, s) ==
  LET Doc == {"org", "digest", "weekly"}
      Put(busy, body) == [Send(busy, <<body>>) EXCEPT
                            !.takes = Doc, !.adopts = Doc]
      Toggle(f) == LET next == [Only(d, {"digest", "weekly"}) EXCEPT ![f] = 1 - @]
                   IN  [Put("prefs", next) EXCEPT !.before = next]
  IN  [save   |-> Put("org", Only(d, {"org"})),
       digest |-> Toggle("digest"),
       weekly |-> Toggle("weekly"),
       tenant |-> [Send("tenant", <<Only(d, {"tenant"})>>) EXCEPT
                     !.takes = {"tenant"}, !.adopts = {"tenant"}]]

SettingsView(d, s) ==
  [inputs  |-> {"org", "tenant"},
   presses |-> [save   |-> When(d["org"] # s["org"]),
                digest |-> {"", "org", "tenant"},
                weekly |-> {"", "org", "tenant"},
                tenant |-> When(d["tenant"] # s["tenant"])]]

(* configurations-workspace.tsx: the detection defaults, all at once.       *)
DetectionHandlers(d, s) ==
  LET F == FieldsOf("detection")
  IN  [save |-> [Send("save", <<Only(d, F)>>) EXCEPT !.takes = F, !.adopts = F]]

DetectionView(d, s) ==
  [inputs |-> FieldsOf("detection"), presses |-> [save |-> When(d # s)]]

(* automation-workspace.tsx.  A mode is 1 when it is Deny.  Pressing a mode *)
(* shows it at once and puts the earlier one back if the request fails.     *)
Destructive == {"block_ip", "isolate_host"}

ModeHandler(d, c) ==
  LET next == [f \in {c} |-> 1 - d[c]]
  IN  [Send(c, <<next>>) EXCEPT
         !.before = next, !.undoes = TRUE, !.clears = FALSE]

(* The kill-switch: one request per destructive class, all at once; it      *)
(* speaks only when every one of them was answered well.                    *)
(* mutant: the notice is set however the requests ended.                    *)
MF_KillSwitchAnyway ==
  [Send("kill", <<[block_ip |-> 1], [isolate_host |-> 1]>>) EXCEPT
     !.together = TRUE, !.after = [c \in Destructive |-> 1],
     !.clears = FALSE, !.says = "killed", !.fails = "killed"]

KillSwitch ==
  [Send("kill", <<[block_ip |-> 1], [isolate_host |-> 1]>>) EXCEPT
     !.together = TRUE, !.after = [c \in Destructive |-> 1],
     !.clears = FALSE, !.says = "killed", !.fails = ""]

(* A pending approval: the reply shows whether it was approved or denied.   *)
Decision(v) ==
  [Send("decide", <<[verdict |-> v]>>) EXCEPT
     !.takes = {"verdict"}, !.adopts = {"verdict"}, !.clears = FALSE]

AutomationHandlers(d, s) ==
  [notify       |-> ModeHandler(d, "notify"),
   block_ip     |-> ModeHandler(d, "block_ip"),
   isolate_host |-> ModeHandler(d, "isolate_host"),
   kill         |-> KillSwitch,
   approve      |-> Decision(1),
   deny         |-> Decision(2)]

(* A class's buttons are off only while its own name is the busy value.     *)
AutomationView(d, s) ==
  LET Busy == {"", "notify", "block_ip", "isolate_host", "kill", "decide"}
  IN  [inputs  |-> {},
       presses |-> [notify       |-> Busy \ {"notify"},
                    block_ip     |-> Busy \ {"block_ip"},
                    isolate_host |-> Busy \ {"isolate_host"},
                    kill         |-> Idle,
                    approve      |-> When(s["verdict"] = 0),
                    deny         |-> When(s["verdict"] = 0)]]

(* data-connectors.tsx: the card creates its integration on first use.      *)
(* Testing is three requests, each with what the card held when the button  *)
(* was pressed; the status shown comes from the last one only.              *)
ConnectorHandlers(d, s) ==
  LET config == Only(d, {"config", "access"})
      create == With(config, [made |-> 1])
      first  == IF s["made"] = 0 THEN <<create>> ELSE <<>>
  IN  [save |-> Silent([Send("save", IF s["made"] = 0 THEN first ELSE <<config>>)
                          EXCEPT !.takes = {"made"}]),
       test |-> [Silent(Send("test", first \o <<config, [tested |-> 1]>>))
                   EXCEPT !.takes = {"made", "tested"}, !.keeps = {"made"},
                          !.says = "tested"]]

ConnectorView(d, s) ==
  [inputs |-> {"config", "access"}, presses |-> [save |-> Idle, test |-> Idle]]

(* tenant-drawer.tsx, ConfigureSource: it edits the connection and always   *)
(* grants the agents access with it.                                        *)
SourceHandlers(d, s) ==
  LET grant == [config |-> d["config"], access |-> 1]
  IN  [save |-> [Send("save", <<grant>>) EXCEPT !.clears = FALSE],
       test |-> [Send("test", <<grant, [tested |-> 1]>>) EXCEPT
                   !.takes = {"tested"}, !.clears = FALSE, !.says = "tested"]]

SourceView(d, s) ==
  [inputs |-> {"config"}, presses |-> [save |-> Idle, test |-> Idle]]

-----------------------------------------------------------------------------
(* Pages of rows.  The busy state names one row: starting on a second row   *)
(* frees the buttons of the first.  A failure leaves the row, without a     *)
(* word.                                                                    *)
Rows == {"row1", "row2"}

RowSend(r, v) == [Silent(Send(r, <<[f \in {r} |-> v]>>)) EXCEPT !.takes = {r}]

RowPresses(s, r) == IF s[r] = Gone THEN {} ELSE {"", "row1", "row2"} \ {r}

(* monitors-panel.tsx: toggle (the API turns the monitor over), delete, and *)
(* import as a rule, which leaves for the new rule.                         *)
MonitorHandlers(d, s) ==
  [use1 |-> RowSend("row1", 1), use2 |-> RowSend("row2", 1),
   drop1 |-> RowSend("row1", Gone), drop2 |-> RowSend("row2", Gone),
   import |-> [Silent(Send("row1", <<[items |-> 1]>>)) EXCEPT !.leaves = TRUE]]

MonitorView(d, s) ==
  [inputs  |-> {},
   presses |-> [use1 |-> RowPresses(s, "row1"), use2 |-> RowPresses(s, "row2"),
                drop1 |-> RowPresses(s, "row1"), drop2 |-> RowPresses(s, "row2"),
                import |-> RowPresses(s, "row1")]]

(* integrations-list.tsx: test a row or remove it.                          *)
IntegrationHandlers(d, s) ==
  [use1 |-> RowSend("row1", 1), use2 |-> RowSend("row2", 1),
   drop1 |-> RowSend("row1", Gone), drop2 |-> RowSend("row2", Gone)]

IntegrationView(d, s) ==
  [inputs  |-> {},
   presses |-> [use1 |-> RowPresses(s, "row1"), use2 |-> RowPresses(s, "row2"),
                drop1 |-> RowPresses(s, "row1"), drop2 |-> RowPresses(s, "row2")]]

(* rules-workspace.tsx: delete a rule after a confirmation, or pick a type  *)
(* and leave for the new rule.  The picker has a busy state of its own, so  *)
(* it is a page here.                                                       *)
RulesHandlers(d, s) ==
  [drop1 |-> RowSend("row1", Gone), drop2 |-> RowSend("row2", Gone)]

RulesView(d, s) ==
  [inputs  |-> {},
   presses |-> [drop1 |-> RowPresses(s, "row1"), drop2 |-> RowPresses(s, "row2")]]

PickerHandlers(d, s) ==
  [create |-> [Silent(Send("create", <<[items |-> 1]>>)) EXCEPT !.leaves = TRUE]]

PickerView(d, s) == [inputs |-> {}, presses |-> [create |-> Idle]]

(* The pages that only add to a list: cases-workspace.tsx leaves for the    *)
(* new case, assets-workspace.tsx and reports-workspace.tsx show it.        *)
CasesHandlers(d, s) ==
  [create |-> [Silent(Send("create", <<[items |-> 1]>>)) EXCEPT
                 !.leaves = TRUE, !.after = [items |-> 0]]]

CasesView(d, s) == [inputs |-> {"items"}, presses |-> [create |-> Idle]]

AssetsHandlers(d, s) ==
  [create |-> [Silent(Send("create", <<[items |-> 1]>>)) EXCEPT
                 !.takes = {"items"}, !.after = [items |-> 0]]]

AssetsView(d, s) == [inputs |-> {"items"}, presses |-> [create |-> Idle]]

ReportsHandlers(d, s) ==
  [generate |-> [Silent(Send("generate", <<[items |-> 1]>>)) EXCEPT
                   !.takes = {"items"}]]

ReportsView(d, s) == [inputs |-> {}, presses |-> [generate |-> Idle]]


-----------------------------------------------------------------------------
Page == {"incident", "case", "rule", "settings", "detection", "automation",
         "connector", "source", "monitors", "integrations", "rules", "picker",
         "cases", "assets", "reports"}

Handlers(p, d, s) ==
  CASE p = "incident"     -> IncidentHandlers(d, s)
    [] p = "case"         -> CaseHandlers(d, s)
    [] p = "rule"         -> RuleHandlers(d, s)
    [] p = "settings"     -> SettingsHandlers(d, s)
    [] p = "detection"    -> DetectionHandlers(d, s)
    [] p = "automation"   -> AutomationHandlers(d, s)
    [] p = "connector"    -> ConnectorHandlers(d, s)
    [] p = "source"       -> SourceHandlers(d, s)
    [] p = "monitors"     -> MonitorHandlers(d, s)
    [] p = "integrations" -> IntegrationHandlers(d, s)
    [] p = "rules"        -> RulesHandlers(d, s)
    [] p = "picker"       -> PickerHandlers(d, s)
    [] p = "cases"        -> CasesHandlers(d, s)
    [] p = "assets"       -> AssetsHandlers(d, s)
    [] p = "reports"      -> ReportsHandlers(d, s)

View(p, d, s) ==
  CASE p = "incident"     -> IncidentView(d, s)
    [] p = "case"         -> CaseView(d, s)
    [] p = "rule"         -> RuleView(d, s)
    [] p = "settings"     -> SettingsView(d, s)
    [] p = "detection"    -> DetectionView(d, s)
    [] p = "automation"   -> AutomationView(d, s)
    [] p = "connector"    -> ConnectorView(d, s)
    [] p = "source"       -> SourceView(d, s)
    [] p = "monitors"     -> MonitorView(d, s)
    [] p = "integrations" -> IntegrationView(d, s)
    [] p = "rules"        -> RulesView(d, s)
    [] p = "picker"       -> PickerView(d, s)
    [] p = "cases"        -> CasesView(d, s)
    [] p = "assets"       -> AssetsView(d, s)
    [] p = "reports"      -> ReportsView(d, s)
=============================================================================
