------------------------- MODULE ConsoleFormsProofs -------------------------
(***************************************************************************)
(* Proofs about ConsoleForms, for any number of tabs, presses, changed     *)
(* inputs and reloads, and any failures: what a page's busy state says     *)
(* about the requests it has under way, what these may write, the type of  *)
(* every page, copy, draft and job, and that what a page shows once it is  *)
(* at rest is what the API has.                                            *)
(*                                                                         *)
(* What is proved of a step rests on a table of every page's buttons: each *)
(* handler writes what its page can tell of it afterwards (Good).          *)
(***************************************************************************)
EXTENDS ConsoleForms, TLAPS, FiniteSetTheorems

TabField == {"open", "busy", "notice", "touched", "behind", "draft", "saved"}

JobField == {"n", "tab", "button", "handler", "todo", "sent", "prev", "state",
             "copy", "watched"}

(* As much of the types as what follows needs.                              *)
Shaped ==
  /\ DOMAIN form = Tab
  /\ \A t \in Tab : DOMAIN form[t] = TabField
  /\ \A j \in jobs : DOMAIN j = JobField /\ j.tab \in Tab

(* Of one tab: what NeverStuck and OneRequestPerPage say of it, and that a  *)
(* page that was left looks at nothing any more.                            *)
TabInv(t) ==
  /\ form[t].open /\ form[t].busy # "" => Underway(t) # {}
  /\ ~form[t].open => Underway(t) = {}
  /\ page \in Guarded => /\ \A i, j \in Underway(t) : i = j
                         /\ Underway(t) # {} => form[t].busy # ""

FormInv == Shaped /\ \A t \in Tab : TabInv(t)

-----------------------------------------------------------------------------
LEMMA SendIsBusy ==
  ASSUME NEW busy, NEW bodies
  PROVE  "busy" \in DOMAIN Send(busy, bodies) /\ Send(busy, bodies).busy = busy
  BY DEF Send

LEMMA WhenIdle == ASSUME NEW cond PROVE When(cond) \subseteq {""} /\ Idle = {""}
  BY DEF When, Idle

(* Each page whose buttons are off while it is busy says so in its view,    *)
(* and each of its handlers makes it busy.                                  *)
LEMMA GuardedButtons ==
  ASSUME NEW p \in Guarded, NEW d, NEW s, NEW b \in DOMAIN View(p, d, s).presses
  PROVE  /\ View(p, d, s).presses[b] \subseteq {""}
         /\ Handlers(p, d, s)[b].busy # ""
<1>1. CASE p = "incident"
  <2>1. View(p, d, s) = IncidentView(d, s) /\ Handlers(p, d, s) = IncidentHandlers(d, s)
    BY <1>1, Zenon DEF View, Handlers
  <2>2. b \in {"status", "assign", "escalate"}
    BY <2>1 DEF IncidentView
  <2>3. CASE b = "status"
    <3>1. IncidentView(d, s).presses["status"] \subseteq {""}
      BY WhenIdle DEF IncidentView
    <3>2. IncidentHandlers(d, s)["status"].busy = "status"
      BY SendIsBusy DEF IncidentHandlers
    <3> QED
      BY <2>1, <2>3, <3>1, <3>2
  <2>4. CASE b = "assign"
    <3>1. IncidentView(d, s).presses["assign"] \subseteq {""}
      BY WhenIdle DEF IncidentView
    <3>2. IncidentHandlers(d, s)["assign"].busy = "assignee"
      BY SendIsBusy DEF IncidentHandlers
    <3> QED
      BY <2>1, <2>4, <3>1, <3>2
  <2>5. CASE b = "escalate"
    <3>1. IncidentView(d, s).presses["escalate"] \subseteq {""}
      BY WhenIdle DEF IncidentView
    <3>2. IncidentHandlers(d, s)["escalate"].busy = "case"
      BY SendIsBusy DEF IncidentHandlers
    <3> QED
      BY <2>1, <2>5, <3>1, <3>2
  <2> QED
    BY <2>2, <2>3, <2>4, <2>5
<1>2. CASE p = "case"
  <2>1. View(p, d, s) = CaseView(d, s) /\ Handlers(p, d, s) = CaseHandlers(d, s)
    BY <1>2, Zenon DEF View, Handlers
  <2>2. b \in {"status", "assign", "comment"}
    BY <2>1 DEF CaseView
  <2>3. CASE b = "status"
    <3>1. CaseView(d, s).presses["status"] \subseteq {""}
      BY WhenIdle DEF CaseView
    <3>2. CaseHandlers(d, s)["status"].busy = "status"
      BY SendIsBusy DEF CaseHandlers
    <3> QED
      BY <2>1, <2>3, <3>1, <3>2
  <2>4. CASE b = "assign"
    <3>1. CaseView(d, s).presses["assign"] \subseteq {""}
      BY WhenIdle DEF CaseView
    <3>2. CaseHandlers(d, s)["assign"].busy = "assignee"
      BY SendIsBusy DEF CaseHandlers
    <3> QED
      BY <2>1, <2>4, <3>1, <3>2
  <2>5. CASE b = "comment"
    <3>1. CaseView(d, s).presses["comment"] \subseteq {""}
      BY WhenIdle DEF CaseView
    <3>2. CaseHandlers(d, s)["comment"].busy = "comment"
      BY SendIsBusy DEF CaseHandlers
    <3> QED
      BY <2>1, <2>5, <3>1, <3>2
  <2> QED
    BY <2>2, <2>3, <2>4, <2>5
<1>3. CASE p = "detection"
  <2>1. View(p, d, s) = DetectionView(d, s) /\ Handlers(p, d, s) = DetectionHandlers(d, s)
    BY <1>3, Zenon DEF View, Handlers
  <2>2. b \in {"save"}
    BY <2>1 DEF DetectionView
  <2>3. CASE b = "save"
    <3>1. DetectionView(d, s).presses["save"] \subseteq {""}
      BY WhenIdle DEF DetectionView
    <3>2. DetectionHandlers(d, s)["save"].busy = "save"
      BY SendIsBusy DEF DetectionHandlers
    <3> QED
      BY <2>1, <2>3, <3>1, <3>2
  <2> QED
    BY <2>2, <2>3
<1>4. CASE p = "connector"
  <2>1. View(p, d, s) = ConnectorView(d, s) /\ Handlers(p, d, s) = ConnectorHandlers(d, s)
    BY <1>4, Zenon DEF View, Handlers
  <2>2. b \in {"save", "test"}
    BY <2>1 DEF ConnectorView
  <2>3. CASE b = "save"
    <3>1. ConnectorView(d, s).presses["save"] \subseteq {""}
      BY WhenIdle DEF ConnectorView
    <3>2. ConnectorHandlers(d, s)["save"].busy = "save"
      BY SendIsBusy DEF ConnectorHandlers, Silent
    <3> QED
      BY <2>1, <2>3, <3>1, <3>2
  <2>4. CASE b = "test"
    <3>1. ConnectorView(d, s).presses["test"] \subseteq {""}
      BY WhenIdle DEF ConnectorView
    <3>2. ConnectorHandlers(d, s)["test"].busy = "test"
      BY SendIsBusy DEF ConnectorHandlers, Silent
    <3> QED
      BY <2>1, <2>4, <3>1, <3>2
  <2> QED
    BY <2>2, <2>3, <2>4
<1>5. CASE p = "source"
  <2>1. View(p, d, s) = SourceView(d, s) /\ Handlers(p, d, s) = SourceHandlers(d, s)
    BY <1>5, Zenon DEF View, Handlers
  <2>2. b \in {"save", "test"}
    BY <2>1 DEF SourceView
  <2>3. CASE b = "save"
    <3>1. SourceView(d, s).presses["save"] \subseteq {""}
      BY WhenIdle DEF SourceView
    <3>2. SourceHandlers(d, s)["save"].busy = "save"
      BY SendIsBusy DEF SourceHandlers
    <3> QED
      BY <2>1, <2>3, <3>1, <3>2
  <2>4. CASE b = "test"
    <3>1. SourceView(d, s).presses["test"] \subseteq {""}
      BY WhenIdle DEF SourceView
    <3>2. SourceHandlers(d, s)["test"].busy = "test"
      BY SendIsBusy DEF SourceHandlers
    <3> QED
      BY <2>1, <2>4, <3>1, <3>2
  <2> QED
    BY <2>2, <2>3, <2>4
<1>6. CASE p = "picker"
  <2>1. View(p, d, s) = PickerView(d, s) /\ Handlers(p, d, s) = PickerHandlers(d, s)
    BY <1>6, Zenon DEF View, Handlers
  <2>2. b \in {"create"}
    BY <2>1 DEF PickerView
  <2>3. CASE b = "create"
    <3>1. PickerView(d, s).presses["create"] \subseteq {""}
      BY WhenIdle DEF PickerView
    <3>2. PickerHandlers(d, s)["create"].busy = "create"
      BY SendIsBusy DEF PickerHandlers, Silent
    <3> QED
      BY <2>1, <2>3, <3>1, <3>2
  <2> QED
    BY <2>2, <2>3
<1>7. CASE p = "cases"
  <2>1. View(p, d, s) = CasesView(d, s) /\ Handlers(p, d, s) = CasesHandlers(d, s)
    BY <1>7, Zenon DEF View, Handlers
  <2>2. b \in {"create"}
    BY <2>1 DEF CasesView
  <2>3. CASE b = "create"
    <3>1. CasesView(d, s).presses["create"] \subseteq {""}
      BY WhenIdle DEF CasesView
    <3>2. CasesHandlers(d, s)["create"].busy = "create"
      BY SendIsBusy DEF CasesHandlers, Silent
    <3> QED
      BY <2>1, <2>3, <3>1, <3>2
  <2> QED
    BY <2>2, <2>3
<1>8. CASE p = "assets"
  <2>1. View(p, d, s) = AssetsView(d, s) /\ Handlers(p, d, s) = AssetsHandlers(d, s)
    BY <1>8, Zenon DEF View, Handlers
  <2>2. b \in {"create"}
    BY <2>1 DEF AssetsView
  <2>3. CASE b = "create"
    <3>1. AssetsView(d, s).presses["create"] \subseteq {""}
      BY WhenIdle DEF AssetsView
    <3>2. AssetsHandlers(d, s)["create"].busy = "create"
      BY SendIsBusy DEF AssetsHandlers, Silent
    <3> QED
      BY <2>1, <2>3, <3>1, <3>2
  <2> QED
    BY <2>2, <2>3
<1>9. CASE p = "reports"
  <2>1. View(p, d, s) = ReportsView(d, s) /\ Handlers(p, d, s) = ReportsHandlers(d, s)
    BY <1>9, Zenon DEF View, Handlers
  <2>2. b \in {"generate"}
    BY <2>1 DEF ReportsView
  <2>3. CASE b = "generate"
    <3>1. ReportsView(d, s).presses["generate"] \subseteq {""}
      BY WhenIdle DEF ReportsView
    <3>2. ReportsHandlers(d, s)["generate"].busy = "generate"
      BY SendIsBusy DEF ReportsHandlers, Silent
    <3> QED
      BY <2>1, <2>3, <3>1, <3>2
  <2> QED
    BY <2>2, <2>3
<1> QED
  BY <1>1, <1>2, <1>3, <1>4, <1>5, <1>6, <1>7, <1>8, <1>9 DEF Guarded

-----------------------------------------------------------------------------
(* What becomes of the jobs.                                                *)

(* Replacing a job by one of the same tab and field leaves every other      *)
(* page's work under way as it was, and its own page's, too, if both are    *)
(* watched.                                                                 *)
LEMMA Replaced ==
  ASSUME Shaped, NEW j \in jobs, NEW i, i.tab = j.tab, i.watched = j.watched,
         DOMAIN i = JobField, Becomes(j, i)
  PROVE  /\ \A x \in jobs' : DOMAIN x = JobField /\ x.tab \in Tab
         /\ \A t \in Tab : Underway(t) # {} => Underway(t)' # {}
         /\ \A t \in Tab : (\A x, y \in Underway(t) : x = y) =>
                            (\A x, y \in Underway(t)' : x = y)
         /\ \A t \in Tab : Underway(t) = {} => Underway(t)' = {}
<1>1. jobs' = {x \in (jobs \ {j}) \cup {i} : x.watched \/ x.todo # <<>>}
  BY DEF Becomes, Lasting
<1>2. \A t \in Tab : Underway(t)' =
        (Underway(t) \ {j}) \cup
        (IF t = j.tab /\ j.watched THEN {i} ELSE {})
  BY <1>1 DEF Underway
<1>3. \A t \in Tab : j \in Underway(t) <=> (t = j.tab /\ j.watched)
  BY DEF Underway
<1>4. \A x \in jobs' : DOMAIN x = JobField /\ x.tab \in Tab
  BY <1>1 DEF Shaped
<1>5. \A t \in Tab : (\A x, y \in Underway(t) : x = y) =>
                     (\A x, y \in Underway(t)' : x = y)
  BY <1>2, <1>3
<1>6. \A t \in Tab : (Underway(t) # {} => Underway(t)' # {}) /\ (Underway(t) = {} => Underway(t)' = {})
  BY <1>2, <1>3
<1> QED
  BY <1>4, <1>5, <1>6

(* A page that is left has nothing under way, the others what they had.     *)
LEMMA Left ==
  ASSUME NEW J, NEW t \in Tab,
         \A j \in J : DOMAIN j = JobField /\ j.tab \in Tab
  PROVE  /\ \A x \in LeftBy(t, J) : DOMAIN x = JobField /\ x.tab \in Tab
         /\ {x \in LeftBy(t, J) : x.tab = t /\ x.watched} = {}
         /\ \A u \in Tab \ {t} : {x \in LeftBy(t, J) : x.tab = u /\ x.watched}
                                = {x \in J : x.tab = u /\ x.watched}
<1>1. \A j \in J : /\ DOMAIN Unwatch(j) = JobField
                   /\ Unwatch(j).tab = j.tab /\ Unwatch(j).watched = FALSE
  BY DEF Unwatch, JobField
<1> QED
  BY <1>1 DEF LeftBy, Lasting

-----------------------------------------------------------------------------
(* A page that nothing happens to, or whose requests only advance.          *)
LEMMA Unchanged ==
  ASSUME NEW t \in Tab, TabInv(t), page' = page,
         form'[t].open = form[t].open, form'[t].busy = form[t].busy,
         \/ Underway(t)' = Underway(t)
         \/ /\ Underway(t) # {} => Underway(t)' # {}
            /\ Underway(t) = {} => Underway(t)' = {}
            /\ (\A i, j \in Underway(t) : i = j) =>
                 (\A i, j \in Underway(t)' : i = j)
  PROVE  TabInv(t)'
  BY DEF TabInv

LEMMA FormInvHolds == Spec => []FormInv
<1>1. Init => FormInv
  <2> SUFFICES ASSUME Init PROVE FormInv
    OBVIOUS
  <2>1. \A t \in Tab : form[t] = Loaded(stored)
    BY DEF Init
  <2>2. /\ DOMAIN Loaded(stored) = TabField
        /\ Loaded(stored).busy = "" /\ Loaded(stored).open
    BY DEF Loaded, TabField
  <2>3. Shaped /\ \A t \in Tab : Underway(t) = {}
    BY <2>1, <2>2 DEF Init, Shaped, Underway
  <2> QED
    BY <2>1, <2>2, <2>3 DEF FormInv, TabInv
<1>2. FormInv /\ [Next]_vars => FormInv'
  <2> SUFFICES ASSUME FormInv, [Next]_vars PROVE Shaped' /\ \A u \in Tab : TabInv(u)'
    BY DEF FormInv
  <2> DEFINE Goal == Shaped' /\ \A u \in Tab : TabInv(u)'
  <2>0. Shaped /\ \A u \in Tab : TabInv(u)
    BY DEF FormInv
  <2>1. ASSUME NEW t \in Tab, Edit(t) PROVE Goal
    <3>1. PICK f \in View(page, form[t].draft, form[t].saved).inputs :
            form' = [form EXCEPT ![t].draft[f] = 1 - @, ![t].touched = @ \cup {f}]
      BY <2>1 DEF Edit
    <3>2. /\ DOMAIN form' = Tab
          /\ \A u \in Tab : /\ DOMAIN form'[u] = TabField
                            /\ form'[u].open = form[u].open
                            /\ form'[u].busy = form[u].busy
      BY <2>0, <3>1 DEF Shaped, TabField
    <3>3. jobs' = jobs /\ page' = page
      BY <2>1 DEF Edit
    <3>4. Shaped'
      BY <2>0, <3>2, <3>3 DEF Shaped
    <3>5. \A u \in Tab : Underway(u)' = Underway(u)
      BY <3>3 DEF Underway
    <3> QED
      BY <2>0, <3>2, <3>3, <3>4, <3>5, Unchanged
  <2>2. ASSUME NEW t \in Tab, Press(t) PROVE Goal
    <3> DEFINE now  == form[t]
               view == View(page, now.draft, now.saved)
    <3>1. PICK b \in DOMAIN view.presses :
            LET h == Handlers(page, now.draft, now.saved)[b] IN
            /\ now.busy \in view.presses[b]
            /\ form' = [form EXCEPT ![t] =
                 [now EXCEPT !.busy   = h.busy,
                             !.notice = IF h.clears THEN "" ELSE @,
                             !.draft  = With(@, h.before),
                             !.touched = @ \cup DOMAIN h.before,
                             !.behind = @ \/ Underway(t) # {}]]
            /\ jobs' = jobs \cup
                 {[n |-> MaxPresses - budget.presses + 1, tab |-> t, button |-> b,
                   handler |-> h, todo |-> h.bodies, sent |-> h.bodies,
                   prev |-> Only(now.draft, DOMAIN h.before),
                   state |-> "out", copy |-> <<>>, watched |-> TRUE]}
      BY <2>2 DEF Press
    <3> DEFINE h == Handlers(page, now.draft, now.saved)[b]
               new == [n |-> MaxPresses - budget.presses + 1, tab |-> t, button |-> b,
                       handler |-> h, todo |-> h.bodies, sent |-> h.bodies,
                       prev |-> Only(now.draft, DOMAIN h.before),
                       state |-> "out", copy |-> <<>>, watched |-> TRUE]
    <3>2. /\ jobs' = jobs \cup {new} /\ new.tab = t /\ new.watched
          /\ DOMAIN new = JobField
      BY <3>1 DEF JobField
    <3>3. /\ DOMAIN form' = Tab /\ DOMAIN form'[t] = TabField
          /\ form'[t].busy = h.busy /\ form'[t].open = now.open
          /\ \A u \in Tab \ {t} : form'[u] = form[u]
      BY <2>0, <3>1 DEF Shaped, TabField
    <3>4. ASSUME page \in Guarded PROVE now.busy = "" /\ h.busy # ""
      <4>1. \A d, s : \A x \in DOMAIN View(page, d, s).presses :
              /\ View(page, d, s).presses[x] \subseteq {""}
              /\ Handlers(page, d, s)[x].busy # ""
        BY <3>4, GuardedButtons
      <4>2. view.presses[b] \subseteq {""} /\ h.busy # ""
        BY <4>1, Zenon
      <4> QED
        BY <3>1, <4>2
    <3> HIDE DEF new, h
    <3>5. Underway(t)' = Underway(t) \cup {new}
      BY <3>2 DEF Underway
    <3>6. \A u \in Tab \ {t} : Underway(u)' = Underway(u)
      BY <3>2 DEF Underway
    <3>7. page' = page /\ now.open
      BY <2>2 DEF Press
    <3>8. Shaped'
      BY <2>0, <3>2, <3>3 DEF Shaped
    <3>9. TabInv(t)'
      BY <2>0, <3>3, <3>4, <3>5, <3>7 DEF TabInv
    <3>10. \A u \in Tab \ {t} : TabInv(u)'
      BY <2>0, <3>3, <3>6, <3>7, Unchanged
    <3> QED
      BY <3>8, <3>9, <3>10
  <2>3. ASSUME NEW t \in Tab, Leave(t) PROVE Goal
    <3>1. /\ DOMAIN form' = Tab /\ DOMAIN form'[t] = TabField
          /\ form'[t].open = FALSE
          /\ \A u \in Tab \ {t} : form'[u] = form[u]
      BY <2>0, <2>3 DEF Leave, Loaded, Shaped, TabField
    <3>2. /\ \A x \in jobs' : DOMAIN x = JobField /\ x.tab \in Tab
          /\ Underway(t)' = {}
          /\ \A u \in Tab \ {t} : Underway(u)' = Underway(u)
      BY <2>0, <2>3, Left DEF Leave, Shaped, Underway
    <3>3. Shaped' /\ page' = page
      BY <2>0, <2>3, <3>1, <3>2 DEF Leave, Shaped
    <3>4. TabInv(t)'
      BY <3>1, <3>2 DEF TabInv
    <3> QED
      BY <2>0, <3>1, <3>2, <3>3, <3>4, Unchanged
  <2>4. ASSUME NEW t \in Tab, Open(t) PROVE Goal
    <3>1. /\ DOMAIN form' = Tab /\ DOMAIN form'[t] = TabField
          /\ form'[t].busy = "" /\ form'[t].open
          /\ \A u \in Tab \ {t} : form'[u] = form[u]
      BY <2>0, <2>4 DEF Open, Loaded, Shaped, TabField
    <3>2. jobs' = jobs /\ page' = page /\ ~form[t].open
      BY <2>4 DEF Open
    <3>3. Shaped'
      BY <2>0, <3>1, <3>2 DEF Shaped
    <3>4. \A u \in Tab : Underway(u)' = Underway(u)
      BY <3>2 DEF Underway
    <3>5. TabInv(t)'
      BY <2>0, <3>1, <3>2, <3>4 DEF TabInv
    <3> QED
      BY <2>0, <3>1, <3>2, <3>3, <3>4, <3>5, Unchanged
  <2>5. ASSUME NEW j \in jobs, NEW i, Becomes(j, i), page' = page,
               DOMAIN i = JobField, i.tab = j.tab, i.watched = j.watched,
               DOMAIN form' = Tab,
               \A u \in Tab : /\ DOMAIN form'[u] = TabField
                             /\ form'[u].open = form[u].open
                             /\ form'[u].busy = form[u].busy
        PROVE  Goal
    BY <2>0, <2>5, Replaced, Unchanged DEF Shaped
  <2>6. \A j \in jobs : \A k, r :
          /\ DOMAIN Answer(j, k, r) = JobField /\ DOMAIN Failure(j, k) = JobField
          /\ Answer(j, k, r).tab = j.tab /\ Failure(j, k).tab = j.tab
          /\ Answer(j, k, r).watched = j.watched
          /\ Failure(j, k).watched = j.watched
    BY <2>0 DEF Answer, Failure, Shaped, JobField
  <2>7. ASSUME NEW j \in jobs, NEW k \in Ready(j), Serve(j, k) PROVE Goal
    <3>1. page' = page /\ \E lost \in BOOLEAN : form' = Unheard(j, lost)
      BY <2>7 DEF Serve
    <3>2. /\ DOMAIN form' = Tab
          /\ \A u \in Tab : /\ DOMAIN form'[u] = TabField
                            /\ form'[u].open = form[u].open
                            /\ form'[u].busy = form[u].busy
      BY <2>0, <3>1 DEF Unheard, Shaped, TabField
    <3>3. PICK i \in {Answer(j, k, stored'), Failure(j, k)} : Becomes(j, i)
      BY <2>7 DEF Serve
    <3> QED
      BY <2>5, <2>6, <3>1, <3>2, <3>3
  <2>8. ASSUME NEW j \in jobs, NEW k \in Ready(j), Refuse(j, k) PROVE Goal
    BY <2>0, <2>5, <2>6, <2>8 DEF Refuse, Shaped
  <2>9. ASSUME NEW j \in jobs, Settle(j) PROVE Goal
    <3> DEFINE t == j.tab
               rest == Lasting((jobs \ {j}) \cup {Unwatch(j)})
               new == IF j.state = "ok" THEN Succeed(form[t], j) ELSE Fail(form[t], j)
    <3>1. t \in Tab /\ j \in Underway(t) /\ form[t].open
      BY <2>0, <2>9 DEF Settle, Shaped, Underway, TabInv
    <3>2. /\ DOMAIN new = TabField
          /\ new.open => new.busy = ""
      BY <2>0, <3>1 DEF Succeed, Fail, Shaped, TabField
    <3>3. /\ DOMAIN form' = Tab /\ form'[t] = new
          /\ \A u \in Tab \ {t} : form'[u] = form[u]
      BY <2>0, <2>9, <3>1 DEF Settle, Shaped
    <3>4. /\ DOMAIN Unwatch(j) = JobField
          /\ Unwatch(j).tab = t /\ Unwatch(j).watched = FALSE
      BY <2>0 DEF Unwatch, Shaped, JobField
    <3>5. /\ \A x \in rest : DOMAIN x = JobField /\ x.tab \in Tab
          /\ {x \in rest : x.tab = t /\ x.watched} = Underway(t) \ {j}
          /\ \A u \in Tab \ {t} : {x \in rest : x.tab = u /\ x.watched} = Underway(u)
      BY <2>0, <3>1, <3>4 DEF Lasting, Underway, Shaped
    <3>6. page' = page /\ jobs' = IF new.open THEN rest ELSE LeftBy(t, rest)
      BY <2>9, <3>3 DEF Settle
    <3> HIDE DEF new, rest
    <3>7. /\ \A x \in jobs' : DOMAIN x = JobField /\ x.tab \in Tab
          /\ Underway(t)' = IF new.open THEN Underway(t) \ {j} ELSE {}
          /\ \A u \in Tab \ {t} : Underway(u)' = Underway(u)
      BY <3>1, <3>5, <3>6, Left DEF Underway
    <3>8. Shaped'
      BY <2>0, <3>2, <3>3, <3>7 DEF Shaped
    <3>9. TabInv(t)'
      BY <2>0, <3>1, <3>2, <3>3, <3>6, <3>7 DEF TabInv
    <3> QED
      BY <2>0, <3>3, <3>6, <3>7, <3>8, <3>9, Unchanged
  <2>10. CASE UNCHANGED vars
    BY <2>0, <2>10, Unchanged DEF vars, Shaped, Underway
  <2> QED
    BY <2>1, <2>2, <2>3, <2>4, <2>7, <2>8, <2>9, <2>10 DEF Next
<1> QED
  BY <1>1, <1>2, PTL DEF Spec

(* However requests and replies cross, fail or get lost, a page that spins  *)
(* has something under way that will stop it.                               *)
THEOREM NoPageIsStuck == Spec => []NeverStuck
<1>1. FormInv => NeverStuck
  BY DEF FormInv, TabInv, NeverStuck
<1> QED
  BY <1>1, FormInvHolds, PTL

(* A page whose buttons are all off while it is busy has one request under  *)
(* way at most, and shows it: no second press overtakes the first.          *)
THEOREM RequestsDoNotOverlap == Spec => []OneRequestPerPage
<1>1. FormInv => OneRequestPerPage
  BY DEF FormInv, TabInv, OneRequestPerPage
<1> QED
  BY <1>1, FormInvHolds, PTL

-----------------------------------------------------------------------------
(* The pages whose buttons send no more than what was pressed.              *)
Narrow == {"incident", "case", "automation", "monitors", "integrations", "rules"}

LEMMA SendsBodies ==
  ASSUME NEW busy, NEW bodies
  PROVE  "bodies" \in DOMAIN Send(busy, bodies) /\ Send(busy, bodies).bodies = bodies
  BY DEF Send

(* A sequence of bodies that write the fields F only.                       *)
Writes(bodies, F) == \E B : bodies \in Seq(B) /\ \A x \in B : DOMAIN x \subseteq F

LEMMA OneBody ==
  ASSUME NEW x, NEW F, DOMAIN x \subseteq F PROVE Writes(<<x>>, F)
<1>1. PICK B : B = {x}
  OBVIOUS
<1>2. <<x>> \in Seq(B) /\ \A z \in B : DOMAIN z \subseteq F
  BY <1>1
<1> QED
  BY <1>2, Zenon DEF Writes

LEMMA TwoBodies ==
  ASSUME NEW x, NEW y, NEW F, DOMAIN x \subseteq F, DOMAIN y \subseteq F
  PROVE  Writes(<<x, y>>, F)
<1>1. PICK B : B = {x, y}
  OBVIOUS
<1>2. <<x, y>> \in Seq(B) /\ \A z \in B : DOMAIN z \subseteq F
  BY <1>1
<1> QED
  BY <1>2, Zenon DEF Writes

LEMMA NarrowBodies ==
  ASSUME NEW p \in Narrow, NEW d, NEW s, NEW b \in DOMAIN View(p, d, s).presses,
         NEW j, j.button = b
  PROVE  Writes(Handlers(p, d, s)[b].bodies, Meant(j))
<1>1. CASE p = "incident"
  <2>1. View(p, d, s) = IncidentView(d, s) /\ Handlers(p, d, s) = IncidentHandlers(d, s)
    BY <1>1, Zenon DEF View, Handlers
  <2>2. b \in {"status", "assign", "escalate"}
    BY <2>1 DEF IncidentView
  <2>3. CASE b = "status"
    <3>1. IncidentHandlers(d, s)["status"].bodies =
            <<Only(d, {"status"})>>
      BY SendsBodies DEF IncidentHandlers
    <3>2. Meant(j) = {"status"}
      BY <2>3 DEF Meant
    <3>3. DOMAIN Only(d, {"status"}) \subseteq {"status"}
      BY DEF Only
    <3> QED
      BY <2>1, <2>3, <3>1, <3>2, <3>3, OneBody
  <2>4. CASE b = "assign"
    <3>1. IncidentHandlers(d, s)["assign"].bodies =
            <<Only(d, {"assignee"})>>
      BY SendsBodies DEF IncidentHandlers
    <3>2. Meant(j) = {"assignee"}
      BY <2>4 DEF Meant
    <3>3. DOMAIN Only(d, {"assignee"}) \subseteq {"assignee"}
      BY DEF Only
    <3> QED
      BY <2>1, <2>4, <3>1, <3>2, <3>3, OneBody
  <2>5. CASE b = "escalate"
    <3>1. IncidentHandlers(d, s)["escalate"].bodies =
            <<[cases |-> 1]>>
      BY SendsBodies DEF IncidentHandlers
    <3>2. Meant(j) = {"cases"}
      BY <2>5 DEF Meant
    <3>3. DOMAIN [cases |-> 1] \subseteq {"cases"}
      BY DEF Only
    <3> QED
      BY <2>1, <2>5, <3>1, <3>2, <3>3, OneBody
  <2> QED
    BY <2>2, <2>3, <2>4, <2>5
<1>2. CASE p = "case"
  <2>1. View(p, d, s) = CaseView(d, s) /\ Handlers(p, d, s) = CaseHandlers(d, s)
    BY <1>2, Zenon DEF View, Handlers
  <2>2. b \in {"status", "assign", "comment"}
    BY <2>1 DEF CaseView
  <2>3. CASE b = "status"
    <3>1. CaseHandlers(d, s)["status"].bodies =
            <<Only(d, {"status"})>>
      BY SendsBodies DEF CaseHandlers
    <3>2. Meant(j) = {"status"}
      BY <2>3 DEF Meant
    <3>3. DOMAIN Only(d, {"status"}) \subseteq {"status"}
      BY DEF Only
    <3> QED
      BY <2>1, <2>3, <3>1, <3>2, <3>3, OneBody
  <2>4. CASE b = "assign"
    <3>1. CaseHandlers(d, s)["assign"].bodies =
            <<Only(d, {"assignee"})>>
      BY SendsBodies DEF CaseHandlers
    <3>2. Meant(j) = {"assignee"}
      BY <2>4 DEF Meant
    <3>3. DOMAIN Only(d, {"assignee"}) \subseteq {"assignee"}
      BY DEF Only
    <3> QED
      BY <2>1, <2>4, <3>1, <3>2, <3>3, OneBody
  <2>5. CASE b = "comment"
    <3>1. CaseHandlers(d, s)["comment"].bodies =
            <<[comments |-> 1]>>
      BY SendsBodies DEF CaseHandlers
    <3>2. Meant(j) = {"comments"}
      BY <2>5 DEF Meant
    <3>3. DOMAIN [comments |-> 1] \subseteq {"comments"}
      BY DEF Only
    <3> QED
      BY <2>1, <2>5, <3>1, <3>2, <3>3, OneBody
  <2> QED
    BY <2>2, <2>3, <2>4, <2>5
<1>3. CASE p = "automation"
  <2>1. View(p, d, s) = AutomationView(d, s) /\ Handlers(p, d, s) = AutomationHandlers(d, s)
    BY <1>3, Zenon DEF View, Handlers
  <2>2. b \in {"notify", "block_ip", "isolate_host", "kill", "approve", "deny"}
    <3>1. \E q : AutomationView(d, s).presses =
                   [notify |-> q[1], block_ip |-> q[2], isolate_host |-> q[3],
                    kill |-> q[4], approve |-> q[5], deny |-> q[6]]
      <4> DEFINE Busy == {"", "notify", "block_ip", "isolate_host", "kill", "decide"}
                 q == [i \in 1 .. 6 |->
                         CASE i = 1 -> Busy \ {"notify"}
                           [] i = 2 -> Busy \ {"block_ip"}
                           [] i = 3 -> Busy \ {"isolate_host"}
                           [] i = 4 -> Idle
                           [] OTHER -> When(s["verdict"] = 0)]
      <4>1. /\ q[1] = Busy \ {"notify"} /\ q[2] = Busy \ {"block_ip"}
            /\ q[3] = Busy \ {"isolate_host"} /\ q[4] = Idle
            /\ q[5] = When(s["verdict"] = 0) /\ q[6] = When(s["verdict"] = 0)
        OBVIOUS
      <4> QED
        BY <4>1, Zenon DEF AutomationView
    <3> QED
      BY <2>1, <3>1
  <2>3. CASE b = "notify"
    <3>1. AutomationHandlers(d, s)["notify"].bodies =
            <<[f \in {"notify"} |-> 1 - d["notify"]]>>
      BY SendsBodies DEF AutomationHandlers, ModeHandler
    <3>2. Meant(j) = {"notify"}
      BY <2>3 DEF Meant
    <3>3. DOMAIN [f \in {"notify"} |-> 1 - d["notify"]] \subseteq {"notify"}
      BY DEF Only
    <3> QED
      BY <2>1, <2>3, <3>1, <3>2, <3>3, OneBody
  <2>4. CASE b = "block_ip"
    <3>1. AutomationHandlers(d, s)["block_ip"].bodies =
            <<[f \in {"block_ip"} |-> 1 - d["block_ip"]]>>
      BY SendsBodies DEF AutomationHandlers, ModeHandler
    <3>2. Meant(j) = {"block_ip"}
      BY <2>4 DEF Meant
    <3>3. DOMAIN [f \in {"block_ip"} |-> 1 - d["block_ip"]] \subseteq {"block_ip"}
      BY DEF Only
    <3> QED
      BY <2>1, <2>4, <3>1, <3>2, <3>3, OneBody
  <2>5. CASE b = "isolate_host"
    <3>1. AutomationHandlers(d, s)["isolate_host"].bodies =
            <<[f \in {"isolate_host"} |-> 1 - d["isolate_host"]]>>
      BY SendsBodies DEF AutomationHandlers, ModeHandler
    <3>2. Meant(j) = {"isolate_host"}
      BY <2>5 DEF Meant
    <3>3. DOMAIN [f \in {"isolate_host"} |-> 1 - d["isolate_host"]] \subseteq {"isolate_host"}
      BY DEF Only
    <3> QED
      BY <2>1, <2>5, <3>1, <3>2, <3>3, OneBody
  <2>6. CASE b = "kill"
    <3>1. AutomationHandlers(d, s)["kill"].bodies =
            <<[block_ip |-> 1], [isolate_host |-> 1]>>
      BY SendsBodies DEF AutomationHandlers, KillSwitch
    <3>2. Meant(j) = Destructive
      BY <2>6 DEF Meant
    <3>3. /\ DOMAIN [block_ip |-> 1] \subseteq Destructive
          /\ DOMAIN [isolate_host |-> 1] \subseteq Destructive
      BY DEF Destructive
    <3> QED
      BY <2>1, <2>6, <3>1, <3>2, <3>3, TwoBodies
  <2>7. CASE b = "approve"
    <3>1. AutomationHandlers(d, s)["approve"].bodies =
            <<[verdict |-> 1]>>
      BY SendsBodies DEF AutomationHandlers, Decision
    <3>2. Meant(j) = {"verdict"}
      BY <2>7 DEF Meant
    <3>3. DOMAIN [verdict |-> 1] \subseteq {"verdict"}
      BY DEF Only
    <3> QED
      BY <2>1, <2>7, <3>1, <3>2, <3>3, OneBody
  <2>8. CASE b = "deny"
    <3>1. AutomationHandlers(d, s)["deny"].bodies =
            <<[verdict |-> 2]>>
      BY SendsBodies DEF AutomationHandlers, Decision
    <3>2. Meant(j) = {"verdict"}
      BY <2>8 DEF Meant
    <3>3. DOMAIN [verdict |-> 2] \subseteq {"verdict"}
      BY DEF Only
    <3> QED
      BY <2>1, <2>8, <3>1, <3>2, <3>3, OneBody
  <2> QED
    BY <2>2, <2>3, <2>4, <2>5, <2>6, <2>7, <2>8
<1>4. CASE p = "monitors"
  <2>1. View(p, d, s) = MonitorView(d, s) /\ Handlers(p, d, s) = MonitorHandlers(d, s)
    BY <1>4, Zenon DEF View, Handlers
  <2>2. b \in {"use1", "use2", "drop1", "drop2", "import"}
    BY <2>1 DEF MonitorView
  <2>3. CASE b = "use1"
    <3>1. MonitorHandlers(d, s)["use1"].bodies =
            <<[f \in {"row1"} |-> 1]>>
      BY SendsBodies DEF MonitorHandlers, RowSend, Silent
    <3>2. Meant(j) = {"row1"}
      BY <2>3 DEF Meant
    <3>3. DOMAIN [f \in {"row1"} |-> 1] \subseteq {"row1"}
      BY DEF Only
    <3> QED
      BY <2>1, <2>3, <3>1, <3>2, <3>3, OneBody
  <2>4. CASE b = "use2"
    <3>1. MonitorHandlers(d, s)["use2"].bodies =
            <<[f \in {"row2"} |-> 1]>>
      BY SendsBodies DEF MonitorHandlers, RowSend, Silent
    <3>2. Meant(j) = {"row2"}
      BY <2>4 DEF Meant
    <3>3. DOMAIN [f \in {"row2"} |-> 1] \subseteq {"row2"}
      BY DEF Only
    <3> QED
      BY <2>1, <2>4, <3>1, <3>2, <3>3, OneBody
  <2>5. CASE b = "drop1"
    <3>1. MonitorHandlers(d, s)["drop1"].bodies =
            <<[f \in {"row1"} |-> Gone]>>
      BY SendsBodies DEF MonitorHandlers, RowSend, Silent
    <3>2. Meant(j) = {"row1"}
      BY <2>5 DEF Meant
    <3>3. DOMAIN [f \in {"row1"} |-> Gone] \subseteq {"row1"}
      BY DEF Only
    <3> QED
      BY <2>1, <2>5, <3>1, <3>2, <3>3, OneBody
  <2>6. CASE b = "drop2"
    <3>1. MonitorHandlers(d, s)["drop2"].bodies =
            <<[f \in {"row2"} |-> Gone]>>
      BY SendsBodies DEF MonitorHandlers, RowSend, Silent
    <3>2. Meant(j) = {"row2"}
      BY <2>6 DEF Meant
    <3>3. DOMAIN [f \in {"row2"} |-> Gone] \subseteq {"row2"}
      BY DEF Only
    <3> QED
      BY <2>1, <2>6, <3>1, <3>2, <3>3, OneBody
  <2>7. CASE b = "import"
    <3>1. MonitorHandlers(d, s)["import"].bodies =
            <<[items |-> 1]>>
      BY SendsBodies DEF MonitorHandlers, Silent
    <3>2. Meant(j) = {"items"}
      BY <2>7 DEF Meant
    <3>3. DOMAIN [items |-> 1] \subseteq {"items"}
      BY DEF Only
    <3> QED
      BY <2>1, <2>7, <3>1, <3>2, <3>3, OneBody
  <2> QED
    BY <2>2, <2>3, <2>4, <2>5, <2>6, <2>7
<1>5. CASE p = "integrations"
  <2>1. View(p, d, s) = IntegrationView(d, s) /\ Handlers(p, d, s) = IntegrationHandlers(d, s)
    BY <1>5, Zenon DEF View, Handlers
  <2>2. b \in {"use1", "use2", "drop1", "drop2"}
    BY <2>1 DEF IntegrationView
  <2>3. CASE b = "use1"
    <3>1. IntegrationHandlers(d, s)["use1"].bodies =
            <<[f \in {"row1"} |-> 1]>>
      BY SendsBodies DEF IntegrationHandlers, RowSend, Silent
    <3>2. Meant(j) = {"row1"}
      BY <2>3 DEF Meant
    <3>3. DOMAIN [f \in {"row1"} |-> 1] \subseteq {"row1"}
      BY DEF Only
    <3> QED
      BY <2>1, <2>3, <3>1, <3>2, <3>3, OneBody
  <2>4. CASE b = "use2"
    <3>1. IntegrationHandlers(d, s)["use2"].bodies =
            <<[f \in {"row2"} |-> 1]>>
      BY SendsBodies DEF IntegrationHandlers, RowSend, Silent
    <3>2. Meant(j) = {"row2"}
      BY <2>4 DEF Meant
    <3>3. DOMAIN [f \in {"row2"} |-> 1] \subseteq {"row2"}
      BY DEF Only
    <3> QED
      BY <2>1, <2>4, <3>1, <3>2, <3>3, OneBody
  <2>5. CASE b = "drop1"
    <3>1. IntegrationHandlers(d, s)["drop1"].bodies =
            <<[f \in {"row1"} |-> Gone]>>
      BY SendsBodies DEF IntegrationHandlers, RowSend, Silent
    <3>2. Meant(j) = {"row1"}
      BY <2>5 DEF Meant
    <3>3. DOMAIN [f \in {"row1"} |-> Gone] \subseteq {"row1"}
      BY DEF Only
    <3> QED
      BY <2>1, <2>5, <3>1, <3>2, <3>3, OneBody
  <2>6. CASE b = "drop2"
    <3>1. IntegrationHandlers(d, s)["drop2"].bodies =
            <<[f \in {"row2"} |-> Gone]>>
      BY SendsBodies DEF IntegrationHandlers, RowSend, Silent
    <3>2. Meant(j) = {"row2"}
      BY <2>6 DEF Meant
    <3>3. DOMAIN [f \in {"row2"} |-> Gone] \subseteq {"row2"}
      BY DEF Only
    <3> QED
      BY <2>1, <2>6, <3>1, <3>2, <3>3, OneBody
  <2> QED
    BY <2>2, <2>3, <2>4, <2>5, <2>6
<1>6. CASE p = "rules"
  <2>1. View(p, d, s) = RulesView(d, s) /\ Handlers(p, d, s) = RulesHandlers(d, s)
    BY <1>6, Zenon DEF View, Handlers
  <2>2. b \in {"drop1", "drop2"}
    BY <2>1 DEF RulesView
  <2>3. CASE b = "drop1"
    <3>1. RulesHandlers(d, s)["drop1"].bodies =
            <<[f \in {"row1"} |-> Gone]>>
      BY SendsBodies DEF RulesHandlers, RowSend, Silent
    <3>2. Meant(j) = {"row1"}
      BY <2>3 DEF Meant
    <3>3. DOMAIN [f \in {"row1"} |-> Gone] \subseteq {"row1"}
      BY DEF Only
    <3> QED
      BY <2>1, <2>3, <3>1, <3>2, <3>3, OneBody
  <2>4. CASE b = "drop2"
    <3>1. RulesHandlers(d, s)["drop2"].bodies =
            <<[f \in {"row2"} |-> Gone]>>
      BY SendsBodies DEF RulesHandlers, RowSend, Silent
    <3>2. Meant(j) = {"row2"}
      BY <2>4 DEF Meant
    <3>3. DOMAIN [f \in {"row2"} |-> Gone] \subseteq {"row2"}
      BY DEF Only
    <3> QED
      BY <2>1, <2>4, <3>1, <3>2, <3>3, OneBody
  <2> QED
    BY <2>2, <2>3, <2>4
<1> QED
  BY <1>1, <1>2, <1>3, <1>4, <1>5, <1>6 DEF Narrow

(* What is left of a job's bodies is fewer of them.                         *)
LEMMA FewerBodies ==
  ASSUME NEW s, NEW F, Writes(s, F), NEW k \in DOMAIN s
  PROVE  /\ Writes(RemoveAt(s, k), F) /\ RemoveAt(s, k) # s
         /\ Writes(<<>>, F) /\ <<>> # s
         /\ DOMAIN s[k] \subseteq F
<1>1. PICK B : s \in Seq(B) /\ \A x \in B : DOMAIN x \subseteq F
  BY DEF Writes
<1>2. k \in 1 .. Len(s) /\ s[k] \in B
  BY <1>1
<1>3. PICK u : u = SubSeq(s, 1, k - 1)
  OBVIOUS
<1>4. PICK v : v = SubSeq(s, k + 1, Len(s))
  OBVIOUS
<1>5. u \in Seq(B) /\ Len(u) = k - 1
  BY <1>1, <1>2, <1>3
<1>6. v \in Seq(B) /\ Len(v) = Len(s) - k
  BY <1>1, <1>2, <1>4
<1>7. RemoveAt(s, k) = u \o v
  BY <1>3, <1>4 DEF RemoveAt
<1>8. u \o v \in Seq(B) /\ Len(u \o v) = Len(s) - 1
  BY <1>1, <1>2, <1>5, <1>6
<1>9. Len(s) \in Nat /\ u \o v # s
  BY <1>1, <1>8
<1>10. <<>> \in Seq(B) /\ <<>> # s
  BY <1>1, <1>2
<1> QED
  BY <1>1, <1>2, <1>7, <1>8, <1>9, <1>10 DEF Writes

(* The record keeps its fields, and on the narrow pages whatever is still   *)
(* to be sent writes what its button is meant to write.                     *)
MeantInv ==
  /\ DOMAIN stored = FieldsOf(page)
  /\ page \in Narrow => \A j \in jobs : Writes(j.todo, Meant(j))

(* What a request leaves of its job's bodies.                               *)
LEMMA AfterRequest ==
  ASSUME Shaped, NEW j \in jobs, NEW k \in Ready(j), NEW r, NEW F, Writes(j.todo, F)
  PROVE  /\ DOMAIN j.todo[k] \subseteq F
         /\ \A i \in {Answer(j, k, r), Failure(j, k)} :
              /\ i # j /\ i.button = j.button
              /\ Writes(i.todo, F)
<1>1. k \in DOMAIN j.todo /\ DOMAIN j = JobField
  BY DEF Ready, Shaped
<1>2. PICK rest : rest = RemoveAt(j.todo, k)
  OBVIOUS
<1>3. /\ Writes(rest, F) /\ rest # j.todo /\ Writes(<<>>, F) /\ <<>> # j.todo
      /\ DOMAIN j.todo[k] \subseteq F
  BY <1>1, <1>2, FewerBodies
<1>4. Answer(j, k, r).todo = rest /\ Answer(j, k, r).button = j.button
  BY <1>1, <1>2 DEF Answer, JobField
<1>5. Failure(j, k).todo \in {rest, <<>>} /\ Failure(j, k).button = j.button
  BY <1>1, <1>2 DEF Failure, JobField
<1> QED
  BY <1>3, <1>4, <1>5

(* Giving up the reply changes nothing of what is still to be sent.         *)
LEMMA AfterLeaving ==
  ASSUME NEW J, \A j \in J : DOMAIN j = JobField,
         \A j \in J : Writes(j.todo, Meant(j)), NEW t
  PROVE  /\ \A j \in LeftBy(t, J) : Writes(j.todo, Meant(j))
         /\ \A j \in J : Unwatch(j).todo = j.todo /\ Meant(Unwatch(j)) = Meant(j)
<1>1. \A j \in J : Unwatch(j).todo = j.todo /\ Unwatch(j).button = j.button
  BY DEF Unwatch, JobField
<1>2. \A j \in J : Meant(Unwatch(j)) = Meant(j)
  BY <1>1, Zenon DEF Meant
<1>3. \A i \in LeftBy(t, J) : \E j \in J : i \in {j, Unwatch(j)}
  BY DEF LeftBy, Lasting
<1> QED
  BY <1>1, <1>2, <1>3

LEMMA MeantInvHolds == Spec => []MeantInv
<1>1. Init => MeantInv
  BY DEF Init, MeantInv
<1>2. FormInv /\ MeantInv /\ [Next]_vars => MeantInv'
  <2> SUFFICES ASSUME FormInv, MeantInv, [Next]_vars PROVE MeantInv'
    OBVIOUS
  <2>0. Shaped /\ DOMAIN stored = FieldsOf(page)
    BY DEF FormInv, MeantInv
  <2>1. ASSUME UNCHANGED <<page, stored, jobs>> PROVE MeantInv'
    BY <2>1 DEF MeantInv, Meant
  <2>2. ASSUME NEW t \in Tab, Press(t) PROVE MeantInv'
    <3> DEFINE view == View(page, form[t].draft, form[t].saved)
    <3>1. PICK b \in DOMAIN view.presses :
            LET h == Handlers(page, form[t].draft, form[t].saved)[b] IN
            jobs' = jobs \cup
                 {[n |-> MaxPresses - budget.presses + 1, tab |-> t, button |-> b,
                   handler |-> h, todo |-> h.bodies, sent |-> h.bodies,
                   prev |-> Only(form[t].draft, DOMAIN h.before),
                   state |-> "out", copy |-> <<>>, watched |-> TRUE]}
      BY <2>2 DEF Press
    <3> DEFINE h == Handlers(page, form[t].draft, form[t].saved)[b]
    <3> DEFINE job == [n |-> MaxPresses - budget.presses + 1, tab |-> t, button |-> b,
                       handler |-> h, todo |-> h.bodies, sent |-> h.bodies,
                       prev |-> Only(form[t].draft, DOMAIN h.before),
                       state |-> "out", copy |-> <<>>, watched |-> TRUE]
    <3>2. PICK new : /\ jobs' = jobs \cup {new}
                     /\ new.button = b /\ new.todo = h.bodies
      <4>1. jobs' = jobs \cup {job}
        BY <3>1, Zenon
      <4>2. job.button = b /\ job.todo = h.bodies
        OBVIOUS
      <4> QED
        BY <4>1, <4>2, Zenon
    <3>3. page' = page /\ stored' = stored
      BY <2>2 DEF Press
    <3>4. ASSUME page \in Narrow PROVE Writes(new.todo, Meant(new))
      BY <3>2, <3>4, NarrowBodies
    <3>5. page \in Narrow => \A j \in jobs' : Writes(j.todo, Meant(j))
      BY <3>2, <3>4 DEF MeantInv
    <3> QED
      BY <2>0, <3>3, <3>5 DEF MeantInv
  <2>3. ASSUME NEW t \in Tab, Leave(t) PROVE MeantInv'
    <3>1. page' = page /\ stored' = stored /\ jobs' = LeftBy(t, jobs)
      BY <2>3 DEF Leave
    <3>2. page \in Narrow => \A j \in jobs' : Writes(j.todo, Meant(j))
      BY <2>0, <3>1, AfterLeaving DEF MeantInv, Shaped
    <3> QED
      BY <2>0, <3>1, <3>2 DEF MeantInv
  <2>4. ASSUME NEW j \in jobs, NEW k \in Ready(j), NEW r,
               \/ Becomes(j, Answer(j, k, r)) \/ Becomes(j, Failure(j, k)),
               page' = page, DOMAIN stored' = DOMAIN stored
        PROVE  MeantInv'
    <3>1. ASSUME page \in Narrow, NEW i \in jobs' PROVE Writes(i.todo, Meant(i))
      <4>1. i \in jobs \/ i \in {Answer(j, k, r), Failure(j, k)}
        BY <2>4 DEF Becomes, Lasting
      <4>2. CASE i \in jobs
        BY <3>1, <4>2 DEF MeantInv
      <4>3. CASE i \in {Answer(j, k, r), Failure(j, k)}
        <5>1. Writes(j.todo, Meant(j))
          BY <3>1 DEF MeantInv
        <5>2. Writes(i.todo, Meant(j)) /\ i.button = j.button
          BY <2>0, <4>3, <5>1, AfterRequest
        <5>3. Meant(i) = Meant(j)
          BY <5>2, Zenon DEF Meant
        <5> QED
          BY <5>2, <5>3
      <4> QED
        BY <4>1, <4>2, <4>3
    <3> QED
      BY <2>0, <2>4, <3>1 DEF MeantInv
  <2>5. ASSUME NEW j \in jobs, NEW k \in Ready(j), Serve(j, k) PROVE MeantInv'
    <3>1. stored' = Apply(stored, j.todo[k]) /\ page' = page
      BY <2>5 DEF Serve
    <3>2. DOMAIN stored' = DOMAIN stored
      BY <3>1 DEF Apply
    <3>3. Becomes(j, Answer(j, k, stored')) \/ Becomes(j, Failure(j, k))
      BY <2>5 DEF Serve
    <3> QED
      BY <2>4, <3>1, <3>2, <3>3
  <2>6. ASSUME NEW j \in jobs, NEW k \in Ready(j), Refuse(j, k) PROVE MeantInv'
    BY <2>4, <2>6 DEF Refuse
  <2>7. ASSUME NEW j \in jobs, Settle(j) PROVE MeantInv'
    <3> DEFINE rest == Lasting((jobs \ {j}) \cup {Unwatch(j)})
    <3>1. /\ page' = page /\ stored' = stored
          /\ jobs' \in {rest, LeftBy(j.tab, rest)}
      BY <2>7 DEF Settle
    <3>2. \A i \in rest : i \in jobs \/ i = Unwatch(j)
      BY DEF Lasting
    <3>3. DOMAIN Unwatch(j) = JobField
      BY <2>0 DEF Unwatch, Shaped
    <3>4. \A i \in rest : DOMAIN i = JobField
      BY <2>0, <3>2, <3>3 DEF Shaped
    <3> HIDE DEF rest
    <3>5. ASSUME page \in Narrow
          PROVE  \A i \in jobs' : Writes(i.todo, Meant(i))
      <4>1. \A i \in jobs : DOMAIN i = JobField /\ Writes(i.todo, Meant(i))
        BY <2>0, <3>5 DEF MeantInv, Shaped
      <4>2. Unwatch(j).todo = j.todo /\ Meant(Unwatch(j)) = Meant(j)
        BY <4>1, AfterLeaving
      <4>3. \A i \in rest : Writes(i.todo, Meant(i))
        BY <3>2, <4>1, <4>2
      <4>4. \A i \in LeftBy(j.tab, rest) : Writes(i.todo, Meant(i))
        BY <3>4, <4>3, AfterLeaving
      <4> QED
        BY <3>1, <4>3, <4>4
    <3> QED
      BY <2>0, <3>1, <3>5 DEF MeantInv
  <2> QED
    BY <2>1, <2>2, <2>3, <2>5, <2>6, <2>7 DEF Next, vars, Edit, Open
<1> QED
  BY <1>1, <1>2, FormInvHolds, PTL DEF Spec

(* On the narrow pages a change of the record is one request's doing, and   *)
(* of one that its button meant to change: a draft made from a stale copy   *)
(* never writes the rest of the record back.                                *)
THEOREM OnlyWhatWasPressed == Spec => NothingElseChanges
<1> DEFINE Step ==
  (page \in {"incident", "case", "automation", "monitors", "integrations",
             "rules"} /\ stored' # stored) =>
    (\E j \in jobs \ jobs' :
       {f \in FieldsOf(page) : stored'[f] # stored[f]} \subseteq Meant(j))
<1>1. FormInv /\ MeantInv /\ [Next]_vars => [Step]_vars
  <2> SUFFICES ASSUME FormInv, MeantInv, [Next]_vars,
                      page \in Narrow, stored' # stored
               PROVE  \E j \in jobs \ jobs' :
                        {f \in FieldsOf(page) : stored'[f] # stored[f]} \subseteq Meant(j)
    BY DEF Narrow
  <2>1. PICK j \in jobs : \E k \in Ready(j) : Serve(j, k)
    <3>1. \A t \in Tab : ~Edit(t) /\ ~Press(t) /\ ~Leave(t) /\ ~Open(t)
      BY DEF Edit, Press, Leave, Open
    <3>2. \A j \in jobs : ~Settle(j) /\ \A k \in Ready(j) : ~Refuse(j, k)
      BY DEF Settle, Refuse
    <3>3. ~UNCHANGED vars
      BY DEF vars
    <3> QED
      BY <3>1, <3>2, <3>3, Zenon DEF Next
  <2>2. PICK k \in Ready(j) : Serve(j, k)
    BY <2>1
  <2>3. Writes(j.todo, Meant(j)) /\ Shaped /\ DOMAIN stored = FieldsOf(page)
    BY DEF MeantInv, FormInv
  <2>4. /\ DOMAIN j.todo[k] \subseteq Meant(j)
        /\ Answer(j, k, stored') # j /\ Failure(j, k) # j
    BY <2>3, AfterRequest
  <2>5. j \notin jobs'
    BY <2>2, <2>4 DEF Serve, Becomes, Lasting
  <2>6. stored' = Apply(stored, j.todo[k])
    BY <2>2 DEF Serve
  <2>7. \A f \in DOMAIN stored : f \notin DOMAIN j.todo[k] => stored'[f] = stored[f]
    BY <2>6 DEF Apply
  <2> QED
    BY <2>3, <2>4, <2>5, <2>7
<1> QED
  BY <1>1, FormInvHolds, MeantInvHolds, PTL DEF Spec, NothingElseChanges

-----------------------------------------------------------------------------
(* Shown, without the copy it does not depend on.                           *)
ShownOf(p) ==
  CASE p \in {"settings", "automation", "detection"} -> FieldsOf(p)
    [] p \in {"incident", "case"} -> {"status", "assignee"}
    [] p = "rule"      -> {"text", "enabled"}
    [] p = "connector" -> {"config", "access"}
    [] p = "source"    -> {"config"}
    [] OTHER           -> {}

(* The fields that go up by one whenever they are sent.                     *)
Counter == PostField \cup {"made"}

(* What a field can hold: in the record and a page's copy of it, and in a   *)
(* draft.                                                                   *)
Kept(f) == IF f \in Counter THEN 0 .. MaxPresses
           ELSE IF f \in Rows \cup {"verdict"} THEN 0 .. 2 ELSE 0 .. 1

Typed(f) == IF f \in PostField THEN 0 .. 1 ELSE Kept(f)

(* Some of a draft, and all of one.                                         *)
Inputs(p, g) ==
  DOMAIN g \subseteq FieldsOf(p) /\ \A f \in DOMAIN g : g[f] \in Typed(f)

IsDraft(p, d) == Inputs(p, d) /\ d \in [FieldsOf(p) -> 0 .. MaxPresses + 2]

(* Of a request x of handler h, pressed when the draft was d: whatever it   *)
(* writes that the page has a copy of or shows, the page gets from the      *)
(* reply, sets itself, or has in its draft.                                 *)
Told(p, h, d, x) ==
  /\ h.leaves \/ DOMAIN x \cap Copied(p) \subseteq h.takes
  /\ \A f \in DOMAIN x \cap ShownOf(p) :
       f \in (h.adopts \cup DOMAIN h.after) \cup DOMAIN h.before \/ x[f] = d[f]

(* A handler that may end without a word of its own allows no destructive   *)
(* class.                                                                   *)
Denies(p, h, x) ==
  p = "automation" /\ (h.says = "" \/ h.fails = "") =>
    \A c \in DOMAIN x \cap Destructive : x[c] = 1

(* It writes fields of the record, and what they can hold.                  *)
Valid(p, d, x) ==
  /\ DOMAIN x \subseteq FieldsOf(p)
  /\ IsDraft(p, d) =>
       \A f \in DOMAIN x \ Counter : x[f] \in Kept(f)

Fits(p, h, d, x) == Told(p, h, d, x) /\ Denies(p, h, x) /\ Valid(p, d, x)

(* Two requests of one press do not post to the same list, nor send         *)
(* different values of what is shown.                                       *)
Agree(p, x, y) ==
  \A f \in DOMAIN x \cap DOMAIN y :
    f \notin Counter /\ (f \in ShownOf(p) => x[f] = y[f])

Bodies(p, h, d) ==
  /\ \E B : h.bodies \in Seq(B)
  /\ \A k \in DOMAIN h.bodies : Fits(p, h, d, h.bodies[k])
  /\ \A k, m \in DOMAIN h.bodies : k # m => Agree(p, h.bodies[k], h.bodies[m])

(* What a handler sets is input, and what it sets at its end was sent.      *)
Sets(p, h, d) ==
  /\ h.adopts \cap PostField = {}
  /\ \A f \in DOMAIN h.after \cap ShownOf(p) :
       \E k \in DOMAIN h.bodies :
         f \in DOMAIN h.bodies[k] /\ h.bodies[k][f] = h.after[f]
  /\ IsDraft(p, d) => Inputs(p, h.before) /\ Inputs(p, h.after)

(* Only a handler that has denied every destructive class says so, and only *)
(* when it succeeds.                                                        *)
Words(p, h) ==
  /\ h.fails # "killed"
  /\ h.says = "killed" =>
       /\ p = "automation"
       /\ \A c \in Destructive : \E k \in DOMAIN h.bodies :
            c \in DOMAIN h.bodies[k] /\ h.bodies[k][c] = 1

Good(p, h, d) == Bodies(p, h, d) /\ Sets(p, h, d) /\ Words(p, h)

-----------------------------------------------------------------------------
(* The buttons of the views that name more than one busy value.             *)
LEMMA SettingsButtons ==
  ASSUME NEW d, NEW s
  PROVE  DOMAIN SettingsView(d, s).presses = {"save", "digest", "weekly", "tenant"}
<1> DEFINE Held == {"", "org", "tenant"}
<1>1. SettingsView(d, s).presses =
        [save |-> When(d["org"] # s["org"]), digest |-> Held, weekly |-> Held,
         tenant |-> When(d["tenant"] # s["tenant"])]
  BY Zenon DEF SettingsView
<1> HIDE DEF Held
<1> QED
  BY <1>1

LEMMA RuleButtons ==
  ASSUME NEW d, NEW s
  PROVE  DOMAIN RuleView(d, s).presses =
           {"save", "deploy", "enable", "duplicate", "remove", "generate"}
<1> DEFINE Held == {"", "save", "apply", "delete", "gen"}
<1>1. RuleView(d, s).presses =
        [save |-> Idle, deploy |-> Idle, enable |-> Idle, duplicate |-> Idle,
         remove |-> Idle, generate |-> Held]
  BY Zenon DEF RuleView
<1> HIDE DEF Held
<1> QED
  BY <1>1

LEMMA AutomationButtons ==
  ASSUME NEW d, NEW s
  PROVE  DOMAIN AutomationView(d, s).presses =
           {"notify", "block_ip", "isolate_host", "kill", "approve", "deny"}
<1> DEFINE AllBut(c) ==
      {"", "notify", "block_ip", "isolate_host", "kill", "decide"} \ {c}
<1>1. AutomationView(d, s).presses =
        [notify |-> AllBut("notify"), block_ip |-> AllBut("block_ip"),
         isolate_host |-> AllBut("isolate_host"), kill |-> Idle,
         approve |-> When(s["verdict"] = 0), deny |-> When(s["verdict"] = 0)]
  BY Zenon DEF AutomationView
<1> HIDE DEF AllBut
<1> QED
  BY <1>1

-----------------------------------------------------------------------------
(* What it takes for a handler to be Good, when it sets nothing, sets       *)
(* something at its end only, and sends one request, two or three.          *)
LEMMA NoSets ==
  ASSUME NEW p, NEW d, NEW h, h.before = <<>>, h.after = <<>>,
         h.adopts \cap PostField = {}
  PROVE  Sets(p, h, d)
<1>1. DOMAIN <<>> = {}
  OBVIOUS
<1>2. DOMAIN h.before = {} /\ DOMAIN h.after = {}
  BY <1>1
<1> QED
  BY <1>2 DEF Sets, Inputs

LEMMA SetsAfter ==
  ASSUME NEW p, NEW d, NEW h, NEW w, h.before = <<>>, h.after = w,
         h.adopts \cap PostField = {}, Inputs(p, w),
         \A f \in DOMAIN w \cap ShownOf(p) : \E k \in DOMAIN h.bodies :
           f \in DOMAIN h.bodies[k] /\ h.bodies[k][f] = w[f]
  PROVE  Sets(p, h, d)
<1>1. DOMAIN <<>> = {}
  OBVIOUS
<1>2. Inputs(p, h.before)
  BY <1>1 DEF Inputs
<1> QED
  BY <1>2 DEF Sets

(* The requests of a list of one or two, and lists put together.            *)
LEMMA FirstOfOne ==
  ASSUME NEW q, NEW x, q = <<x>> PROVE 1 \in DOMAIN q /\ q[1] = x
<1>1. PICK B : B = {x}
  OBVIOUS
<1>2. <<x>> \in Seq(B) /\ DOMAIN <<x>> = {1} /\ <<x>>[1] = x
  BY <1>1
<1> QED
  BY <1>2

LEMMA FirstOfTwo ==
  ASSUME NEW q, NEW x, NEW y, q = <<x, y>>
  PROVE  1 \in DOMAIN q /\ q[1] = x /\ 2 \in DOMAIN q /\ q[2] = y
<1>1. PICK B : B = {x, y}
  OBVIOUS
<1>2. /\ <<x, y>> \in Seq(B) /\ DOMAIN <<x, y>> = {1, 2}
      /\ <<x, y>>[1] = x /\ <<x, y>>[2] = y
  BY <1>1
<1> QED
  BY <1>2

LEMMA Concat ==
  ASSUME NEW B, NEW u \in Seq(B), NEW v \in Seq(B)
  PROVE  /\ u \o v \in Seq(B) /\ Len(u \o v) = Len(u) + Len(v)
         /\ \A i \in 1 .. Len(u) + Len(v) :
              (u \o v)[i] = IF i <= Len(u) THEN u[i] ELSE v[i - Len(u)]
  OBVIOUS

LEMMA Joined ==
  ASSUME NEW x, NEW y, NEW z
  PROVE  <<x>> \o <<y, z>> = <<x, y, z>> /\ <<>> \o <<x, y>> = <<x, y>>
<1>1. PICK B : B = {x, y, z}
  OBVIOUS
<1>2. <<x>> \in Seq(B) /\ <<y, z>> \in Seq(B) /\ <<x, y>> \in Seq(B)
  BY <1>1
<1>3. PICK u, v, w : u = <<x>> /\ v = <<y, z>> /\ w = <<x, y, z>>
  OBVIOUS
<1>4. /\ u \in Seq(B) /\ Len(u) = 1 /\ u[1] = x
      /\ v \in Seq(B) /\ Len(v) = 2 /\ v[1] = y /\ v[2] = z
      /\ w \in Seq(B) /\ Len(w) = 3 /\ w[1] = x /\ w[2] = y /\ w[3] = z
  BY <1>1, <1>3
<1>5. /\ u \o v \in Seq(B) /\ Len(u \o v) = Len(u) + Len(v)
      /\ \A i \in 1 .. Len(u) + Len(v) :
           (u \o v)[i] = IF i <= Len(u) THEN u[i] ELSE v[i - Len(u)]
  <2>1. u \in Seq(B) /\ v \in Seq(B)
    BY <1>4
  <2> QED
    BY <2>1, Concat
<1>6. PICK c : c = u \o v
  OBVIOUS
<1>7. /\ c \in Seq(B) /\ Len(c) = 3
      /\ \A i \in 1 .. 3 : c[i] = IF i <= 1 THEN u[i] ELSE v[i - 1]
  <2>1. Len(u) + Len(v) = 3
    BY <1>4
  <2> QED
    BY <1>4, <1>5, <1>6, <2>1, Zenon
<1>8. c[1] = u[1] /\ c[2] = v[1] /\ c[3] = v[2]
  BY <1>7
<1>9. c = w
  BY <1>4, <1>7, <1>8
<1>10. <<>> \o <<x, y>> = <<x, y>>
  BY <1>2
<1> QED
  BY <1>3, <1>6, <1>9, <1>10

LEMMA OneSend ==
  ASSUME NEW p, NEW d, NEW h, NEW x, h.bodies = <<x>>, Fits(p, h, d, x)
  PROVE  Bodies(p, h, d)
<1>1. PICK B : B = {x}
  OBVIOUS
<1>2. <<x>> \in Seq(B) /\ DOMAIN <<x>> = {1} /\ <<x>>[1] = x
  BY <1>1
<1>3. PICK u : u = h.bodies
  OBVIOUS
<1>4. u \in Seq(B) /\ DOMAIN u = {1} /\ u[1] = x
  BY <1>2, <1>3
<1>5. /\ \A k \in DOMAIN u : Fits(p, h, d, u[k])
      /\ \A k, m \in DOMAIN u : k # m => Agree(p, u[k], u[m])
  BY <1>4
<1> QED
  BY <1>3, <1>4, <1>5, Zenon DEF Bodies

LEMMA TwoSends ==
  ASSUME NEW p, NEW d, NEW h, NEW x, NEW y, h.bodies = <<x, y>>,
         Fits(p, h, d, x), Fits(p, h, d, y), Agree(p, x, y)
  PROVE  Bodies(p, h, d)
<1>1. PICK B : B = {x, y}
  OBVIOUS
<1>2. /\ <<x, y>> \in Seq(B) /\ DOMAIN <<x, y>> = {1, 2}
      /\ <<x, y>>[1] = x /\ <<x, y>>[2] = y
  BY <1>1
<1>3. PICK u : u = h.bodies
  OBVIOUS
<1>4. u \in Seq(B) /\ DOMAIN u = {1, 2} /\ u[1] = x /\ u[2] = y
  BY <1>2, <1>3
<1>5. Agree(p, y, x)
  BY Zenon DEF Agree
<1>6. /\ \A k \in DOMAIN u : Fits(p, h, d, u[k])
      /\ \A k, m \in DOMAIN u : k # m => Agree(p, u[k], u[m])
  BY <1>4, <1>5
<1> QED
  BY <1>3, <1>4, <1>6, Zenon DEF Bodies

LEMMA ThreeSends ==
  ASSUME NEW p, NEW d, NEW h, NEW x, NEW y, NEW z, h.bodies = <<x, y, z>>,
         Fits(p, h, d, x), Fits(p, h, d, y), Fits(p, h, d, z),
         Agree(p, x, y), Agree(p, x, z), Agree(p, y, z)
  PROVE  Bodies(p, h, d)
<1>1. PICK B : B = {x, y, z}
  OBVIOUS
<1>2. /\ <<x, y, z>> \in Seq(B) /\ DOMAIN <<x, y, z>> = {1, 2, 3}
      /\ <<x, y, z>>[1] = x /\ <<x, y, z>>[2] = y /\ <<x, y, z>>[3] = z
  BY <1>1
<1>3. PICK u : u = h.bodies
  OBVIOUS
<1>4. u \in Seq(B) /\ DOMAIN u = {1, 2, 3} /\ u[1] = x /\ u[2] = y /\ u[3] = z
  BY <1>2, <1>3
<1>5. Agree(p, y, x) /\ Agree(p, z, x) /\ Agree(p, z, y)
  BY Zenon DEF Agree
<1>6. /\ \A k \in DOMAIN u : Fits(p, h, d, u[k])
      /\ \A k, m \in DOMAIN u : k # m => Agree(p, u[k], u[m])
  BY <1>4, <1>5
<1> QED
  BY <1>3, <1>4, <1>6, Zenon DEF Bodies

(* One request, of a page that has no destructive class to deny, and no     *)
(* draft but what the reply brings.                                         *)
LEMMA PlainSend ==
  ASSUME NEW p, p # "automation", NEW d, NEW h, NEW x, h.bodies = <<x>>,
         h.before = <<>>, h.after = <<>>, h.adopts \cap PostField = {},
         h.says # "killed", h.fails # "killed", Told(p, h, d, x), Valid(p, d, x)
  PROVE  Good(p, h, d)
<1>1. Fits(p, h, d, x)
  BY DEF Fits, Denies
<1>2. Bodies(p, h, d)
  BY <1>1, OneSend
<1>3. Sets(p, h, d)
  BY NoSets
<1> QED
  BY <1>2, <1>3 DEF Good, Words

-----------------------------------------------------------------------------
(* The tables, as literals: what each field can hold, what each page has,   *)
(* and what can be typed into it.                                           *)
LEMMA FieldRanges ==
  /\ Kept("status") = 0 .. 1 /\ Typed("status") = 0 .. 1
  /\ Kept("assignee") = 0 .. 1 /\ Typed("assignee") = 0 .. 1
  /\ Kept("text") = 0 .. 1 /\ Typed("text") = 0 .. 1
  /\ Kept("enabled") = 0 .. 1 /\ Typed("enabled") = 0 .. 1
  /\ Kept("gone") = 0 .. 1 /\ Typed("gone") = 0 .. 1
  /\ Kept("org") = 0 .. 1 /\ Typed("org") = 0 .. 1
  /\ Kept("digest") = 0 .. 1 /\ Typed("digest") = 0 .. 1
  /\ Kept("weekly") = 0 .. 1 /\ Typed("weekly") = 0 .. 1
  /\ Kept("tenant") = 0 .. 1 /\ Typed("tenant") = 0 .. 1
  /\ Kept("severity") = 0 .. 1 /\ Typed("severity") = 0 .. 1
  /\ Kept("retention") = 0 .. 1 /\ Typed("retention") = 0 .. 1
  /\ Kept("notify") = 0 .. 1 /\ Typed("notify") = 0 .. 1
  /\ Kept("block_ip") = 0 .. 1 /\ Typed("block_ip") = 0 .. 1
  /\ Kept("isolate_host") = 0 .. 1 /\ Typed("isolate_host") = 0 .. 1
  /\ Kept("verdict") = 0 .. 2 /\ Typed("verdict") = 0 .. 2
  /\ Kept("config") = 0 .. 1 /\ Typed("config") = 0 .. 1
  /\ Kept("access") = 0 .. 1 /\ Typed("access") = 0 .. 1
  /\ Kept("tested") = 0 .. 1 /\ Typed("tested") = 0 .. 1
  /\ Kept("row1") = 0 .. 2 /\ Typed("row1") = 0 .. 2
  /\ Kept("row2") = 0 .. 2 /\ Typed("row2") = 0 .. 2
  /\ Typed("cases") = 0 .. 1 /\ Typed("comments") = 0 .. 1 /\ Typed("items") = 0 .. 1
  BY DEF Kept, Typed, Counter, PostField, Rows

LEMMA PageFields ==
  /\ FieldsOf("incident") = {"status", "assignee", "cases"}
  /\ Copied("incident") = {"status", "assignee"}
  /\ ShownOf("incident") = {"status", "assignee"}
  /\ FieldsOf("case") = {"status", "assignee", "comments"}
  /\ Copied("case") = {"status", "assignee", "comments"}
  /\ ShownOf("case") = {"status", "assignee"}
  /\ FieldsOf("rule") = {"text", "enabled", "items", "gone"}
  /\ Copied("rule") = {"text", "enabled"}
  /\ ShownOf("rule") = {"text", "enabled"}
  /\ FieldsOf("settings") = {"org", "digest", "weekly", "tenant"}
  /\ Copied("settings") = {"org", "digest", "weekly"}
  /\ ShownOf("settings") = {"org", "digest", "weekly", "tenant"}
  /\ FieldsOf("detection") = {"severity", "retention"}
  /\ Copied("detection") = {"severity", "retention"}
  /\ ShownOf("detection") = {"severity", "retention"}
  /\ FieldsOf("automation") = {"notify", "block_ip", "isolate_host", "verdict"}
  /\ Copied("automation") = {}
  /\ ShownOf("automation") = {"notify", "block_ip", "isolate_host", "verdict"}
  /\ FieldsOf("connector") = {"made", "config", "access", "tested"}
  /\ Copied("connector") = {"made", "tested"}
  /\ ShownOf("connector") = {"config", "access"}
  /\ FieldsOf("source") = {"config", "access", "tested"}
  /\ Copied("source") = {"tested"}
  /\ ShownOf("source") = {"config"}
  /\ FieldsOf("monitors") = {"row1", "row2", "items"}
  /\ Copied("monitors") = {"row1", "row2", "items"}
  /\ ShownOf("monitors") = {}
  /\ FieldsOf("integrations") = {"row1", "row2"}
  /\ Copied("integrations") = {"row1", "row2"}
  /\ ShownOf("integrations") = {}
  /\ FieldsOf("rules") = {"row1", "row2"}
  /\ Copied("rules") = {"row1", "row2"}
  /\ ShownOf("rules") = {}
  /\ FieldsOf("picker") = {"items"}
  /\ Copied("picker") = {"items"}
  /\ ShownOf("picker") = {}
  /\ FieldsOf("cases") = {"items"}
  /\ Copied("cases") = {"items"}
  /\ ShownOf("cases") = {}
  /\ FieldsOf("assets") = {"items"}
  /\ Copied("assets") = {"items"}
  /\ ShownOf("assets") = {}
  /\ FieldsOf("reports") = {"items"}
  /\ Copied("reports") = {"items"}
  /\ ShownOf("reports") = {}
<1>1. /\ FieldsOf("incident") = {"status", "assignee", "cases"}
      /\ Copied("incident") = {"status", "assignee"}
      /\ ShownOf("incident") = {"status", "assignee"}
  BY Zenon DEF FieldsOf, Copied, ShownOf
<1>2. /\ FieldsOf("case") = {"status", "assignee", "comments"}
      /\ Copied("case") = {"status", "assignee", "comments"}
      /\ ShownOf("case") = {"status", "assignee"}
  BY Zenon DEF FieldsOf, Copied, ShownOf
<1>3. /\ FieldsOf("rule") = {"text", "enabled", "items", "gone"}
      /\ Copied("rule") = {"text", "enabled"}
      /\ ShownOf("rule") = {"text", "enabled"}
  BY Zenon DEF FieldsOf, Copied, ShownOf
<1>4. /\ FieldsOf("settings") = {"org", "digest", "weekly", "tenant"}
      /\ Copied("settings") = {"org", "digest", "weekly"}
      /\ ShownOf("settings") = {"org", "digest", "weekly", "tenant"}
  BY Zenon DEF FieldsOf, Copied, ShownOf
<1>5. /\ FieldsOf("detection") = {"severity", "retention"}
      /\ Copied("detection") = {"severity", "retention"}
      /\ ShownOf("detection") = {"severity", "retention"}
  BY Zenon DEF FieldsOf, Copied, ShownOf
<1>6. /\ FieldsOf("automation") = {"notify", "block_ip", "isolate_host", "verdict"}
      /\ Copied("automation") = {}
      /\ ShownOf("automation") = {"notify", "block_ip", "isolate_host", "verdict"}
  BY Zenon DEF FieldsOf, Copied, ShownOf
<1>7. /\ FieldsOf("connector") = {"made", "config", "access", "tested"}
      /\ Copied("connector") = {"made", "tested"}
      /\ ShownOf("connector") = {"config", "access"}
  BY Zenon DEF FieldsOf, Copied, ShownOf
<1>8. /\ FieldsOf("source") = {"config", "access", "tested"}
      /\ Copied("source") = {"tested"}
      /\ ShownOf("source") = {"config"}
  BY Zenon DEF FieldsOf, Copied, ShownOf
<1>9. /\ FieldsOf("monitors") = {"row1", "row2", "items"}
      /\ Copied("monitors") = {"row1", "row2", "items"}
      /\ ShownOf("monitors") = {}
  BY Zenon DEF FieldsOf, Copied, ShownOf
<1>10. /\ FieldsOf("integrations") = {"row1", "row2"}
       /\ Copied("integrations") = {"row1", "row2"}
       /\ ShownOf("integrations") = {}
  BY Zenon DEF FieldsOf, Copied, ShownOf
<1>11. /\ FieldsOf("rules") = {"row1", "row2"}
       /\ Copied("rules") = {"row1", "row2"}
       /\ ShownOf("rules") = {}
  BY Zenon DEF FieldsOf, Copied, ShownOf
<1>12. /\ FieldsOf("picker") = {"items"}
       /\ Copied("picker") = {"items"}
       /\ ShownOf("picker") = {}
  BY Zenon DEF FieldsOf, Copied, ShownOf
<1>13. /\ FieldsOf("cases") = {"items"}
       /\ Copied("cases") = {"items"}
       /\ ShownOf("cases") = {}
  BY Zenon DEF FieldsOf, Copied, ShownOf
<1>14. /\ FieldsOf("assets") = {"items"}
       /\ Copied("assets") = {"items"}
       /\ ShownOf("assets") = {}
  BY Zenon DEF FieldsOf, Copied, ShownOf
<1>15. /\ FieldsOf("reports") = {"items"}
       /\ Copied("reports") = {"items"}
       /\ ShownOf("reports") = {}
  BY Zenon DEF FieldsOf, Copied, ShownOf
<1> QED
  BY <1>1, <1>2, <1>3, <1>4, <1>5, <1>6, <1>7, <1>8, <1>9, <1>10, <1>11, <1>12,
     <1>13, <1>14, <1>15

LEMMA PageInputs ==
  ASSUME NEW d, NEW s
  PROVE  /\ View("incident", d, s).inputs = {"status", "assignee"}
         /\ View("case", d, s).inputs = {"status", "assignee", "comments"}
         /\ View("rule", d, s).inputs = {"text", "enabled"}
         /\ View("settings", d, s).inputs = {"org", "tenant"}
         /\ View("detection", d, s).inputs = {"severity", "retention"}
         /\ View("automation", d, s).inputs = {}
         /\ View("connector", d, s).inputs = {"config", "access"}
         /\ View("source", d, s).inputs = {"config"}
         /\ View("monitors", d, s).inputs = {}
         /\ View("integrations", d, s).inputs = {}
         /\ View("rules", d, s).inputs = {}
         /\ View("picker", d, s).inputs = {}
         /\ View("cases", d, s).inputs = {"items"}
         /\ View("assets", d, s).inputs = {"items"}
         /\ View("reports", d, s).inputs = {}
<1>1. View("incident", d, s).inputs = {"status", "assignee"}
  <2>1. View("incident", d, s) = IncidentView(d, s)
    BY Zenon DEF View
  <2> QED
    BY <2>1 DEF IncidentView
<1>2. View("case", d, s).inputs = {"status", "assignee", "comments"}
  <2>1. View("case", d, s) = CaseView(d, s)
    BY Zenon DEF View
  <2> QED
    BY <2>1 DEF CaseView
<1>3. View("rule", d, s).inputs = {"text", "enabled"}
  <2>1. View("rule", d, s) = RuleView(d, s)
    BY Zenon DEF View
  <2>2. \E q : RuleView(d, s) = [inputs |-> {"text", "enabled"}, presses |-> q]
    BY Zenon DEF RuleView
  <2> QED
    BY <2>1, <2>2
<1>4. View("settings", d, s).inputs = {"org", "tenant"}
  <2>1. View("settings", d, s) = SettingsView(d, s)
    BY Zenon DEF View
  <2>2. \E q : SettingsView(d, s) = [inputs |-> {"org", "tenant"}, presses |-> q]
    BY Zenon DEF SettingsView
  <2> QED
    BY <2>1, <2>2
<1>5. View("detection", d, s).inputs = {"severity", "retention"}
  <2>1. View("detection", d, s) = DetectionView(d, s)
    BY Zenon DEF View
  <2> QED
    BY <2>1, PageFields DEF DetectionView
<1>6. View("automation", d, s).inputs = {}
  <2>1. View("automation", d, s) = AutomationView(d, s)
    BY Zenon DEF View
  <2>2. \E q : AutomationView(d, s) = [inputs |-> {}, presses |-> q]
    BY Zenon DEF AutomationView
  <2> QED
    BY <2>1, <2>2
<1>7. View("connector", d, s).inputs = {"config", "access"}
  <2>1. View("connector", d, s) = ConnectorView(d, s)
    BY Zenon DEF View
  <2> QED
    BY <2>1 DEF ConnectorView
<1>8. View("source", d, s).inputs = {"config"}
  <2>1. View("source", d, s) = SourceView(d, s)
    BY Zenon DEF View
  <2> QED
    BY <2>1 DEF SourceView
<1>9. View("monitors", d, s).inputs = {}
  <2>1. View("monitors", d, s) = MonitorView(d, s)
    BY Zenon DEF View
  <2> QED
    BY <2>1 DEF MonitorView
<1>10. View("integrations", d, s).inputs = {}
  <2>1. View("integrations", d, s) = IntegrationView(d, s)
    BY Zenon DEF View
  <2> QED
    BY <2>1 DEF IntegrationView
<1>11. View("rules", d, s).inputs = {}
  <2>1. View("rules", d, s) = RulesView(d, s)
    BY Zenon DEF View
  <2> QED
    BY <2>1 DEF RulesView
<1>12. View("picker", d, s).inputs = {}
  <2>1. View("picker", d, s) = PickerView(d, s)
    BY Zenon DEF View
  <2> QED
    BY <2>1 DEF PickerView
<1>13. View("cases", d, s).inputs = {"items"}
  <2>1. View("cases", d, s) = CasesView(d, s)
    BY Zenon DEF View
  <2> QED
    BY <2>1 DEF CasesView
<1>14. View("assets", d, s).inputs = {"items"}
  <2>1. View("assets", d, s) = AssetsView(d, s)
    BY Zenon DEF View
  <2> QED
    BY <2>1 DEF AssetsView
<1>15. View("reports", d, s).inputs = {}
  <2>1. View("reports", d, s) = ReportsView(d, s)
    BY Zenon DEF View
  <2> QED
    BY <2>1 DEF ReportsView
<1> QED
  BY <1>1, <1>2, <1>3, <1>4, <1>5, <1>6, <1>7, <1>8, <1>9, <1>10, <1>11, <1>12,
     <1>13, <1>14, <1>15

(* What can be typed into is a field of the record, and is one of two       *)
(* values.                                                                  *)
LEMMA InputRange ==
  ASSUME NEW p \in Page, NEW d, NEW s, NEW f \in View(p, d, s).inputs
  PROVE  f \in FieldsOf(p) /\ Typed(f) = 0 .. 1
<1>1. f \in FieldsOf(p)
  BY PageInputs, PageFields DEF Page
<1>2. f \in {"status", "assignee", "comments", "text", "enabled", "org", "tenant",
             "severity", "retention", "config", "access", "items"}
  BY PageInputs DEF Page
<1> QED
  BY <1>1, <1>2, FieldRanges

-----------------------------------------------------------------------------
(* The buttons of a row, and those of a class of actions.                   *)
LEMMA RowSends ==
  ASSUME NEW p \in {"monitors", "integrations", "rules"}, NEW d,
         NEW r \in Rows, NEW v \in {1, Gone}
  PROVE  Good(p, RowSend(r, v), d)
<1>1. r \in FieldsOf(p) /\ ShownOf(p) = {} /\ Kept(r) = 0 .. 2 /\ r \notin Counter
  BY PageFields, FieldRanges DEF Rows, Counter, PostField
<1>2. PICK x : x = [f \in {r} |-> v]
  OBVIOUS
<1>3. PICK h : h = RowSend(r, v)
  OBVIOUS
<1>4. /\ h.bodies = <<x>> /\ h.takes = {r} /\ h.adopts = {}
      /\ h.before = <<>> /\ h.after = <<>>
      /\ h.leaves = FALSE /\ h.says = "" /\ h.fails = ""
  BY <1>2, <1>3 DEF RowSend, Silent, Send
<1>5. DOMAIN x = {r} /\ x[r] \in {1, 2}
  BY <1>2 DEF Gone
<1>6. Told(p, h, d, x)
  BY <1>1, <1>4, <1>5 DEF Told
<1>7. Valid(p, d, x)
  BY <1>1, <1>5 DEF Valid
<1> QED
  BY <1>3, <1>4, <1>6, <1>7, PlainSend

LEMMA ModeSends ==
  ASSUME NEW c \in {"notify", "block_ip", "isolate_host"}, NEW d
  PROVE  Good("automation", ModeHandler(d, c), d)
<1>1. /\ c \in FieldsOf("automation") /\ Copied("automation") = {}
      /\ Kept(c) = 0 .. 1 /\ Typed(c) = 0 .. 1 /\ c \notin Counter
  BY PageFields, FieldRanges DEF Counter, PostField
<1>2. PICK x : x = [f \in {c} |-> 1 - d[c]]
  OBVIOUS
<1>3. PICK h : h = ModeHandler(d, c)
  OBVIOUS
<1>4. /\ h.bodies = <<x>> /\ h.adopts = {} /\ h.before = x /\ h.after = <<>>
      /\ h.leaves = FALSE /\ h.says = "saved" /\ h.fails = "failed"
  BY <1>2, <1>3 DEF ModeHandler, Send
<1>5. DOMAIN x = {c} /\ x[c] = 1 - d[c]
  BY <1>2
<1>6. IsDraft("automation", d) => Inputs("automation", x)
  BY <1>1, <1>5 DEF IsDraft, Inputs
<1>7. Fits("automation", h, d, x)
  BY <1>1, <1>4, <1>5, <1>6 DEF Fits, Told, Denies, Valid, Inputs
<1>8. Bodies("automation", h, d)
  BY <1>4, <1>7, OneSend
<1>9. Sets("automation", h, d)
  <2>1. DOMAIN <<>> = {}
    OBVIOUS
  <2> QED
    BY <1>4, <1>6, <2>1 DEF Sets, Inputs
<1>10. Words("automation", h)
  BY <1>4 DEF Words
<1> QED
  BY <1>3, <1>8, <1>9, <1>10 DEF Good

(* The buttons of each page.                                                *)
LEMMA IncidentSends ==
  ASSUME NEW d, NEW s, NEW b \in DOMAIN View("incident", d, s).presses
  PROVE  Good("incident", Handlers("incident", d, s)[b], d)
<1>1. /\ FieldsOf("incident") = {"status", "assignee", "cases"}
      /\ Copied("incident") = {"status", "assignee"}
      /\ ShownOf("incident") = {"status", "assignee"}
  BY PageFields
<1>2. /\ Handlers("incident", d, s) = IncidentHandlers(d, s)
      /\ b \in {"status", "assign", "escalate"}
  <2>1. /\ View("incident", d, s) = IncidentView(d, s)
        /\ Handlers("incident", d, s) = IncidentHandlers(d, s)
    BY Zenon DEF View, Handlers
  <2> QED
    BY <2>1 DEF IncidentView
<1>3. CASE b = "status"
  <2>1. PICK x : x = Only(d, {"status"})
    OBVIOUS
  <2>2. PICK h : h = IncidentHandlers(d, s)["status"]
    OBVIOUS
  <2>3. /\ h.bodies = <<x>> /\ h.takes = {"status", "assignee", "cases"}
        /\ h.adopts = {"status"}
        /\ h.before = <<>> /\ h.after = <<>>
        /\ h.leaves = FALSE /\ h.says = "saved" /\ h.fails = "failed"
    BY <2>1, <2>2, <1>1 DEF IncidentHandlers, Send
  <2>4. /\ DOMAIN x = {"status"}
        /\ x["status"] = d["status"]
    BY <2>1 DEF Only
  <2>5. Told("incident", h, d, x)
    BY <2>3, <2>4, <1>1 DEF Told
  <2>6. Valid("incident", d, x)
    BY <2>4, <1>1, FieldRanges DEF Valid, IsDraft, Inputs, Counter, PostField
  <2>7. Good("incident", h, d)
    BY <2>3, <2>5, <2>6, PlainSend DEF PostField
  <2> QED
    BY <1>2, <1>3, <2>2, <2>7
<1>4. CASE b = "assign"
  <2>1. PICK x : x = Only(d, {"assignee"})
    OBVIOUS
  <2>2. PICK h : h = IncidentHandlers(d, s)["assign"]
    OBVIOUS
  <2>3. /\ h.bodies = <<x>> /\ h.takes = {"status", "assignee", "cases"}
        /\ h.adopts = {"status"}
        /\ h.before = <<>> /\ h.after = <<>>
        /\ h.leaves = FALSE /\ h.says = "saved" /\ h.fails = "failed"
    BY <2>1, <2>2, <1>1 DEF IncidentHandlers, Send
  <2>4. /\ DOMAIN x = {"assignee"}
        /\ x["assignee"] = d["assignee"]
    BY <2>1 DEF Only
  <2>5. Told("incident", h, d, x)
    BY <2>3, <2>4, <1>1 DEF Told
  <2>6. Valid("incident", d, x)
    BY <2>4, <1>1, FieldRanges DEF Valid, IsDraft, Inputs, Counter, PostField
  <2>7. Good("incident", h, d)
    BY <2>3, <2>5, <2>6, PlainSend DEF PostField
  <2> QED
    BY <1>2, <1>4, <2>2, <2>7
<1>5. CASE b = "escalate"
  <2>1. PICK x : x = [cases |-> 1]
    OBVIOUS
  <2>2. PICK h : h = IncidentHandlers(d, s)["escalate"]
    OBVIOUS
  <2>3. /\ h.bodies = <<x>> /\ h.takes = {}
        /\ h.adopts = {}
        /\ h.before = <<>> /\ h.after = <<>>
        /\ h.leaves = TRUE /\ h.says = "saved" /\ h.fails = "failed"
    BY <2>1, <2>2, <1>1 DEF IncidentHandlers, Send
  <2>4. /\ DOMAIN x = {"cases"}
        /\ x["cases"] = 1
    BY <2>1
  <2>5. Told("incident", h, d, x)
    BY <2>3, <2>4, <1>1 DEF Told
  <2>6. Valid("incident", d, x)
    BY <2>4, <1>1, FieldRanges DEF Valid, IsDraft, Inputs, Counter, PostField
  <2>7. Good("incident", h, d)
    BY <2>3, <2>5, <2>6, PlainSend DEF PostField
  <2> QED
    BY <1>2, <1>5, <2>2, <2>7
<1> QED
  BY <1>2, <1>3, <1>4, <1>5

LEMMA CaseSends ==
  ASSUME NEW d, NEW s, NEW b \in DOMAIN View("case", d, s).presses
  PROVE  Good("case", Handlers("case", d, s)[b], d)
<1>1. /\ FieldsOf("case") = {"status", "assignee", "comments"}
      /\ Copied("case") = {"status", "assignee", "comments"}
      /\ ShownOf("case") = {"status", "assignee"}
  BY PageFields
<1>2. /\ Handlers("case", d, s) = CaseHandlers(d, s)
      /\ b \in {"status", "assign", "comment"}
  <2>1. /\ View("case", d, s) = CaseView(d, s)
        /\ Handlers("case", d, s) = CaseHandlers(d, s)
    BY Zenon DEF View, Handlers
  <2> QED
    BY <2>1 DEF CaseView
<1>3. CASE b = "status"
  <2>1. PICK x : x = Only(d, {"status"})
    OBVIOUS
  <2>2. PICK h : h = CaseHandlers(d, s)["status"]
    OBVIOUS
  <2>3. /\ h.bodies = <<x>> /\ h.takes = {"status", "assignee", "comments"}
        /\ h.adopts = {"status"}
        /\ h.before = <<>> /\ h.after = <<>>
        /\ h.leaves = FALSE /\ h.says = "saved" /\ h.fails = "failed"
    BY <2>1, <2>2, <1>1 DEF CaseHandlers, Send
  <2>4. /\ DOMAIN x = {"status"}
        /\ x["status"] = d["status"]
    BY <2>1 DEF Only
  <2>5. Told("case", h, d, x)
    BY <2>3, <2>4, <1>1 DEF Told
  <2>6. Valid("case", d, x)
    BY <2>4, <1>1, FieldRanges DEF Valid, IsDraft, Inputs, Counter, PostField
  <2>7. Good("case", h, d)
    BY <2>3, <2>5, <2>6, PlainSend DEF PostField
  <2> QED
    BY <1>2, <1>3, <2>2, <2>7
<1>4. CASE b = "assign"
  <2>1. PICK x : x = Only(d, {"assignee"})
    OBVIOUS
  <2>2. PICK h : h = CaseHandlers(d, s)["assign"]
    OBVIOUS
  <2>3. /\ h.bodies = <<x>> /\ h.takes = {"status", "assignee", "comments"}
        /\ h.adopts = {"status"}
        /\ h.before = <<>> /\ h.after = <<>>
        /\ h.leaves = FALSE /\ h.says = "saved" /\ h.fails = "failed"
    BY <2>1, <2>2, <1>1 DEF CaseHandlers, Send
  <2>4. /\ DOMAIN x = {"assignee"}
        /\ x["assignee"] = d["assignee"]
    BY <2>1 DEF Only
  <2>5. Told("case", h, d, x)
    BY <2>3, <2>4, <1>1 DEF Told
  <2>6. Valid("case", d, x)
    BY <2>4, <1>1, FieldRanges DEF Valid, IsDraft, Inputs, Counter, PostField
  <2>7. Good("case", h, d)
    BY <2>3, <2>5, <2>6, PlainSend DEF PostField
  <2> QED
    BY <1>2, <1>4, <2>2, <2>7
<1>5. CASE b = "comment"
  <2>1. PICK x : x = [comments |-> 1]
    OBVIOUS
  <2>2. PICK h : h = CaseHandlers(d, s)["comment"]
    OBVIOUS
  <2>3. PICK w : w = [comments |-> 0]
    OBVIOUS
  <2>4. /\ h.bodies = <<x>> /\ h.takes = {"status", "assignee", "comments"}
        /\ h.adopts = {}
        /\ h.before = <<>> /\ h.after = w
        /\ h.leaves = FALSE /\ h.says = "" /\ h.fails = "failed"
    BY <2>1, <2>2, <2>3, <1>1 DEF CaseHandlers, Send
  <2>5. /\ DOMAIN x = {"comments"}
        /\ x["comments"] = 1
    BY <2>1
  <2>6. /\ DOMAIN w = {"comments"}
        /\ w["comments"] = 0
    BY <2>3
  <2>7. /\ 1 \in DOMAIN h.bodies /\ h.bodies[1] = x
    BY <2>4, FirstOfOne
  <2>8. Told("case", h, d, x)
    BY <2>4, <2>5, <1>1, <2>6 DEF Told
  <2>9. Valid("case", d, x)
    BY <2>5, <1>1, FieldRanges DEF Valid, IsDraft, Inputs, Counter, PostField
  <2>10. Fits("case", h, d, x)
    BY <2>8, <2>9 DEF Fits, Denies
  <2>11. Bodies("case", h, d)
    BY <2>4, <2>10, OneSend
  <2>12. Inputs("case", w)
    BY <2>6, <1>1, FieldRanges DEF Inputs
  <2>13. \A f \in DOMAIN w \cap ShownOf("case") : \E k \in DOMAIN h.bodies :
           f \in DOMAIN h.bodies[k] /\ h.bodies[k][f] = w[f]
    BY <2>5, <2>6, <2>7, <1>1
  <2>14. Sets("case", h, d)
    BY <2>4, <2>12, <2>13, SetsAfter DEF PostField
  <2>15. Words("case", h)
    BY <2>4 DEF Words
  <2>16. Good("case", h, d)
    BY <2>11, <2>14, <2>15 DEF Good
  <2> QED
    BY <1>2, <1>5, <2>2, <2>16
<1> QED
  BY <1>2, <1>3, <1>4, <1>5

LEMMA RuleSends ==
  ASSUME NEW d, NEW s, NEW b \in DOMAIN View("rule", d, s).presses
  PROVE  Good("rule", Handlers("rule", d, s)[b], d)
<1>1. /\ FieldsOf("rule") = {"text", "enabled", "items", "gone"}
      /\ Copied("rule") = {"text", "enabled"}
      /\ ShownOf("rule") = {"text", "enabled"}
  BY PageFields
<1>2. /\ Handlers("rule", d, s) = RuleHandlers(d, s)
      /\ b \in {"save", "deploy", "enable", "duplicate", "remove",
                 "generate"}
  <2>1. /\ View("rule", d, s) = RuleView(d, s)
        /\ Handlers("rule", d, s) = RuleHandlers(d, s)
    BY Zenon DEF View, Handlers
  <2> QED
    BY <2>1, RuleButtons
<1>3. CASE b = "save"
  <2>1. PICK x : x = Only(d, {"text", "enabled"})
    OBVIOUS
  <2>2. PICK h : h = RuleHandlers(d, s)["save"]
    OBVIOUS
  <2>3. /\ h.bodies = <<x>> /\ h.takes = {"text", "enabled", "items", "gone"}
        /\ h.adopts = {}
        /\ h.before = <<>> /\ h.after = <<>>
        /\ h.leaves = FALSE /\ h.says = "saved" /\ h.fails = "failed"
    BY <2>1, <2>2, <1>1 DEF RuleHandlers, Send
  <2>4. /\ DOMAIN x = {"text", "enabled"}
        /\ x["text"] = d["text"]
        /\ x["enabled"] = d["enabled"]
    BY <2>1 DEF Only
  <2>5. Told("rule", h, d, x)
    BY <2>3, <2>4, <1>1 DEF Told
  <2>6. Valid("rule", d, x)
    BY <2>4, <1>1, FieldRanges DEF Valid, IsDraft, Inputs, Counter, PostField
  <2>7. Good("rule", h, d)
    BY <2>3, <2>5, <2>6, PlainSend DEF PostField
  <2> QED
    BY <1>2, <1>3, <2>2, <2>7
<1>4. CASE b = "deploy"
  <2>1. PICK x : x = [enabled |-> 1]
    OBVIOUS
  <2>2. PICK h : h = RuleHandlers(d, s)["deploy"]
    OBVIOUS
  <2>3. PICK w : w = [enabled |-> 1]
    OBVIOUS
  <2>4. /\ h.bodies = <<x>> /\ h.takes = {"text", "enabled", "items", "gone"}
        /\ h.adopts = {}
        /\ h.before = <<>> /\ h.after = w
        /\ h.leaves = FALSE /\ h.says = "saved" /\ h.fails = "failed"
    BY <2>1, <2>2, <2>3, <1>1 DEF RuleHandlers, Send
  <2>5. /\ DOMAIN x = {"enabled"}
        /\ x["enabled"] = 1
    BY <2>1
  <2>6. /\ DOMAIN w = {"enabled"}
        /\ w["enabled"] = 1
    BY <2>3
  <2>7. /\ 1 \in DOMAIN h.bodies /\ h.bodies[1] = x
    BY <2>4, FirstOfOne
  <2>8. Told("rule", h, d, x)
    BY <2>4, <2>5, <1>1, <2>6 DEF Told
  <2>9. Valid("rule", d, x)
    BY <2>5, <1>1, FieldRanges DEF Valid, IsDraft, Inputs, Counter, PostField
  <2>10. Fits("rule", h, d, x)
    BY <2>8, <2>9 DEF Fits, Denies
  <2>11. Bodies("rule", h, d)
    BY <2>4, <2>10, OneSend
  <2>12. Inputs("rule", w)
    BY <2>6, <1>1, FieldRanges DEF Inputs
  <2>13. \A f \in DOMAIN w \cap ShownOf("rule") : \E k \in DOMAIN h.bodies :
           f \in DOMAIN h.bodies[k] /\ h.bodies[k][f] = w[f]
    BY <2>5, <2>6, <2>7, <1>1
  <2>14. Sets("rule", h, d)
    BY <2>4, <2>12, <2>13, SetsAfter DEF PostField
  <2>15. Words("rule", h)
    BY <2>4 DEF Words
  <2>16. Good("rule", h, d)
    BY <2>11, <2>14, <2>15 DEF Good
  <2> QED
    BY <1>2, <1>4, <2>2, <2>16
<1>5. CASE b = "enable"
  <2>1. PICK x : x = [enabled |-> 1 - d["enabled"]]
    OBVIOUS
  <2>2. PICK h : h = RuleHandlers(d, s)["enable"]
    OBVIOUS
  <2>3. /\ h.bodies = <<x>> /\ h.takes = {"text", "enabled", "items", "gone"}
        /\ h.adopts = {"enabled"}
        /\ h.before = <<>> /\ h.after = <<>>
        /\ h.leaves = FALSE /\ h.says = "saved" /\ h.fails = "failed"
    BY <2>1, <2>2, <1>1 DEF RuleHandlers, Send
  <2>4. /\ DOMAIN x = {"enabled"}
        /\ x["enabled"] = 1 - d["enabled"]
    BY <2>1
  <2>5. Told("rule", h, d, x)
    BY <2>3, <2>4, <1>1 DEF Told
  <2>6. Valid("rule", d, x)
    BY <2>4, <1>1, FieldRanges DEF Valid, IsDraft, Inputs, Counter, PostField
  <2>7. Good("rule", h, d)
    BY <2>3, <2>5, <2>6, PlainSend DEF PostField
  <2> QED
    BY <1>2, <1>5, <2>2, <2>7
<1>6. CASE b = "duplicate"
  <2>1. PICK x : x = [items |-> 1]
    OBVIOUS
  <2>2. PICK h : h = RuleHandlers(d, s)["duplicate"]
    OBVIOUS
  <2>3. /\ h.bodies = <<x>> /\ h.takes = {}
        /\ h.adopts = {}
        /\ h.before = <<>> /\ h.after = <<>>
        /\ h.leaves = TRUE /\ h.says = "" /\ h.fails = "failed"
    BY <2>1, <2>2, <1>1 DEF RuleHandlers, Send
  <2>4. /\ DOMAIN x = {"items"}
        /\ x["items"] = 1
    BY <2>1
  <2>5. Told("rule", h, d, x)
    BY <2>3, <2>4, <1>1 DEF Told
  <2>6. Valid("rule", d, x)
    BY <2>4, <1>1, FieldRanges DEF Valid, IsDraft, Inputs, Counter, PostField
  <2>7. Good("rule", h, d)
    BY <2>3, <2>5, <2>6, PlainSend DEF PostField
  <2> QED
    BY <1>2, <1>6, <2>2, <2>7
<1>7. CASE b = "remove"
  <2>1. PICK x : x = [gone |-> 1]
    OBVIOUS
  <2>2. PICK h : h = RuleHandlers(d, s)["remove"]
    OBVIOUS
  <2>3. /\ h.bodies = <<x>> /\ h.takes = {}
        /\ h.adopts = {}
        /\ h.before = <<>> /\ h.after = <<>>
        /\ h.leaves = TRUE /\ h.says = "" /\ h.fails = "failed"
    BY <2>1, <2>2, <1>1 DEF RuleHandlers, Send
  <2>4. /\ DOMAIN x = {"gone"}
        /\ x["gone"] = 1
    BY <2>1
  <2>5. Told("rule", h, d, x)
    BY <2>3, <2>4, <1>1 DEF Told
  <2>6. Valid("rule", d, x)
    BY <2>4, <1>1, FieldRanges DEF Valid, IsDraft, Inputs, Counter, PostField
  <2>7. Good("rule", h, d)
    BY <2>3, <2>5, <2>6, PlainSend DEF PostField
  <2> QED
    BY <1>2, <1>7, <2>2, <2>7
<1>8. CASE b = "generate"
  <2>1. PICK x : x = <<>>
    OBVIOUS
  <2>2. PICK h : h = RuleHandlers(d, s)["generate"]
    OBVIOUS
  <2>3. /\ h.bodies = <<x>> /\ h.takes = {}
        /\ h.adopts = {}
        /\ h.before = <<>> /\ h.after = <<>>
        /\ h.leaves = FALSE /\ h.says = "" /\ h.fails = ""
    BY <2>1, <2>2, <1>1 DEF RuleHandlers, Send, Silent
  <2>4. DOMAIN x = {}
    BY <2>1
  <2>5. Told("rule", h, d, x)
    BY <2>3, <2>4, <1>1 DEF Told
  <2>6. Valid("rule", d, x)
    BY <2>4, <1>1, FieldRanges DEF Valid, IsDraft, Inputs, Counter, PostField
  <2>7. Good("rule", h, d)
    BY <2>3, <2>5, <2>6, PlainSend DEF PostField
  <2> QED
    BY <1>2, <1>8, <2>2, <2>7
<1> QED
  BY <1>2, <1>3, <1>4, <1>5, <1>6, <1>7, <1>8

LEMMA SettingsSends ==
  ASSUME NEW d, NEW s, NEW b \in DOMAIN View("settings", d, s).presses
  PROVE  Good("settings", Handlers("settings", d, s)[b], d)
<1>1. /\ FieldsOf("settings") = {"org", "digest", "weekly", "tenant"}
      /\ Copied("settings") = {"org", "digest", "weekly"}
      /\ ShownOf("settings") = {"org", "digest", "weekly", "tenant"}
  BY PageFields
<1>2. /\ Handlers("settings", d, s) = SettingsHandlers(d, s)
      /\ b \in {"save", "digest", "weekly", "tenant"}
  <2>1. /\ View("settings", d, s) = SettingsView(d, s)
        /\ Handlers("settings", d, s) = SettingsHandlers(d, s)
    BY Zenon DEF View, Handlers
  <2> QED
    BY <2>1, SettingsButtons
<1>3. CASE b = "save"
  <2>1. PICK x : x = Only(d, {"org"})
    OBVIOUS
  <2>2. PICK h : h = SettingsHandlers(d, s)["save"]
    OBVIOUS
  <2>3. /\ h.bodies = <<x>> /\ h.takes = {"org", "digest", "weekly"}
        /\ h.adopts = {"org", "digest", "weekly"}
        /\ h.before = <<>> /\ h.after = <<>>
        /\ h.leaves = FALSE /\ h.says = "saved" /\ h.fails = "failed"
    BY <2>1, <2>2 DEF SettingsHandlers, Send
  <2>4. /\ DOMAIN x = {"org"}
        /\ x["org"] = d["org"]
    BY <2>1 DEF Only
  <2>5. Told("settings", h, d, x)
    BY <2>3, <2>4, <1>1 DEF Told
  <2>6. Valid("settings", d, x)
    BY <2>4, <1>1, FieldRanges DEF Valid, IsDraft, Inputs, Counter, PostField
  <2>7. Good("settings", h, d)
    BY <2>3, <2>5, <2>6, PlainSend DEF PostField
  <2> QED
    BY <1>2, <1>3, <2>2, <2>7
<1>4. CASE b = "digest"
  <2>1. PICK x : x = [Only(d, {"digest", "weekly"}) EXCEPT !["digest"] = 1 - @]
    OBVIOUS
  <2>2. PICK h : h = SettingsHandlers(d, s)["digest"]
    OBVIOUS
  <2>3. /\ h.bodies = <<x>> /\ h.takes = {"org", "digest", "weekly"}
        /\ h.adopts = {"org", "digest", "weekly"}
        /\ h.before = x /\ h.after = <<>>
        /\ h.leaves = FALSE /\ h.says = "saved" /\ h.fails = "failed"
    BY <2>1, <2>2 DEF SettingsHandlers, Send
  <2>4. /\ DOMAIN x = {"digest", "weekly"}
        /\ x["digest"] = 1 - d["digest"]
        /\ x["weekly"] = d["weekly"]
    BY <2>1 DEF Only
  <2>5. /\ 1 \in DOMAIN h.bodies /\ h.bodies[1] = x
    BY <2>3, FirstOfOne
  <2>6. Told("settings", h, d, x)
    BY <2>3, <2>4, <1>1 DEF Told
  <2>7. Valid("settings", d, x)
    BY <2>4, <1>1, FieldRanges DEF Valid, IsDraft, Inputs, Counter, PostField
  <2>8. Fits("settings", h, d, x)
    BY <2>6, <2>7 DEF Fits, Denies
  <2>9. Bodies("settings", h, d)
    BY <2>3, <2>8, OneSend
  <2>10. Sets("settings", h, d)
    BY <2>3, <2>4, <2>5, <1>1, FieldRanges
    DEF Sets, IsDraft, Inputs, PostField, Destructive
  <2>11. Words("settings", h)
    BY <2>3 DEF Words
  <2>12. Good("settings", h, d)
    BY <2>9, <2>10, <2>11 DEF Good
  <2> QED
    BY <1>2, <1>4, <2>2, <2>12
<1>5. CASE b = "weekly"
  <2>1. PICK x : x = [Only(d, {"digest", "weekly"}) EXCEPT !["weekly"] = 1 - @]
    OBVIOUS
  <2>2. PICK h : h = SettingsHandlers(d, s)["weekly"]
    OBVIOUS
  <2>3. /\ h.bodies = <<x>> /\ h.takes = {"org", "digest", "weekly"}
        /\ h.adopts = {"org", "digest", "weekly"}
        /\ h.before = x /\ h.after = <<>>
        /\ h.leaves = FALSE /\ h.says = "saved" /\ h.fails = "failed"
    BY <2>1, <2>2 DEF SettingsHandlers, Send
  <2>4. /\ DOMAIN x = {"digest", "weekly"}
        /\ x["digest"] = d["digest"]
        /\ x["weekly"] = 1 - d["weekly"]
    BY <2>1 DEF Only
  <2>5. /\ 1 \in DOMAIN h.bodies /\ h.bodies[1] = x
    BY <2>3, FirstOfOne
  <2>6. Told("settings", h, d, x)
    BY <2>3, <2>4, <1>1 DEF Told
  <2>7. Valid("settings", d, x)
    BY <2>4, <1>1, FieldRanges DEF Valid, IsDraft, Inputs, Counter, PostField
  <2>8. Fits("settings", h, d, x)
    BY <2>6, <2>7 DEF Fits, Denies
  <2>9. Bodies("settings", h, d)
    BY <2>3, <2>8, OneSend
  <2>10. Sets("settings", h, d)
    BY <2>3, <2>4, <2>5, <1>1, FieldRanges
    DEF Sets, IsDraft, Inputs, PostField, Destructive
  <2>11. Words("settings", h)
    BY <2>3 DEF Words
  <2>12. Good("settings", h, d)
    BY <2>9, <2>10, <2>11 DEF Good
  <2> QED
    BY <1>2, <1>5, <2>2, <2>12
<1>6. CASE b = "tenant"
  <2>1. PICK x : x = Only(d, {"tenant"})
    OBVIOUS
  <2>2. PICK h : h = SettingsHandlers(d, s)["tenant"]
    OBVIOUS
  <2>3. /\ h.bodies = <<x>> /\ h.takes = {"tenant"}
        /\ h.adopts = {"tenant"}
        /\ h.before = <<>> /\ h.after = <<>>
        /\ h.leaves = FALSE /\ h.says = "saved" /\ h.fails = "failed"
    BY <2>1, <2>2 DEF SettingsHandlers, Send
  <2>4. /\ DOMAIN x = {"tenant"}
        /\ x["tenant"] = d["tenant"]
    BY <2>1 DEF Only
  <2>5. Told("settings", h, d, x)
    BY <2>3, <2>4, <1>1 DEF Told
  <2>6. Valid("settings", d, x)
    BY <2>4, <1>1, FieldRanges DEF Valid, IsDraft, Inputs, Counter, PostField
  <2>7. Good("settings", h, d)
    BY <2>3, <2>5, <2>6, PlainSend DEF PostField
  <2> QED
    BY <1>2, <1>6, <2>2, <2>7
<1> QED
  BY <1>2, <1>3, <1>4, <1>5, <1>6

LEMMA DetectionSends ==
  ASSUME NEW d, NEW s, NEW b \in DOMAIN View("detection", d, s).presses
  PROVE  Good("detection", Handlers("detection", d, s)[b], d)
<1>1. /\ FieldsOf("detection") = {"severity", "retention"}
      /\ Copied("detection") = {"severity", "retention"}
      /\ ShownOf("detection") = {"severity", "retention"}
  BY PageFields
<1>2. /\ Handlers("detection", d, s) = DetectionHandlers(d, s)
      /\ b \in {"save"}
  <2>1. /\ View("detection", d, s) = DetectionView(d, s)
        /\ Handlers("detection", d, s) = DetectionHandlers(d, s)
    BY Zenon DEF View, Handlers
  <2> QED
    BY <2>1 DEF DetectionView
<1>3. CASE b = "save"
  <2>1. PICK x : x = Only(d, FieldsOf("detection"))
    OBVIOUS
  <2>2. PICK h : h = DetectionHandlers(d, s)["save"]
    OBVIOUS
  <2>3. /\ h.bodies = <<x>> /\ h.takes = {"severity", "retention"}
        /\ h.adopts = {"severity", "retention"}
        /\ h.before = <<>> /\ h.after = <<>>
        /\ h.leaves = FALSE /\ h.says = "saved" /\ h.fails = "failed"
    BY <2>1, <2>2, <1>1 DEF DetectionHandlers, Send
  <2>4. /\ DOMAIN x = {"severity", "retention"}
        /\ x["severity"] = d["severity"]
        /\ x["retention"] = d["retention"]
    BY <2>1, <1>1 DEF Only
  <2>5. Told("detection", h, d, x)
    BY <2>3, <2>4, <1>1 DEF Told
  <2>6. Valid("detection", d, x)
    BY <2>4, <1>1, FieldRanges DEF Valid, IsDraft, Inputs, Counter, PostField
  <2>7. Good("detection", h, d)
    BY <2>3, <2>5, <2>6, PlainSend DEF PostField
  <2> QED
    BY <1>2, <1>3, <2>2, <2>7
<1> QED
  BY <1>2, <1>3

LEMMA AutomationSends ==
  ASSUME NEW d, NEW s, NEW b \in DOMAIN View("automation", d, s).presses
  PROVE  Good("automation", Handlers("automation", d, s)[b], d)
<1>1. /\ FieldsOf("automation") = {"notify", "block_ip", "isolate_host", "verdict"}
      /\ Copied("automation") = {}
      /\ ShownOf("automation") = {"notify", "block_ip", "isolate_host", "verdict"}
  BY PageFields
<1>2. /\ Handlers("automation", d, s) = AutomationHandlers(d, s)
      /\ b \in {"notify", "block_ip", "isolate_host", "kill", "approve",
                 "deny"}
  <2>1. /\ View("automation", d, s) = AutomationView(d, s)
        /\ Handlers("automation", d, s) = AutomationHandlers(d, s)
    BY Zenon DEF View, Handlers
  <2> QED
    BY <2>1, AutomationButtons
<1>3. CASE b \in {"notify", "block_ip", "isolate_host"}
  <2>1. AutomationHandlers(d, s)[b] = ModeHandler(d, b)
    BY <1>3 DEF AutomationHandlers
  <2> QED
    BY <1>2, <1>3, <2>1, ModeSends
<1>4. CASE b = "kill"
  <2>1. PICK x : x = [block_ip |-> 1]
    OBVIOUS
  <2>2. PICK y : y = [isolate_host |-> 1]
    OBVIOUS
  <2>3. PICK h : h = AutomationHandlers(d, s)["kill"]
    OBVIOUS
  <2>4. PICK w : w = [c \in Destructive |-> 1]
    OBVIOUS
  <2>5. /\ h.bodies = <<x, y>> /\ h.takes = {}
        /\ h.adopts = {}
        /\ h.before = <<>> /\ h.after = w
        /\ h.leaves = FALSE /\ h.says = "killed" /\ h.fails = ""
    BY <2>1, <2>2, <2>3, <2>4 DEF AutomationHandlers, Send, KillSwitch
  <2>6. /\ DOMAIN x = {"block_ip"}
        /\ x["block_ip"] = 1
    BY <2>1
  <2>7. /\ DOMAIN y = {"isolate_host"}
        /\ y["isolate_host"] = 1
    BY <2>2
  <2>8. /\ DOMAIN w = {"block_ip", "isolate_host"}
        /\ w["block_ip"] = 1
        /\ w["isolate_host"] = 1
    BY <2>4 DEF Destructive
  <2>9. h.bodies = <<x, y>>
    BY <2>5
  <2>10. /\ 1 \in DOMAIN h.bodies /\ h.bodies[1] = x
         /\ 2 \in DOMAIN h.bodies /\ h.bodies[2] = y
    BY <2>9, FirstOfTwo
  <2>11. Told("automation", h, d, x)
    BY <2>5, <2>6, <1>1, <2>8 DEF Told
  <2>12. Valid("automation", d, x)
    BY <2>6, <1>1, FieldRanges DEF Valid, IsDraft, Inputs, Counter, PostField
  <2>13. Fits("automation", h, d, x)
    BY <2>5, <2>11, <2>12, <2>6 DEF Fits, Denies, Destructive
  <2>14. Told("automation", h, d, y)
    BY <2>5, <2>7, <1>1, <2>8 DEF Told
  <2>15. Valid("automation", d, y)
    BY <2>7, <1>1, FieldRanges DEF Valid, IsDraft, Inputs, Counter, PostField
  <2>16. Fits("automation", h, d, y)
    BY <2>5, <2>14, <2>15, <2>7 DEF Fits, Denies, Destructive
  <2>17. Agree("automation", x, y)
    BY <2>6, <2>7, <1>1 DEF Agree, Counter, PostField
  <2>18. Bodies("automation", h, d)
    BY <2>5, <2>13, <2>16, <2>17, TwoSends
  <2>19. Inputs("automation", w)
    BY <2>8, <1>1, FieldRanges DEF Inputs
  <2>20. \A f \in DOMAIN w \cap ShownOf("automation") : \E k \in DOMAIN h.bodies :
           f \in DOMAIN h.bodies[k] /\ h.bodies[k][f] = w[f]
    BY <2>6, <2>7, <2>8, <2>10, <1>1
  <2>21. Sets("automation", h, d)
    BY <2>5, <2>19, <2>20, SetsAfter DEF PostField
  <2>22. Words("automation", h)
    BY <2>5, <2>6, <2>7, <2>8, <2>10 DEF Words, Destructive
  <2>23. Good("automation", h, d)
    BY <2>18, <2>21, <2>22 DEF Good
  <2> QED
    BY <1>2, <1>4, <2>3, <2>23
<1>5. CASE b = "approve"
  <2>1. PICK x : x = [verdict |-> 1]
    OBVIOUS
  <2>2. PICK h : h = AutomationHandlers(d, s)["approve"]
    OBVIOUS
  <2>3. /\ h.bodies = <<x>> /\ h.takes = {"verdict"}
        /\ h.adopts = {"verdict"}
        /\ h.before = <<>> /\ h.after = <<>>
        /\ h.leaves = FALSE /\ h.says = "saved" /\ h.fails = "failed"
    BY <2>1, <2>2 DEF AutomationHandlers, Send, Decision
  <2>4. /\ DOMAIN x = {"verdict"}
        /\ x["verdict"] = 1
    BY <2>1
  <2>5. Told("automation", h, d, x)
    BY <2>3, <2>4, <1>1 DEF Told
  <2>6. Valid("automation", d, x)
    BY <2>4, <1>1, FieldRanges DEF Valid, IsDraft, Inputs, Counter, PostField
  <2>7. Fits("automation", h, d, x)
    BY <2>3, <2>5, <2>6, <2>4 DEF Fits, Denies, Destructive
  <2>8. Bodies("automation", h, d)
    BY <2>3, <2>7, OneSend
  <2>9. Sets("automation", h, d)
    BY <2>3, NoSets DEF PostField
  <2>10. Words("automation", h)
    BY <2>3 DEF Words
  <2>11. Good("automation", h, d)
    BY <2>8, <2>9, <2>10 DEF Good
  <2> QED
    BY <1>2, <1>5, <2>2, <2>11
<1>6. CASE b = "deny"
  <2>1. PICK x : x = [verdict |-> 2]
    OBVIOUS
  <2>2. PICK h : h = AutomationHandlers(d, s)["deny"]
    OBVIOUS
  <2>3. /\ h.bodies = <<x>> /\ h.takes = {"verdict"}
        /\ h.adopts = {"verdict"}
        /\ h.before = <<>> /\ h.after = <<>>
        /\ h.leaves = FALSE /\ h.says = "saved" /\ h.fails = "failed"
    BY <2>1, <2>2 DEF AutomationHandlers, Send, Decision
  <2>4. /\ DOMAIN x = {"verdict"}
        /\ x["verdict"] = 2
    BY <2>1
  <2>5. Told("automation", h, d, x)
    BY <2>3, <2>4, <1>1 DEF Told
  <2>6. Valid("automation", d, x)
    BY <2>4, <1>1, FieldRanges DEF Valid, IsDraft, Inputs, Counter, PostField
  <2>7. Fits("automation", h, d, x)
    BY <2>3, <2>5, <2>6, <2>4 DEF Fits, Denies, Destructive
  <2>8. Bodies("automation", h, d)
    BY <2>3, <2>7, OneSend
  <2>9. Sets("automation", h, d)
    BY <2>3, NoSets DEF PostField
  <2>10. Words("automation", h)
    BY <2>3 DEF Words
  <2>11. Good("automation", h, d)
    BY <2>8, <2>9, <2>10 DEF Good
  <2> QED
    BY <1>2, <1>6, <2>2, <2>11
<1> QED
  BY <1>2, <1>3, <1>4, <1>5, <1>6

LEMMA ConnectorSends ==
  ASSUME NEW d, NEW s, NEW b \in DOMAIN View("connector", d, s).presses
  PROVE  Good("connector", Handlers("connector", d, s)[b], d)
<1>1. /\ FieldsOf("connector") = {"made", "config", "access", "tested"}
      /\ Copied("connector") = {"made", "tested"}
      /\ ShownOf("connector") = {"config", "access"}
  BY PageFields
<1>2. /\ Handlers("connector", d, s) = ConnectorHandlers(d, s)
      /\ b \in {"save", "test"}
  <2>1. /\ View("connector", d, s) = ConnectorView(d, s)
        /\ Handlers("connector", d, s) = ConnectorHandlers(d, s)
    BY Zenon DEF View, Handlers
  <2> QED
    BY <2>1 DEF ConnectorView
<1>3. CASE b = "save"
  <2>1. CASE s["made"] = 0
    <3>1. PICK x : x = With(Only(d, {"config", "access"}), [made |-> 1])
      OBVIOUS
    <3>2. PICK h : h = ConnectorHandlers(d, s)["save"]
      OBVIOUS
    <3>3. /\ h.bodies = <<x>> /\ h.takes = {"made"}
          /\ h.adopts = {}
          /\ h.before = <<>> /\ h.after = <<>>
          /\ h.leaves = FALSE /\ h.says = "" /\ h.fails = ""
      BY <3>1, <3>2, <2>1 DEF ConnectorHandlers, Send, Silent
    <3>4. /\ DOMAIN x = {"made", "config", "access"}
          /\ x["made"] = 1
          /\ x["config"] = d["config"]
          /\ x["access"] = d["access"]
      BY <3>1 DEF Only, With
    <3>5. Told("connector", h, d, x)
      BY <3>3, <3>4, <1>1 DEF Told
    <3>6. Valid("connector", d, x)
      BY <3>4, <1>1, FieldRanges DEF Valid, IsDraft, Inputs, Counter, PostField
    <3>7. Good("connector", h, d)
      BY <3>3, <3>5, <3>6, PlainSend DEF PostField
    <3> QED
      BY <1>2, <1>3, <3>2, <3>7
  <2>2. CASE s["made"] # 0
    <3>1. PICK x : x = Only(d, {"config", "access"})
      OBVIOUS
    <3>2. PICK h : h = ConnectorHandlers(d, s)["save"]
      OBVIOUS
    <3>3. /\ h.bodies = <<x>> /\ h.takes = {"made"}
          /\ h.adopts = {}
          /\ h.before = <<>> /\ h.after = <<>>
          /\ h.leaves = FALSE /\ h.says = "" /\ h.fails = ""
      BY <3>1, <3>2, <2>2 DEF ConnectorHandlers, Send, Silent
    <3>4. /\ DOMAIN x = {"config", "access"}
          /\ x["config"] = d["config"]
          /\ x["access"] = d["access"]
      BY <3>1 DEF Only
    <3>5. Told("connector", h, d, x)
      BY <3>3, <3>4, <1>1 DEF Told
    <3>6. Valid("connector", d, x)
      BY <3>4, <1>1, FieldRanges DEF Valid, IsDraft, Inputs, Counter, PostField
    <3>7. Good("connector", h, d)
      BY <3>3, <3>5, <3>6, PlainSend DEF PostField
    <3> QED
      BY <1>2, <1>3, <3>2, <3>7
  <2> QED
    BY <2>1, <2>2
<1>4. CASE b = "test"
  <2>1. CASE s["made"] = 0
    <3>1. PICK x : x = With(Only(d, {"config", "access"}), [made |-> 1])
      OBVIOUS
    <3>2. PICK y : y = Only(d, {"config", "access"})
      OBVIOUS
    <3>3. PICK z : z = [tested |-> 1]
      OBVIOUS
    <3>4. PICK h : h = ConnectorHandlers(d, s)["test"]
      OBVIOUS
    <3>5. <<x>> \o <<y, z>> = <<x, y, z>>
      BY Joined
    <3>6. h = [Silent(Send("test", <<x, y, z>>)) EXCEPT
                !.takes = {"made", "tested"}, !.keeps = {"made"},
                !.says = "tested"]
      BY <3>1, <3>2, <3>3, <3>4, <2>1, <3>5, Zenon DEF ConnectorHandlers
    <3>7. /\ h.bodies = <<x, y, z>> /\ h.takes = {"made", "tested"}
          /\ h.adopts = {}
          /\ h.before = <<>> /\ h.after = <<>>
          /\ h.leaves = FALSE /\ h.says = "tested" /\ h.fails = ""
      BY <3>6 DEF Send, Silent
    <3>8. /\ DOMAIN x = {"made", "config", "access"}
          /\ x["made"] = 1
          /\ x["config"] = d["config"]
          /\ x["access"] = d["access"]
      BY <3>1 DEF Only, With
    <3>9. /\ DOMAIN y = {"config", "access"}
          /\ y["config"] = d["config"]
          /\ y["access"] = d["access"]
      BY <3>2 DEF Only
    <3>10. /\ DOMAIN z = {"tested"}
           /\ z["tested"] = 1
      BY <3>3
    <3>11. Told("connector", h, d, x)
      BY <3>7, <3>8, <1>1 DEF Told
    <3>12. Valid("connector", d, x)
      BY <3>8, <1>1, FieldRanges DEF Valid, IsDraft, Inputs, Counter, PostField
    <3>13. Fits("connector", h, d, x)
      BY <3>11, <3>12 DEF Fits, Denies
    <3>14. Told("connector", h, d, y)
      BY <3>7, <3>9, <1>1 DEF Told
    <3>15. Valid("connector", d, y)
      BY <3>9, <1>1, FieldRanges DEF Valid, IsDraft, Inputs, Counter, PostField
    <3>16. Fits("connector", h, d, y)
      BY <3>14, <3>15 DEF Fits, Denies
    <3>17. Told("connector", h, d, z)
      BY <3>7, <3>10, <1>1 DEF Told
    <3>18. Valid("connector", d, z)
      BY <3>10, <1>1, FieldRanges DEF Valid, IsDraft, Inputs, Counter, PostField
    <3>19. Fits("connector", h, d, z)
      BY <3>17, <3>18 DEF Fits, Denies
    <3>20. /\ Agree("connector", x, y)
           /\ Agree("connector", x, z)
           /\ Agree("connector", y, z)
      BY <3>8, <3>9, <3>10, <1>1 DEF Agree, Counter, PostField
    <3>21. Bodies("connector", h, d)
      BY <3>7, <3>13, <3>16, <3>19, <3>20, ThreeSends
    <3>22. Sets("connector", h, d)
      BY <3>7, NoSets DEF PostField
    <3>23. Words("connector", h)
      BY <3>7 DEF Words
    <3>24. Good("connector", h, d)
      BY <3>21, <3>22, <3>23 DEF Good
    <3> QED
      BY <1>2, <1>4, <3>4, <3>24
  <2>2. CASE s["made"] # 0
    <3>1. PICK x : x = Only(d, {"config", "access"})
      OBVIOUS
    <3>2. PICK y : y = [tested |-> 1]
      OBVIOUS
    <3>3. PICK h : h = ConnectorHandlers(d, s)["test"]
      OBVIOUS
    <3>4. <<>> \o <<x, y>> = <<x, y>>
      BY Joined
    <3>5. h = [Silent(Send("test", <<x, y>>)) EXCEPT
                !.takes = {"made", "tested"}, !.keeps = {"made"},
                !.says = "tested"]
      BY <3>1, <3>2, <3>3, <2>2, <3>4, Zenon DEF ConnectorHandlers
    <3>6. /\ h.bodies = <<x, y>> /\ h.takes = {"made", "tested"}
          /\ h.adopts = {}
          /\ h.before = <<>> /\ h.after = <<>>
          /\ h.leaves = FALSE /\ h.says = "tested" /\ h.fails = ""
      BY <3>5 DEF Send, Silent
    <3>7. /\ DOMAIN x = {"config", "access"}
          /\ x["config"] = d["config"]
          /\ x["access"] = d["access"]
      BY <3>1 DEF Only
    <3>8. /\ DOMAIN y = {"tested"}
          /\ y["tested"] = 1
      BY <3>2
    <3>9. Told("connector", h, d, x)
      BY <3>6, <3>7, <1>1 DEF Told
    <3>10. Valid("connector", d, x)
      BY <3>7, <1>1, FieldRanges DEF Valid, IsDraft, Inputs, Counter, PostField
    <3>11. Fits("connector", h, d, x)
      BY <3>9, <3>10 DEF Fits, Denies
    <3>12. Told("connector", h, d, y)
      BY <3>6, <3>8, <1>1 DEF Told
    <3>13. Valid("connector", d, y)
      BY <3>8, <1>1, FieldRanges DEF Valid, IsDraft, Inputs, Counter, PostField
    <3>14. Fits("connector", h, d, y)
      BY <3>12, <3>13 DEF Fits, Denies
    <3>15. Agree("connector", x, y)
      BY <3>7, <3>8, <1>1 DEF Agree, Counter, PostField
    <3>16. Bodies("connector", h, d)
      BY <3>6, <3>11, <3>14, <3>15, TwoSends
    <3>17. Sets("connector", h, d)
      BY <3>6, NoSets DEF PostField
    <3>18. Words("connector", h)
      BY <3>6 DEF Words
    <3>19. Good("connector", h, d)
      BY <3>16, <3>17, <3>18 DEF Good
    <3> QED
      BY <1>2, <1>4, <3>3, <3>19
  <2> QED
    BY <2>1, <2>2
<1> QED
  BY <1>2, <1>3, <1>4

LEMMA SourceSends ==
  ASSUME NEW d, NEW s, NEW b \in DOMAIN View("source", d, s).presses
  PROVE  Good("source", Handlers("source", d, s)[b], d)
<1>1. /\ FieldsOf("source") = {"config", "access", "tested"}
      /\ Copied("source") = {"tested"}
      /\ ShownOf("source") = {"config"}
  BY PageFields
<1>2. /\ Handlers("source", d, s) = SourceHandlers(d, s)
      /\ b \in {"save", "test"}
  <2>1. /\ View("source", d, s) = SourceView(d, s)
        /\ Handlers("source", d, s) = SourceHandlers(d, s)
    BY Zenon DEF View, Handlers
  <2> QED
    BY <2>1 DEF SourceView
<1>3. CASE b = "save"
  <2>1. PICK x : x = [config |-> d["config"], access |-> 1]
    OBVIOUS
  <2>2. PICK h : h = SourceHandlers(d, s)["save"]
    OBVIOUS
  <2>3. /\ h.bodies = <<x>> /\ h.takes = {}
        /\ h.adopts = {}
        /\ h.before = <<>> /\ h.after = <<>>
        /\ h.leaves = FALSE /\ h.says = "saved" /\ h.fails = "failed"
    BY <2>1, <2>2 DEF SourceHandlers, Send
  <2>4. /\ DOMAIN x = {"config", "access"}
        /\ x["config"] = d["config"]
        /\ x["access"] = 1
    BY <2>1
  <2>5. Told("source", h, d, x)
    BY <2>3, <2>4, <1>1 DEF Told
  <2>6. Valid("source", d, x)
    BY <2>4, <1>1, FieldRanges DEF Valid, IsDraft, Inputs, Counter, PostField
  <2>7. Good("source", h, d)
    BY <2>3, <2>5, <2>6, PlainSend DEF PostField
  <2> QED
    BY <1>2, <1>3, <2>2, <2>7
<1>4. CASE b = "test"
  <2>1. PICK x : x = [config |-> d["config"], access |-> 1]
    OBVIOUS
  <2>2. PICK y : y = [tested |-> 1]
    OBVIOUS
  <2>3. PICK h : h = SourceHandlers(d, s)["test"]
    OBVIOUS
  <2>4. /\ h.bodies = <<x, y>> /\ h.takes = {"tested"}
        /\ h.adopts = {}
        /\ h.before = <<>> /\ h.after = <<>>
        /\ h.leaves = FALSE /\ h.says = "tested" /\ h.fails = "failed"
    BY <2>1, <2>2, <2>3 DEF SourceHandlers, Send
  <2>5. /\ DOMAIN x = {"config", "access"}
        /\ x["config"] = d["config"]
        /\ x["access"] = 1
    BY <2>1
  <2>6. /\ DOMAIN y = {"tested"}
        /\ y["tested"] = 1
    BY <2>2
  <2>7. Told("source", h, d, x)
    BY <2>4, <2>5, <1>1 DEF Told
  <2>8. Valid("source", d, x)
    BY <2>5, <1>1, FieldRanges DEF Valid, IsDraft, Inputs, Counter, PostField
  <2>9. Fits("source", h, d, x)
    BY <2>7, <2>8 DEF Fits, Denies
  <2>10. Told("source", h, d, y)
    BY <2>4, <2>6, <1>1 DEF Told
  <2>11. Valid("source", d, y)
    BY <2>6, <1>1, FieldRanges DEF Valid, IsDraft, Inputs, Counter, PostField
  <2>12. Fits("source", h, d, y)
    BY <2>10, <2>11 DEF Fits, Denies
  <2>13. Agree("source", x, y)
    BY <2>5, <2>6, <1>1 DEF Agree, Counter, PostField
  <2>14. Bodies("source", h, d)
    BY <2>4, <2>9, <2>12, <2>13, TwoSends
  <2>15. Sets("source", h, d)
    BY <2>4, NoSets DEF PostField
  <2>16. Words("source", h)
    BY <2>4 DEF Words
  <2>17. Good("source", h, d)
    BY <2>14, <2>15, <2>16 DEF Good
  <2> QED
    BY <1>2, <1>4, <2>3, <2>17
<1> QED
  BY <1>2, <1>3, <1>4

LEMMA MonitorSends ==
  ASSUME NEW d, NEW s, NEW b \in DOMAIN View("monitors", d, s).presses
  PROVE  Good("monitors", Handlers("monitors", d, s)[b], d)
<1>1. /\ FieldsOf("monitors") = {"row1", "row2", "items"}
      /\ Copied("monitors") = {"row1", "row2", "items"}
      /\ ShownOf("monitors") = {}
  BY PageFields
<1>2. /\ Handlers("monitors", d, s) = MonitorHandlers(d, s)
      /\ b \in {"use1", "use2", "drop1", "drop2", "import"}
  <2>1. /\ View("monitors", d, s) = MonitorView(d, s)
        /\ Handlers("monitors", d, s) = MonitorHandlers(d, s)
    BY Zenon DEF View, Handlers
  <2> QED
    BY <2>1 DEF MonitorView
<1>3. CASE b \in {"use1", "use2", "drop1", "drop2"}
  <2>1. \E r \in Rows : \E v \in {1, Gone} : MonitorHandlers(d, s)[b] = RowSend(r, v)
    BY <1>3 DEF MonitorHandlers, Rows
  <2> QED
    BY <1>2, <2>1, RowSends
<1>4. CASE b = "import"
  <2>1. PICK x : x = [items |-> 1]
    OBVIOUS
  <2>2. PICK h : h = MonitorHandlers(d, s)["import"]
    OBVIOUS
  <2>3. /\ h.bodies = <<x>> /\ h.takes = {}
        /\ h.adopts = {}
        /\ h.before = <<>> /\ h.after = <<>>
        /\ h.leaves = TRUE /\ h.says = "" /\ h.fails = ""
    BY <2>1, <2>2 DEF MonitorHandlers, Send, Silent
  <2>4. /\ DOMAIN x = {"items"}
        /\ x["items"] = 1
    BY <2>1
  <2>5. Told("monitors", h, d, x)
    BY <2>3, <2>4, <1>1 DEF Told
  <2>6. Valid("monitors", d, x)
    BY <2>4, <1>1, FieldRanges DEF Valid, IsDraft, Inputs, Counter, PostField
  <2>7. Good("monitors", h, d)
    BY <2>3, <2>5, <2>6, PlainSend DEF PostField
  <2> QED
    BY <1>2, <1>4, <2>2, <2>7
<1> QED
  BY <1>2, <1>3, <1>4

LEMMA IntegrationSends ==
  ASSUME NEW d, NEW s, NEW b \in DOMAIN View("integrations", d, s).presses
  PROVE  Good("integrations", Handlers("integrations", d, s)[b], d)
<1>1. /\ Handlers("integrations", d, s) = IntegrationHandlers(d, s)
      /\ b \in {"use1", "use2", "drop1", "drop2"}
  <2>1. /\ View("integrations", d, s) = IntegrationView(d, s)
        /\ Handlers("integrations", d, s) = IntegrationHandlers(d, s)
    BY Zenon DEF View, Handlers
  <2> QED
    BY <2>1 DEF IntegrationView
<1>2. CASE b \in {"use1", "use2", "drop1", "drop2"}
  <2>1. \E r \in Rows : \E v \in {1, Gone} : IntegrationHandlers(d, s)[b] = RowSend(r, v)
    BY <1>2 DEF IntegrationHandlers, Rows
  <2> QED
    BY <1>1, <2>1, RowSends
<1> QED
  BY <1>1, <1>2

LEMMA RulesSends ==
  ASSUME NEW d, NEW s, NEW b \in DOMAIN View("rules", d, s).presses
  PROVE  Good("rules", Handlers("rules", d, s)[b], d)
<1>1. /\ Handlers("rules", d, s) = RulesHandlers(d, s)
      /\ b \in {"drop1", "drop2"}
  <2>1. /\ View("rules", d, s) = RulesView(d, s)
        /\ Handlers("rules", d, s) = RulesHandlers(d, s)
    BY Zenon DEF View, Handlers
  <2> QED
    BY <2>1 DEF RulesView
<1>2. CASE b \in {"drop1", "drop2"}
  <2>1. \E r \in Rows : \E v \in {1, Gone} : RulesHandlers(d, s)[b] = RowSend(r, v)
    BY <1>2 DEF RulesHandlers, Rows
  <2> QED
    BY <1>1, <2>1, RowSends
<1> QED
  BY <1>1, <1>2

LEMMA PickerSends ==
  ASSUME NEW d, NEW s, NEW b \in DOMAIN View("picker", d, s).presses
  PROVE  Good("picker", Handlers("picker", d, s)[b], d)
<1>1. /\ FieldsOf("picker") = {"items"}
      /\ Copied("picker") = {"items"}
      /\ ShownOf("picker") = {}
  BY PageFields
<1>2. /\ Handlers("picker", d, s) = PickerHandlers(d, s)
      /\ b \in {"create"}
  <2>1. /\ View("picker", d, s) = PickerView(d, s)
        /\ Handlers("picker", d, s) = PickerHandlers(d, s)
    BY Zenon DEF View, Handlers
  <2> QED
    BY <2>1 DEF PickerView
<1>3. CASE b = "create"
  <2>1. PICK x : x = [items |-> 1]
    OBVIOUS
  <2>2. PICK h : h = PickerHandlers(d, s)["create"]
    OBVIOUS
  <2>3. /\ h.bodies = <<x>> /\ h.takes = {}
        /\ h.adopts = {}
        /\ h.before = <<>> /\ h.after = <<>>
        /\ h.leaves = TRUE /\ h.says = "" /\ h.fails = ""
    BY <2>1, <2>2 DEF PickerHandlers, Send, Silent
  <2>4. /\ DOMAIN x = {"items"}
        /\ x["items"] = 1
    BY <2>1
  <2>5. Told("picker", h, d, x)
    BY <2>3, <2>4, <1>1 DEF Told
  <2>6. Valid("picker", d, x)
    BY <2>4, <1>1, FieldRanges DEF Valid, IsDraft, Inputs, Counter, PostField
  <2>7. Good("picker", h, d)
    BY <2>3, <2>5, <2>6, PlainSend DEF PostField
  <2> QED
    BY <1>2, <1>3, <2>2, <2>7
<1> QED
  BY <1>2, <1>3

LEMMA CasesSends ==
  ASSUME NEW d, NEW s, NEW b \in DOMAIN View("cases", d, s).presses
  PROVE  Good("cases", Handlers("cases", d, s)[b], d)
<1>1. /\ FieldsOf("cases") = {"items"}
      /\ Copied("cases") = {"items"}
      /\ ShownOf("cases") = {}
  BY PageFields
<1>2. /\ Handlers("cases", d, s) = CasesHandlers(d, s)
      /\ b \in {"create"}
  <2>1. /\ View("cases", d, s) = CasesView(d, s)
        /\ Handlers("cases", d, s) = CasesHandlers(d, s)
    BY Zenon DEF View, Handlers
  <2> QED
    BY <2>1 DEF CasesView
<1>3. CASE b = "create"
  <2>1. PICK x : x = [items |-> 1]
    OBVIOUS
  <2>2. PICK h : h = CasesHandlers(d, s)["create"]
    OBVIOUS
  <2>3. PICK w : w = [items |-> 0]
    OBVIOUS
  <2>4. /\ h.bodies = <<x>> /\ h.takes = {}
        /\ h.adopts = {}
        /\ h.before = <<>> /\ h.after = w
        /\ h.leaves = TRUE /\ h.says = "" /\ h.fails = ""
    BY <2>1, <2>2, <2>3 DEF CasesHandlers, Send, Silent
  <2>5. /\ DOMAIN x = {"items"}
        /\ x["items"] = 1
    BY <2>1
  <2>6. /\ DOMAIN w = {"items"}
        /\ w["items"] = 0
    BY <2>3
  <2>7. /\ 1 \in DOMAIN h.bodies /\ h.bodies[1] = x
    BY <2>4, FirstOfOne
  <2>8. Told("cases", h, d, x)
    BY <2>4, <2>5, <1>1, <2>6 DEF Told
  <2>9. Valid("cases", d, x)
    BY <2>5, <1>1, FieldRanges DEF Valid, IsDraft, Inputs, Counter, PostField
  <2>10. Fits("cases", h, d, x)
    BY <2>8, <2>9 DEF Fits, Denies
  <2>11. Bodies("cases", h, d)
    BY <2>4, <2>10, OneSend
  <2>12. Inputs("cases", w)
    BY <2>6, <1>1, FieldRanges DEF Inputs
  <2>13. \A f \in DOMAIN w \cap ShownOf("cases") : \E k \in DOMAIN h.bodies :
           f \in DOMAIN h.bodies[k] /\ h.bodies[k][f] = w[f]
    BY <2>5, <2>6, <2>7, <1>1
  <2>14. Sets("cases", h, d)
    BY <2>4, <2>12, <2>13, SetsAfter DEF PostField
  <2>15. Words("cases", h)
    BY <2>4 DEF Words
  <2>16. Good("cases", h, d)
    BY <2>11, <2>14, <2>15 DEF Good
  <2> QED
    BY <1>2, <1>3, <2>2, <2>16
<1> QED
  BY <1>2, <1>3

LEMMA AssetsSends ==
  ASSUME NEW d, NEW s, NEW b \in DOMAIN View("assets", d, s).presses
  PROVE  Good("assets", Handlers("assets", d, s)[b], d)
<1>1. /\ FieldsOf("assets") = {"items"}
      /\ Copied("assets") = {"items"}
      /\ ShownOf("assets") = {}
  BY PageFields
<1>2. /\ Handlers("assets", d, s) = AssetsHandlers(d, s)
      /\ b \in {"create"}
  <2>1. /\ View("assets", d, s) = AssetsView(d, s)
        /\ Handlers("assets", d, s) = AssetsHandlers(d, s)
    BY Zenon DEF View, Handlers
  <2> QED
    BY <2>1 DEF AssetsView
<1>3. CASE b = "create"
  <2>1. PICK x : x = [items |-> 1]
    OBVIOUS
  <2>2. PICK h : h = AssetsHandlers(d, s)["create"]
    OBVIOUS
  <2>3. PICK w : w = [items |-> 0]
    OBVIOUS
  <2>4. /\ h.bodies = <<x>> /\ h.takes = {"items"}
        /\ h.adopts = {}
        /\ h.before = <<>> /\ h.after = w
        /\ h.leaves = FALSE /\ h.says = "" /\ h.fails = ""
    BY <2>1, <2>2, <2>3 DEF AssetsHandlers, Send, Silent
  <2>5. /\ DOMAIN x = {"items"}
        /\ x["items"] = 1
    BY <2>1
  <2>6. /\ DOMAIN w = {"items"}
        /\ w["items"] = 0
    BY <2>3
  <2>7. /\ 1 \in DOMAIN h.bodies /\ h.bodies[1] = x
    BY <2>4, FirstOfOne
  <2>8. Told("assets", h, d, x)
    BY <2>4, <2>5, <1>1, <2>6 DEF Told
  <2>9. Valid("assets", d, x)
    BY <2>5, <1>1, FieldRanges DEF Valid, IsDraft, Inputs, Counter, PostField
  <2>10. Fits("assets", h, d, x)
    BY <2>8, <2>9 DEF Fits, Denies
  <2>11. Bodies("assets", h, d)
    BY <2>4, <2>10, OneSend
  <2>12. Inputs("assets", w)
    BY <2>6, <1>1, FieldRanges DEF Inputs
  <2>13. \A f \in DOMAIN w \cap ShownOf("assets") : \E k \in DOMAIN h.bodies :
           f \in DOMAIN h.bodies[k] /\ h.bodies[k][f] = w[f]
    BY <2>5, <2>6, <2>7, <1>1
  <2>14. Sets("assets", h, d)
    BY <2>4, <2>12, <2>13, SetsAfter DEF PostField
  <2>15. Words("assets", h)
    BY <2>4 DEF Words
  <2>16. Good("assets", h, d)
    BY <2>11, <2>14, <2>15 DEF Good
  <2> QED
    BY <1>2, <1>3, <2>2, <2>16
<1> QED
  BY <1>2, <1>3

LEMMA ReportsSends ==
  ASSUME NEW d, NEW s, NEW b \in DOMAIN View("reports", d, s).presses
  PROVE  Good("reports", Handlers("reports", d, s)[b], d)
<1>1. /\ FieldsOf("reports") = {"items"}
      /\ Copied("reports") = {"items"}
      /\ ShownOf("reports") = {}
  BY PageFields
<1>2. /\ Handlers("reports", d, s) = ReportsHandlers(d, s)
      /\ b \in {"generate"}
  <2>1. /\ View("reports", d, s) = ReportsView(d, s)
        /\ Handlers("reports", d, s) = ReportsHandlers(d, s)
    BY Zenon DEF View, Handlers
  <2> QED
    BY <2>1 DEF ReportsView
<1>3. CASE b = "generate"
  <2>1. PICK x : x = [items |-> 1]
    OBVIOUS
  <2>2. PICK h : h = ReportsHandlers(d, s)["generate"]
    OBVIOUS
  <2>3. /\ h.bodies = <<x>> /\ h.takes = {"items"}
        /\ h.adopts = {}
        /\ h.before = <<>> /\ h.after = <<>>
        /\ h.leaves = FALSE /\ h.says = "" /\ h.fails = ""
    BY <2>1, <2>2 DEF ReportsHandlers, Send, Silent
  <2>4. /\ DOMAIN x = {"items"}
        /\ x["items"] = 1
    BY <2>1
  <2>5. Told("reports", h, d, x)
    BY <2>3, <2>4, <1>1 DEF Told
  <2>6. Valid("reports", d, x)
    BY <2>4, <1>1, FieldRanges DEF Valid, IsDraft, Inputs, Counter, PostField
  <2>7. Good("reports", h, d)
    BY <2>3, <2>5, <2>6, PlainSend DEF PostField
  <2> QED
    BY <1>2, <1>3, <2>2, <2>7
<1> QED
  BY <1>2, <1>3

(* Every button of every page.                                              *)
LEMMA AllHandlers ==
  ASSUME NEW p \in Page, NEW d, NEW s, NEW b \in DOMAIN View(p, d, s).presses
  PROVE  Good(p, Handlers(p, d, s)[b], d)
<1>1. CASE p = "incident"
  BY <1>1, IncidentSends
<1>2. CASE p = "case"
  BY <1>2, CaseSends
<1>3. CASE p = "rule"
  BY <1>3, RuleSends
<1>4. CASE p = "settings"
  BY <1>4, SettingsSends
<1>5. CASE p = "detection"
  BY <1>5, DetectionSends
<1>6. CASE p = "automation"
  BY <1>6, AutomationSends
<1>7. CASE p = "connector"
  BY <1>7, ConnectorSends
<1>8. CASE p = "source"
  BY <1>8, SourceSends
<1>9. CASE p = "monitors"
  BY <1>9, MonitorSends
<1>10. CASE p = "integrations"
  BY <1>10, IntegrationSends
<1>11. CASE p = "rules"
  BY <1>11, RulesSends
<1>12. CASE p = "picker"
  BY <1>12, PickerSends
<1>13. CASE p = "cases"
  BY <1>13, CasesSends
<1>14. CASE p = "assets"
  BY <1>14, AssetsSends
<1>15. CASE p = "reports"
  BY <1>15, ReportsSends
<1> QED
  BY <1>1, <1>2, <1>3, <1>4, <1>5, <1>6, <1>7, <1>8, <1>9, <1>10, <1>11, <1>12,
     <1>13, <1>14, <1>15 DEF Page

-----------------------------------------------------------------------------
(* What the API can hold of page p.                                         *)
IsRecord(p, r) ==
  r \in [FieldsOf(p) -> 0 .. MaxPresses + 2] /\ \A f \in DOMAIN r : r[f] \in Kept(f)

(* Every range is within the one TypeOK names.                              *)
LEMMA Small ==
  ASSUME NEW f
  PROVE  /\ Kept(f) \subseteq 0 .. MaxPresses + 2
         /\ Typed(f) \subseteq 0 .. MaxPresses + 2
         /\ f \notin PostField => Typed(f) = Kept(f)
         /\ f \in PostField => Typed(f) = 0 .. 1
         /\ f \in Counter => Kept(f) = 0 .. MaxPresses
         /\ f \notin Counter => Kept(f) \subseteq 0 .. 2
         /\ f \notin Counter \cup Rows \cup {"verdict"} => Kept(f) = 0 .. 1
<1>1. MaxPresses \in Nat
  BY FormAssumption
<1> QED
  BY <1>1 DEF Kept, Typed, Counter

(* A copy, a draft and the input that a reply, or a handler, changes are    *)
(* still a record, a draft and a draft.                                     *)
LEMMA TakenRecord ==
  ASSUME NEW p, NEW now, IsRecord(p, now), NEW j, NEW F,
         j.copy = <<>> \/ IsRecord(p, j.copy)
  PROVE  IsRecord(p, Taken(now, j, F))
<1>1. \A f \in FieldsOf(p) : Taken(now, j, F)[f] \in {now[f], j.copy[f]}
                             /\ (f \notin DOMAIN j.copy => Taken(now, j, F)[f] = now[f])
  BY DEF Taken, IsRecord
<1>2. DOMAIN <<>> = {}
  OBVIOUS
<1>3. \A f \in FieldsOf(p) : Taken(now, j, F)[f] \in Kept(f)
  BY <1>1, <1>2 DEF IsRecord
<1>4. Taken(now, j, F) = [f \in FieldsOf(p) |-> Taken(now, j, F)[f]]
  BY DEF Taken, IsRecord
<1> QED
  BY <1>3, <1>4, Small DEF IsRecord

LEMMA TakenDraft ==
  ASSUME NEW p, NEW now, IsDraft(p, now), NEW j, NEW F, F \cap PostField = {},
         j.copy = <<>> \/ IsRecord(p, j.copy)
  PROVE  IsDraft(p, Taken(now, j, F))
<1>1. \A f \in FieldsOf(p) :
         IF f \in F \cap DOMAIN j.copy THEN Taken(now, j, F)[f] = j.copy[f]
         ELSE Taken(now, j, F)[f] = now[f]
  BY DEF Taken, IsDraft
<1>2. DOMAIN <<>> = {}
  OBVIOUS
<1>3. \A f \in FieldsOf(p) : Taken(now, j, F)[f] \in Typed(f)
  BY <1>1, <1>2, Small DEF IsRecord, IsDraft, Inputs
<1>4. Taken(now, j, F) = [f \in FieldsOf(p) |-> Taken(now, j, F)[f]]
  BY DEF Taken, IsDraft
<1> QED
  BY <1>3, <1>4, Small DEF IsDraft, Inputs

LEMMA WithDraft ==
  ASSUME NEW p, NEW d, IsDraft(p, d), NEW g, Inputs(p, g)
  PROVE  IsDraft(p, With(d, g))
<1>1. \A f \in FieldsOf(p) : With(d, g)[f] = IF f \in DOMAIN g THEN g[f] ELSE d[f]
  BY DEF With, IsDraft
<1>2. \A f \in FieldsOf(p) : With(d, g)[f] \in Typed(f)
  BY <1>1 DEF IsDraft, Inputs
<1>3. With(d, g) = [f \in FieldsOf(p) |-> With(d, g)[f]]
  BY DEF With, IsDraft, Inputs
<1> QED
  BY <1>2, <1>3, Small DEF IsDraft, Inputs

(* What a page that is opened shows.                                        *)
LEMMA LoadedTyped ==
  ASSUME NEW p, NEW r, IsRecord(p, r)
  PROVE  /\ IsDraft(p, Loaded(r).draft) /\ IsRecord(p, Loaded(r).saved)
         /\ DOMAIN Loaded(r) = TabField /\ Loaded(r).touched = {}
         /\ Loaded(r).behind = FALSE /\ Loaded(r).open = TRUE /\ Loaded(r).notice = ""
         /\ Loaded(r).saved = r
         /\ \A f \in FieldsOf(p) \ PostField : Loaded(r).draft[f] = r[f]
<1>1. PICK d : d = [f \in FieldsOf(p) |-> IF f \in PostField THEN 0 ELSE r[f]]
  OBVIOUS
<1>2. Loaded(r).draft = d
  BY <1>1 DEF Loaded, IsRecord
<1>3. \A f \in FieldsOf(p) : d[f] \in Typed(f)
  BY <1>1, Small DEF IsRecord
<1>4. IsDraft(p, d)
  BY <1>1, <1>3, Small DEF IsDraft, Inputs
<1> QED
  BY <1>1, <1>2, <1>4 DEF Loaded, TabField

(* What the table of fields says of the fields that have a rule of their    *)
(* own.                                                                     *)
LEMMA OpenedFields ==
  ASSUME NEW p \in Page
  PROVE  /\ "tested" \in FieldsOf(p) => "config" \in FieldsOf(p)
         /\ FieldsOf(p) # {}
         /\ Copied(p) \subseteq FieldsOf(p) /\ ShownOf(p) \subseteq FieldsOf(p)
         /\ ShownOf(p) \cap (Counter \cup {"tested"}) = {}
         /\ p = "monitors" => ShownOf(p) = {}
  BY PageFields DEF Page, Counter, PostField

(* A request the API serves leaves a record, changes the fields it names    *)
(* only, and leaves the values it sent in those that are shown.             *)
LEMMA ApplyTyped ==
  ASSUME NEW r, IsRecord(page, r), page \in Page,
         NEW x, DOMAIN x \subseteq FieldsOf(page),
         \A f \in DOMAIN x \ Counter : x[f] \in Kept(f), ~Missing(r, x),
         \A f \in DOMAIN x \cap Counter : r[f] + 1 <= MaxPresses
  PROVE  /\ IsRecord(page, Apply(r, x))
         /\ \A f \in FieldsOf(page) \ DOMAIN x : Apply(r, x)[f] = r[f]
         /\ \A f \in DOMAIN x \cap Counter : Apply(r, x)[f] = r[f] + 1
         /\ \A f \in DOMAIN x \cap ShownOf(page) : Apply(r, x)[f] = x[f]
<1>1. DOMAIN r = FieldsOf(page) /\ \A f \in FieldsOf(page) : r[f] \in Kept(f)
  BY DEF IsRecord
<1>2. PICK a : a = Apply(r, x)
  OBVIOUS
<1>3. DOMAIN a = FieldsOf(page) /\ a = [f \in FieldsOf(page) |-> a[f]]
  BY <1>1, <1>2 DEF Apply
<1>4. \A f \in FieldsOf(page) \ DOMAIN x : a[f] = r[f]
  BY <1>1, <1>2 DEF Apply
<1>5. ASSUME NEW f \in DOMAIN x
      PROVE  /\ a[f] \in Kept(f)
             /\ f \in Counter => a[f] = r[f] + 1
             /\ f \in ShownOf(page) => a[f] = x[f]
  <2>1. a[f] =
          CASE f \in PostField \cup {"made"} -> r[f] + 1
          [] f = "tested"                  -> r["config"]
          [] page = "monitors" /\ f \in Rows ->
               IF x[f] = Gone THEN Gone ELSE 1 - r[f]
          [] OTHER                         -> x[f]
    BY <1>1, <1>2, <1>5, Zenon DEF Apply
  <2>2. f \in FieldsOf(page) /\ r[f] \in Kept(f)
    BY <1>1, <1>5
  <2>3. CASE f \in Counter
    <3>1. a[f] = r[f] + 1
      <4>1. f # "tested" /\ f \notin Rows
        BY <2>3 DEF Counter, PostField, Rows
      <4> QED
        BY <2>1, <2>3, <4>1, Zenon DEF Counter
    <3>2. r[f] \in 0 .. MaxPresses /\ r[f] + 1 <= MaxPresses /\ Kept(f) = 0 .. MaxPresses
      BY <1>5, <2>2, <2>3, Small
    <3>3. f \notin ShownOf(page)
      BY <2>3, OpenedFields
    <3> QED
      BY <3>1, <3>2, <3>3
  <2>4. CASE f = "tested"
    <3>1. a[f] = r["config"] /\ f \notin Counter
      <4>1. f \notin PostField \cup {"made"} /\ f \notin Rows
        BY <2>4 DEF PostField, Rows
      <4> QED
        BY <2>1, <2>4, <4>1, Zenon DEF Counter
    <3>2. r["config"] \in 0 .. 1 /\ Kept(f) = 0 .. 1
      BY <1>1, <2>2, <2>4, OpenedFields, FieldRanges
    <3> QED
      BY <2>4, <3>1, <3>2, OpenedFields
  <2>5. CASE page = "monitors" /\ f \in Rows
    <3>1. a[f] = IF x[f] = Gone THEN Gone ELSE 1 - r[f]
      BY <2>1, <2>5 DEF Rows, PostField
    <3>2. r[f] # Gone /\ Kept(f) = 0 .. 2 /\ f \notin Counter
      BY <1>5, <2>5, FieldRanges DEF Missing, Rows, Counter, PostField
    <3>3. r[f] \in 0 .. 1
      BY <2>2, <3>2 DEF Gone
    <3> QED
      BY <2>5, <3>1, <3>2, <3>3, OpenedFields DEF Gone
  <2>6. CASE f \notin Counter /\ f # "tested" /\ ~(page = "monitors" /\ f \in Rows)
    <3>1. a[f] = x[f]
      BY <2>1, <2>6, Zenon DEF Counter
    <3> QED
      BY <1>5, <2>6, <3>1
  <2> QED
    BY <2>3, <2>4, <2>5, <2>6
<1>6. \A f \in FieldsOf(page) : a[f] \in Kept(f)
  BY <1>1, <1>4, <1>5
<1>7. IsRecord(page, a)
  BY <1>3, <1>6, Small DEF IsRecord
<1> QED
  BY <1>2, <1>4, <1>5, <1>7

(* Where the m-th of a list was before the k-th of it was taken out.        *)
Shift(k, m) == IF m < k THEN m ELSE m + 1

(* A list without its k-th has the others, and none but them.               *)
LEMMA Removed ==
  ASSUME NEW B, NEW s \in Seq(B), NEW k \in DOMAIN s
  PROVE  /\ RemoveAt(s, k) \in Seq(B)
         /\ \A m \in DOMAIN RemoveAt(s, k) :
              Shift(k, m) \in DOMAIN s \ {k} /\ RemoveAt(s, k)[m] = s[Shift(k, m)]
         /\ \A i \in DOMAIN s \ {k} : \E m \in DOMAIN RemoveAt(s, k) :
              RemoveAt(s, k)[m] = s[i]
<1>1. PICK u : u = SubSeq(s, 1, k - 1)
  OBVIOUS
<1>2. PICK v : v = SubSeq(s, k + 1, Len(s))
  OBVIOUS
<1>3. k \in 1 .. Len(s) /\ DOMAIN s = 1 .. Len(s) /\ Len(s) \in Nat
  OBVIOUS
<1>4. u \in Seq(B) /\ Len(u) = k - 1 /\ \A i \in 1 .. k - 1 : u[i] = s[i]
  BY <1>1, <1>3
<1>5. v \in Seq(B) /\ Len(v) = Len(s) - k /\ \A i \in 1 .. Len(s) - k : v[i] = s[k + i]
  BY <1>2, <1>3
<1>6. PICK c : c = u \o v
  OBVIOUS
<1>7. /\ c \in Seq(B) /\ Len(c) = Len(u) + Len(v)
      /\ \A i \in 1 .. Len(u) + Len(v) :
           c[i] = IF i <= Len(u) THEN u[i] ELSE v[i - Len(u)]
  <2>1. u \in Seq(B) /\ v \in Seq(B)
    BY <1>4, <1>5
  <2> QED
    BY <2>1, <1>6, Concat
<1>8. DOMAIN c = 1 .. Len(s) - 1
  BY <1>3, <1>4, <1>5, <1>7
<1>9. ASSUME NEW m \in DOMAIN c
      PROVE  Shift(k, m) \in DOMAIN s \ {k} /\ c[m] = s[Shift(k, m)]
  <2>1. CASE m < k
    <3>1. c[m] = u[m]
      BY <1>3, <1>4, <1>5, <1>7, <1>8, <1>9, <2>1
    <3> QED
      BY <1>3, <1>4, <1>8, <1>9, <2>1, <3>1 DEF Shift
  <2>2. CASE ~(m < k)
    <3>1. c[m] = v[m - (k - 1)]
      BY <1>3, <1>4, <1>5, <1>7, <1>8, <1>9, <2>2
    <3>2. m - (k - 1) \in 1 .. Len(s) - k /\ k + (m - (k - 1)) = m + 1
      BY <1>3, <1>8, <1>9, <2>2
    <3>3. v[m - (k - 1)] = s[m + 1]
      BY <1>5, <3>2
    <3> QED
      BY <1>3, <1>8, <1>9, <2>2, <3>1, <3>3 DEF Shift
  <2> QED
    BY <2>1, <2>2
<1>10. ASSUME NEW i \in DOMAIN s \ {k} PROVE \E m \in DOMAIN c : c[m] = s[i]
  <2>1. PICK m : m = IF i < k THEN i ELSE i - 1
    OBVIOUS
  <2>2. m \in DOMAIN c /\ Shift(k, m) = i
    BY <1>3, <1>8, <1>10, <2>1 DEF Shift
  <2> QED
    BY <1>9, <2>2
<1>11. RemoveAt(s, k) = c
  BY <1>1, <1>2, <1>6 DEF RemoveAt
<1> QED
  BY <1>7, <1>9, <1>10, <1>11

(* Requests that write values the record can hold, and no two of which post *)
(* the same field.                                                          *)
BodiesTyped(p, q) ==
  /\ \E B : q \in Seq(B)
  /\ \A k \in DOMAIN q : /\ DOMAIN q[k] \subseteq FieldsOf(p)
                         /\ \A f \in DOMAIN q[k] \ Counter : q[k][f] \in Kept(f)
  /\ \A k, m \in DOMAIN q : k # m => DOMAIN q[k] \cap DOMAIN q[m] \cap Counter = {}

(* What a job may hold when that many buttons were pressed. Of a job that   *)
(* no page looks at any more, only the requests it still sends matter.      *)
JobTyped(p, left, j) ==
  /\ j.n \in 1 .. left
  /\ j.state \in {"out", "ok", "failed"}
  /\ BodiesTyped(p, j.todo)
  /\ j.watched => /\ j.copy = <<>> \/ IsRecord(p, j.copy)
                  /\ Inputs(p, j.prev) /\ Inputs(p, j.handler.after)
                  /\ j.handler.adopts \cap PostField = {}

(* None, or fewer, of such requests.                                        *)
LEMMA NothingTyped == ASSUME NEW p PROVE BodiesTyped(p, <<>>) /\ DOMAIN <<>> = {}
<1>1. <<>> \in Seq({}) /\ DOMAIN <<>> = {}
  OBVIOUS
<1> QED
  BY <1>1 DEF BodiesTyped

LEMMA FewerTyped ==
  ASSUME NEW p, NEW q, BodiesTyped(p, q), NEW k \in DOMAIN q
  PROVE  /\ BodiesTyped(p, RemoveAt(q, k))
         /\ \A m \in DOMAIN RemoveAt(q, k) :
              \E i \in DOMAIN q \ {k} : RemoveAt(q, k)[m] = q[i]
<1>1. PICK B : q \in Seq(B)
  BY DEF BodiesTyped
<1>2. PICK rest : rest = RemoveAt(q, k)
  OBVIOUS
<1>3. /\ rest \in Seq(B)
      /\ \A m \in DOMAIN rest : Shift(k, m) \in DOMAIN q \ {k} /\ rest[m] = q[Shift(k, m)]
  BY <1>1, <1>2, Removed
<1>4. DOMAIN rest \subseteq Int /\ k \in Int
  BY <1>1, <1>3
<1>5. \A m, l \in DOMAIN rest : m # l => Shift(k, m) # Shift(k, l)
  BY <1>4 DEF Shift
<1>6. BodiesTyped(p, rest)
  BY <1>3, <1>5 DEF BodiesTyped
<1> QED
  BY <1>2, <1>3, <1>6

(* A request that ends leaves its job with the others it had to send.       *)
LEMMA RequestEnds ==
  ASSUME NEW p, NEW left, NEW j, DOMAIN j = JobField, JobTyped(p, left, j),
         NEW k \in DOMAIN j.todo, NEW r, IsRecord(p, r),
         NEW i \in {Answer(j, k, r), Failure(j, k)}
  PROVE  /\ JobTyped(p, left, i) /\ i.n = j.n
         /\ \A m \in DOMAIN i.todo : \E l \in DOMAIN j.todo \ {k} : i.todo[m] = j.todo[l]
<1>1. PICK rest : rest = RemoveAt(j.todo, k)
  OBVIOUS
<1>2. /\ BodiesTyped(p, rest)
      /\ \A m \in DOMAIN rest : \E l \in DOMAIN j.todo \ {k} : rest[m] = j.todo[l]
  BY <1>1, FewerTyped DEF JobTyped
<1>3. /\ i.n = j.n /\ i.handler = j.handler /\ i.prev = j.prev
      /\ i.watched = j.watched /\ i.todo \in {rest, <<>>}
      /\ i.state \in {j.state, "ok", "failed"} /\ i.copy \in {j.copy, r, <<>>}
  BY <1>1 DEF Answer, Failure, JobField
<1>4. BodiesTyped(p, i.todo)
  BY <1>2, <1>3, NothingTyped
<1>5. \A m \in DOMAIN i.todo : \E l \in DOMAIN j.todo \ {k} : i.todo[m] = j.todo[l]
  BY <1>2, <1>3, NothingTyped
<1>6. JobTyped(p, left, i)
  BY <1>3, <1>4 DEF JobTyped
<1> QED
  BY <1>3, <1>5, <1>6

(* And so does a page that is left.                                         *)
LEMMA UnwatchedTyped ==
  ASSUME NEW p, NEW left, NEW j, DOMAIN j = JobField, JobTyped(p, left, j)
  PROVE  /\ JobTyped(p, left, Unwatch(j)) /\ Unwatch(j).n = j.n
         /\ Unwatch(j).todo = j.todo /\ DOMAIN Unwatch(j) = JobField
<1>1. /\ Unwatch(j).n = j.n /\ Unwatch(j).todo = j.todo
      /\ Unwatch(j).state = j.state /\ Unwatch(j).watched = FALSE
      /\ DOMAIN Unwatch(j) = JobField
  BY DEF Unwatch, JobField
<1> QED
  BY <1>1 DEF JobTyped

(* What a button starts can be held by a job.                               *)
LEMMA HandlerTyped ==
  ASSUME NEW p, NEW d, IsDraft(p, d), NEW h, Good(p, h, d)
  PROVE  /\ BodiesTyped(p, h.bodies) /\ h.adopts \cap PostField = {}
         /\ Inputs(p, h.before) /\ Inputs(p, h.after)
<1>1. \E B : h.bodies \in Seq(B)
  BY DEF Good, Bodies
<1>2. \A k \in DOMAIN h.bodies : Valid(p, d, h.bodies[k])
  BY DEF Good, Bodies, Fits
<1>3. \A k, m \in DOMAIN h.bodies : k # m => Agree(p, h.bodies[k], h.bodies[m])
  BY DEF Good, Bodies
<1>4. \A k \in DOMAIN h.bodies :
        /\ DOMAIN h.bodies[k] \subseteq FieldsOf(p)
        /\ \A f \in DOMAIN h.bodies[k] \ Counter : h.bodies[k][f] \in Kept(f)
  BY <1>2 DEF Valid
<1>5. \A k, m \in DOMAIN h.bodies :
        k # m => DOMAIN h.bodies[k] \cap DOMAIN h.bodies[m] \cap Counter = {}
  BY <1>3 DEF Agree
<1>6. BodiesTyped(p, h.bodies)
  BY <1>1, <1>4, <1>5 DEF BodiesTyped
<1> QED
  BY <1>6 DEF Good, Sets

(* The presses that still owe field f a post.                               *)
Owing(J, f) ==
  {n \in 1 .. MaxPresses :
     \E j \in J : j.n = n /\ \E k \in DOMAIN j.todo : f \in DOMAIN j.todo[k]}

Pressed == MaxPresses - budget.presses

(* How many they are, and how that changes.                                 *)
LEMMA Owed ==
  ASSUME NEW J, NEW f
  PROVE  IsFiniteSet(Owing(J, f)) /\ Cardinality(Owing(J, f)) \in Nat
<1>1. IsFiniteSet(1 .. MaxPresses)
  BY FormAssumption, FS_Interval
<1>2. Owing(J, f) \subseteq 1 .. MaxPresses
  BY DEF Owing
<1>3. IsFiniteSet(Owing(J, f))
  BY <1>1, <1>2, FS_Subset
<1> QED
  BY <1>3, FS_CardinalityType

LEMMA OwedFewer ==
  ASSUME NEW J, NEW I, NEW f, Owing(I, f) \subseteq Owing(J, f)
  PROVE  Cardinality(Owing(I, f)) <= Cardinality(Owing(J, f))
  BY Owed, FS_Subset

LEMMA OwedOneLess ==
  ASSUME NEW J, NEW I, NEW f, NEW n, n \in Owing(J, f),
         Owing(I, f) \subseteq Owing(J, f) \ {n}
  PROVE  Cardinality(Owing(I, f)) + 1 <= Cardinality(Owing(J, f))
<1>1. /\ IsFiniteSet(Owing(J, f) \ {n})
      /\ Cardinality(Owing(J, f) \ {n}) = Cardinality(Owing(J, f)) - 1
  BY Owed, FS_RemoveElement
<1>2. Cardinality(Owing(I, f)) <= Cardinality(Owing(J, f) \ {n})
  BY <1>1, FS_Subset
<1> QED
  BY <1>1, <1>2, Owed

LEMMA OwedOneMore ==
  ASSUME NEW J, NEW I, NEW f, NEW n, Owing(I, f) \subseteq Owing(J, f) \cup {n}
  PROVE  Cardinality(Owing(I, f)) <= Cardinality(Owing(J, f)) + 1
<1>1. /\ IsFiniteSet(Owing(J, f) \cup {n})
      /\ Cardinality(Owing(J, f) \cup {n}) <= Cardinality(Owing(J, f)) + 1
  BY Owed, FS_AddElement
<1>2. Cardinality(Owing(I, f)) <= Cardinality(Owing(J, f) \cup {n})
  BY <1>1, FS_Subset
<1> QED
  BY <1>1, <1>2, Owed, FS_CardinalityType

(* The types of a page and of the jobs, each of a press of its own.         *)
TabTyped(p, now) ==
  /\ IsDraft(p, now.draft) /\ IsRecord(p, now.saved)
  /\ now.touched \subseteq FieldsOf(p)
  /\ now.open \in BOOLEAN /\ now.behind \in BOOLEAN

JobsTyped ==
  /\ \A j \in jobs : JobTyped(page, Pressed, j) /\ (j.watched \/ j.todo # <<>>)
  /\ \A i, j \in jobs : i.n = j.n => i = j

(* A list never has more entries than buttons were pressed, not even when   *)
(* every post still to be sent arrives: without this, types do not outlast  *)
(* a step, since a post adds one to whatever is there.                      *)
Counted == \A f \in Counter \cap FieldsOf(page) :
             stored[f] + Cardinality(Owing(jobs, f)) <= Pressed

(* The inductive invariant of TypeOK.                                       *)
TypedInv ==
  /\ page \in Opened
  /\ budget \in [presses : 0 .. MaxPresses, edits : 0 .. MaxEdits, opens : 0 .. MaxOpens]
  /\ IsRecord(page, stored)
  /\ \A t \in Tab : TabTyped(page, form[t])
  /\ JobsTyped
  /\ Counted

LEMMA TypedInit == Init => TypedInv
<1> SUFFICES ASSUME Init PROVE TypedInv
  OBVIOUS
<1>1. /\ page \in Page /\ page \in Opened
      /\ MaxPresses \in Nat /\ MaxEdits \in Nat /\ MaxOpens \in Nat
  BY FormAssumption DEF Init
<1>2. budget \in [presses : 0 .. MaxPresses, edits : 0 .. MaxEdits, opens : 0 .. MaxOpens]
  BY <1>1 DEF Init
<1>3. \A f : 0 \in Kept(f)
  BY <1>1 DEF Kept
<1>4. IsRecord(page, stored)
  BY <1>1, <1>3 DEF Init, IsRecord
<1>5. \A t \in Tab : TabTyped(page, form[t])
  BY <1>4, LoadedTyped DEF Init, TabTyped
<1>6. JobsTyped
  BY DEF Init, JobsTyped
<1>7. Pressed = 0
  BY <1>1 DEF Init, Pressed
<1>8. \A f : Owing(jobs, f) = {}
  BY DEF Init, Owing
<1>9. Counted
  BY <1>7, <1>8, FS_EmptySet DEF Counted, Init
<1> QED
  BY <1>1, <1>2, <1>4, <1>5, <1>6, <1>9 DEF TypedInv

(* Jobs that none but a Serve or a Press touches: fewer requests, the same  *)
(* numbers.                                                                 *)
LEMMA CountKept ==
  ASSUME TypedInv, page' = page, stored' = stored, Pressed' = Pressed,
         \A i \in jobs' : \E j \in jobs : i.n = j.n /\
            \A m \in DOMAIN i.todo : \E l \in DOMAIN j.todo : i.todo[m] = j.todo[l]
  PROVE  Counted'
<1>1. \A f : Owing(jobs', f) \subseteq Owing(jobs, f)
  BY DEF Owing
<1>2. ASSUME NEW f \in Counter \cap FieldsOf(page)
      PROVE  stored[f] + Cardinality(Owing(jobs', f)) <= Pressed
  <2>1. Cardinality(Owing(jobs', f)) <= Cardinality(Owing(jobs, f))
    BY <1>1, OwedFewer
  <2>2. stored[f] + Cardinality(Owing(jobs, f)) <= Pressed
    BY <1>2 DEF TypedInv, Counted
  <2>3. stored[f] \in Int /\ Pressed \in Int
    BY <1>2, Small, FormAssumption DEF TypedInv, IsRecord, Pressed
  <2> QED
    BY <2>1, <2>2, <2>3, Owed
<1> QED
  BY <1>2 DEF Counted, Pressed

-----------------------------------------------------------------------------
(* One lemma for each action.                                              *)
LEMMA TypedEdit ==
  ASSUME Shaped, TypedInv, NEW t \in Tab, Edit(t) PROVE TypedInv'
<1>0. page \in Page /\ page \in Opened /\ MaxEdits \in Nat
  BY FormAssumption DEF TypedInv
<1>1. PICK f \in View(page, form[t].draft, form[t].saved).inputs :
        form' = [form EXCEPT ![t].draft[f] = 1 - @, ![t].touched = @ \cup {f}]
  BY DEF Edit
<1>2. PICK d : d = form[t].draft
  OBVIOUS
<1>3. f \in FieldsOf(page) /\ Typed(f) = 0 .. 1 /\ IsDraft(page, d)
  BY <1>0, <1>1, <1>2, InputRange DEF TypedInv, TabTyped
<1>4. /\ DOMAIN form' = Tab /\ \A u \in Tab \ {t} : form'[u] = form[u]
      /\ form'[t].draft = [d EXCEPT ![f] = 1 - @]
      /\ form'[t].touched = form[t].touched \cup {f}
      /\ form'[t].saved = form[t].saved
      /\ form'[t].open = form[t].open /\ form'[t].behind = form[t].behind
  BY <1>1, <1>2 DEF Shaped, TabField
<1>5. IsDraft(page, [d EXCEPT ![f] = 1 - @])
  <2>1. PICK e : e = [d EXCEPT ![f] = 1 - @]
    OBVIOUS
  <2>2. /\ d[f] \in 0 .. 1 /\ DOMAIN d = FieldsOf(page)
        /\ \A g \in FieldsOf(page) : d[g] \in Typed(g)
    BY <1>3 DEF IsDraft, Inputs
  <2>3. e[f] \in Typed(f) /\ \A g \in FieldsOf(page) \ {f} : e[g] = d[g]
    BY <1>3, <2>1, <2>2
  <2>4. \A g \in FieldsOf(page) : e[g] \in Typed(g)
    BY <2>2, <2>3
  <2>5. e = [g \in FieldsOf(page) |-> e[g]]
    BY <2>1, <2>2
  <2> QED
    BY <2>1, <2>4, <2>5, Small DEF IsDraft, Inputs
<1>6. page' = page /\ stored' = stored /\ jobs' = jobs
  BY DEF Edit
<1>7. \A u \in Tab : TabTyped(page, form[u])'
  BY <1>3, <1>4, <1>5, <1>6 DEF TypedInv, TabTyped
<1>8. budget' = [budget EXCEPT !.edits = @ - 1] /\ budget.edits > 0
  BY DEF Edit, Spend
<1>9. /\ budget' \in [presses : 0 .. MaxPresses, edits : 0 .. MaxEdits,
                    opens : 0 .. MaxOpens]
      /\ budget'.presses = budget.presses
  BY <1>0, <1>8 DEF TypedInv
<1>10. JobsTyped' /\ Counted'
  BY <1>6, <1>9 DEF TypedInv, JobsTyped, Counted, Pressed
<1> QED
  BY <1>0, <1>6, <1>7, <1>9, <1>10 DEF TypedInv

LEMMA TypedLeave ==
  ASSUME Shaped, TypedInv, NEW t \in Tab, Leave(t) PROVE TypedInv'
<1>0. page \in Page /\ page \in Opened /\ MaxOpens \in Nat
  BY FormAssumption DEF TypedInv
<1>1. /\ page' = page /\ stored' = stored /\ jobs' = LeftBy(t, jobs)
      /\ form' = [form EXCEPT ![t] = [Loaded(stored) EXCEPT !.open = FALSE]]
      /\ budget' = [budget EXCEPT !.opens = @ - 1] /\ budget.opens > 0
  BY DEF Leave, Spend
<1>2. /\ budget' \in [presses : 0 .. MaxPresses, edits : 0 .. MaxEdits,
                    opens : 0 .. MaxOpens]
      /\ budget'.presses = budget.presses
  BY <1>0, <1>1 DEF TypedInv
<1>3. PICK l : l = Loaded(stored)
  OBVIOUS
<1>4. /\ IsDraft(page, l.draft) /\ IsRecord(page, l.saved) /\ DOMAIN l = TabField
      /\ l.touched = {} /\ l.behind = FALSE
  <2>1. IsRecord(page, stored)
    BY DEF TypedInv
  <2> QED
    BY <1>3, <2>1, LoadedTyped
<1>5. PICK n : n = [l EXCEPT !.open = FALSE]
  OBVIOUS
<1>6. TabTyped(page, n)
  BY <1>4, <1>5 DEF TabTyped, TabField
<1>7. form'[t] = n /\ \A u \in Tab \ {t} : form'[u] = form[u]
  BY <1>1, <1>3, <1>5 DEF Shaped
<1>8. \A u \in Tab : TabTyped(page, form[u])'
  BY <1>1, <1>6, <1>7 DEF TypedInv
<1>9. \A j \in jobs : DOMAIN j = JobField /\ JobTyped(page, Pressed, j)
  BY DEF TypedInv, JobsTyped, Shaped
<1>10. \A i \in jobs' : \E j \in jobs : i = IF j.tab = t THEN Unwatch(j) ELSE j
  BY <1>1 DEF LeftBy, Lasting
<1>11. \A i \in jobs' : i.watched \/ i.todo # <<>>
  BY <1>1 DEF LeftBy, Lasting
<1>12. \A i \in jobs' : JobTyped(page, Pressed, i)
  BY <1>9, <1>10, UnwatchedTyped
<1>13. \A j \in jobs : Unwatch(j).n = j.n /\ Unwatch(j).todo = j.todo
  BY <1>9, UnwatchedTyped
<1>14. \A i, j \in jobs' : i.n = j.n => i = j
  BY <1>10, <1>13 DEF TypedInv, JobsTyped
<1>15. \A i \in jobs' : \E j \in jobs : i.n = j.n /\ i.todo = j.todo
  BY <1>10, <1>13
<1>16. Pressed' = Pressed
  BY <1>2 DEF Pressed
<1>17. JobsTyped'
  BY <1>1, <1>11, <1>12, <1>14, <1>16 DEF JobsTyped
<1>18. Counted'
  BY <1>1, <1>15, <1>16, CountKept
<1> QED
  BY <1>0, <1>1, <1>2, <1>8, <1>17, <1>18 DEF TypedInv

(* A request that ends leaves the jobs typed, the presses that owe a post   *)
(* no more than they were, and its own press owes what it posted no longer. *)
LEMMA TypedBecomes ==
  ASSUME Shaped, TypedInv, NEW j \in jobs, NEW k \in Ready(j), NEW r, IsRecord(page, r),
         NEW i \in {Answer(j, k, r), Failure(j, k)}, Becomes(j, i),
         page' = page, budget' = budget
  PROVE  /\ JobsTyped'
         /\ \A x \in jobs' : \E y \in jobs : x.n = y.n /\
              \A m \in DOMAIN x.todo : \E l \in DOMAIN y.todo : x.todo[m] = y.todo[l]
         /\ \A f \in Counter \cap DOMAIN j.todo[k] :
              j.n \in Owing(jobs, f) /\ Owing(jobs', f) \subseteq Owing(jobs, f) \ {j.n}
<1>1. k \in DOMAIN j.todo /\ DOMAIN j = JobField
  BY DEF Ready, Shaped
<1>2. JobTyped(page, Pressed, j)
  BY DEF TypedInv, JobsTyped
<1>3. /\ JobTyped(page, Pressed, i) /\ i.n = j.n
      /\ \A m \in DOMAIN i.todo : \E l \in DOMAIN j.todo \ {k} : i.todo[m] = j.todo[l]
  BY <1>1, <1>2, RequestEnds
<1>4. \A x \in jobs' : (x \in jobs /\ x # j) \/ x = i
  BY DEF Becomes, Lasting
<1>5. \A x \in jobs' : x.watched \/ x.todo # <<>>
  BY DEF Becomes, Lasting
<1>6. \A x, y \in jobs : x.n = y.n => x = y
  BY DEF TypedInv, JobsTyped
<1>7. \A x \in jobs' : JobTyped(page, Pressed, x)
  BY <1>3, <1>4 DEF TypedInv, JobsTyped
<1>8. \A x, y \in jobs' : x.n = y.n => x = y
  BY <1>3, <1>4, <1>6
<1>9. JobsTyped'
  BY <1>5, <1>7, <1>8 DEF JobsTyped, Pressed
<1>10. \A x \in jobs' : \E y \in jobs : x.n = y.n /\
              \A m \in DOMAIN x.todo : \E l \in DOMAIN y.todo : x.todo[m] = y.todo[l]
  BY <1>3, <1>4
<1>11. ASSUME NEW f \in Counter \cap DOMAIN j.todo[k]
       PROVE  j.n \in Owing(jobs, f) /\ Owing(jobs', f) \subseteq Owing(jobs, f) \ {j.n}
  <2>1. j.n \in 1 .. MaxPresses
    BY <1>2, FormAssumption DEF JobTyped, Pressed, TypedInv
  <2>2. \A m \in DOMAIN i.todo : f \notin DOMAIN i.todo[m]
    <3>1. \A l \in DOMAIN j.todo \ {k} : f \notin DOMAIN j.todo[l]
      BY <1>1, <1>2, <1>11 DEF JobTyped, BodiesTyped
    <3> QED
      BY <1>3, <3>1
  <2>3. j.n \in Owing(jobs, f)
    BY <1>1, <1>11, <2>1 DEF Owing
  <2>4. Owing(jobs', f) \subseteq Owing(jobs, f)
    BY <1>10 DEF Owing
  <2>5. j.n \notin Owing(jobs', f)
    BY <1>3, <1>4, <1>6, <2>2 DEF Owing
  <2> QED
    BY <2>3, <2>4, <2>5
<1> QED
  BY <1>9, <1>10, <1>11

(* What the API does to a page: only its word on whether it is behind.      *)
LEMMA TypedUnheard ==
  ASSUME Shaped, TypedInv, NEW j, NEW lost, form' = Unheard(j, lost), page' = page
  PROVE  \A t \in Tab :
           /\ TabTyped(page, form[t])'
           /\ form'[t].open = form[t].open /\ form'[t].notice = form[t].notice
           /\ form'[t].draft = form[t].draft /\ form'[t].saved = form[t].saved
           /\ form'[t].touched = form[t].touched
           /\ form'[t].behind <=> (form[t].behind
                 \/ (stored' # stored /\ (t # j.tab \/ ~j.watched \/ lost)))
<1> TAKE t \in Tab
<1>1. PICK v : v \in BOOLEAN /\ v = (form[t].behind
                              \/ (stored' # stored /\ (t # j.tab \/ ~j.watched \/ lost)))
  OBVIOUS
<1>2. form'[t] = [form[t] EXCEPT !.behind = v]
  BY <1>1 DEF Unheard
<1>3. /\ form'[t].open = form[t].open /\ form'[t].notice = form[t].notice
      /\ form'[t].draft = form[t].draft /\ form'[t].saved = form[t].saved
      /\ form'[t].touched = form[t].touched /\ form'[t].behind = v
  BY <1>2 DEF Shaped, TabField
<1>4. TabTyped(page, form[t])
  BY DEF TypedInv
<1> QED
  BY <1>1, <1>3, <1>4 DEF TabTyped

(* A request served: besides the types, what it does to the record.         *)
LEMMA TypedServe ==
  ASSUME Shaped, TypedInv, NEW j \in jobs, NEW k \in Ready(j), Serve(j, k)
  PROVE  /\ TypedInv'
         /\ \A f \in FieldsOf(page) \ DOMAIN j.todo[k] : stored'[f] = stored[f]
         /\ \A f \in DOMAIN j.todo[k] \cap ShownOf(page) : stored'[f] = j.todo[k][f]
<1>0. page \in Page /\ page \in Opened
  BY FormAssumption DEF TypedInv
<1>1. PICK x : x = j.todo[k]
  OBVIOUS
<1>2. /\ ~Missing(stored, x) /\ stored' = Apply(stored, x)
      /\ page' = page /\ budget' = budget
  BY <1>1 DEF Serve
<1>3. /\ k \in DOMAIN j.todo /\ DOMAIN j = JobField /\ JobTyped(page, Pressed, j)
  BY DEF Ready, Shaped, TypedInv, JobsTyped
<1>4. /\ DOMAIN x \subseteq FieldsOf(page)
      /\ \A f \in DOMAIN x \ Counter : x[f] \in Kept(f)
  BY <1>1, <1>3 DEF JobTyped, BodiesTyped
<1>5. Pressed \in Int /\ Pressed <= MaxPresses
  BY FormAssumption DEF TypedInv, Pressed
<1>6. j.n \in 1 .. MaxPresses
  BY <1>3, <1>5, FormAssumption DEF JobTyped
<1>7. \A f \in FieldsOf(page) \cap Counter :
        /\ stored[f] \in Nat /\ stored[f] + Cardinality(Owing(jobs, f)) <= Pressed
  BY Small DEF TypedInv, IsRecord, Counted
<1>8. ASSUME NEW f \in DOMAIN x \cap Counter PROVE stored[f] + 1 <= Pressed
  <2>1. j.n \in Owing(jobs, f)
    BY <1>1, <1>3, <1>6, <1>8 DEF Owing
  <2>2. Cardinality(Owing(jobs, f)) \in Nat /\ Cardinality(Owing(jobs, f)) # 0
    BY <2>1, Owed, FS_EmptySet
  <2> QED
    BY <1>4, <1>5, <1>7, <1>8, <2>2
<1>9. /\ IsRecord(page, stored')
      /\ \A f \in FieldsOf(page) \ DOMAIN x : stored'[f] = stored[f]
      /\ \A f \in DOMAIN x \cap Counter : stored'[f] = stored[f] + 1
      /\ \A f \in DOMAIN x \cap ShownOf(page) : stored'[f] = x[f]
  <2>1. /\ IsRecord(page, stored)
        /\ \A f \in DOMAIN x \cap Counter : stored[f] + 1 <= MaxPresses
    BY <1>4, <1>5, <1>7, <1>8, FormAssumption DEF TypedInv
  <2> QED
    BY <1>0, <1>2, <1>4, <2>1, ApplyTyped
<1>10. PICK i \in {Answer(j, k, stored'), Failure(j, k)} : Becomes(j, i)
  BY DEF Serve
<1>11. /\ JobsTyped'
       /\ \A y \in jobs' : \E z \in jobs : y.n = z.n /\
              \A m \in DOMAIN y.todo : \E l \in DOMAIN z.todo : y.todo[m] = z.todo[l]
       /\ \A f \in Counter \cap DOMAIN x :
              j.n \in Owing(jobs, f) /\ Owing(jobs', f) \subseteq Owing(jobs, f) \ {j.n}
  BY <1>1, <1>2, <1>9, <1>10, TypedBecomes
<1>12. PICK lost : form' = Unheard(j, lost)
  BY DEF Serve
<1>13. \A t \in Tab : TabTyped(page, form[t])'
  BY <1>2, <1>12, TypedUnheard
<1>14. ASSUME NEW f \in Counter \cap FieldsOf(page)
       PROVE  stored'[f] + Cardinality(Owing(jobs', f)) <= Pressed
  <2>1. CASE f \in DOMAIN x
    <3>1. Cardinality(Owing(jobs', f)) + 1 <= Cardinality(Owing(jobs, f))
      BY <1>11, <1>14, <2>1, OwedOneLess
    <3> QED
      BY <1>5, <1>7, <1>9, <1>14, <2>1, <3>1, Owed
  <2>2. CASE f \notin DOMAIN x
    <3>1. Owing(jobs', f) \subseteq Owing(jobs, f)
      BY <1>11 DEF Owing
    <3>2. Cardinality(Owing(jobs', f)) <= Cardinality(Owing(jobs, f))
      BY <3>1, OwedFewer
    <3> QED
      BY <1>5, <1>7, <1>9, <1>14, <2>2, <3>2, Owed
  <2> QED
    BY <2>1, <2>2
<1>15. Counted'
  BY <1>2, <1>14 DEF Counted, Pressed
<1> QED
  BY <1>0, <1>1, <1>2, <1>9, <1>11, <1>13, <1>15 DEF TypedInv

(* What a press leaves, field by field.                                     *)
Starts(t, h, new) ==
  /\ Good(page, h, form[t].draft)
  /\ jobs' = jobs \cup {new} /\ DOMAIN new = JobField
  /\ new.n = Pressed + 1 /\ new.tab = t /\ new.watched = TRUE
  /\ new.handler = h /\ new.todo = h.bodies /\ new.sent = h.bodies
  /\ new.prev = Only(form[t].draft, DOMAIN h.before)
  /\ new.state = "out" /\ new.copy = <<>>
  /\ \A u \in Tab \ {t} : form'[u] = form[u]
  /\ form'[t].open = form[t].open /\ form'[t].saved = form[t].saved
  /\ form'[t].draft = With(form[t].draft, h.before)
  /\ form'[t].touched = form[t].touched \cup DOMAIN h.before
  /\ form'[t].notice \in {form[t].notice, ""}
  /\ form'[t].behind = (form[t].behind \/ Underway(t) # {})

LEMMA PressFields ==
  ASSUME Shaped, page \in Page, NEW t \in Tab, Press(t)
  PROVE  \E h, new : Starts(t, h, new)
<1> DEFINE now  == form[t]
           view == View(page, now.draft, now.saved)
<1>1. PICK b \in DOMAIN view.presses :
        LET h == Handlers(page, now.draft, now.saved)[b] IN
        /\ now.busy \in view.presses[b]
        /\ form' = [form EXCEPT ![t] =
             [now EXCEPT !.busy   = h.busy,
                         !.notice = IF h.clears THEN "" ELSE @,
                         !.draft  = With(@, h.before),
                         !.touched = @ \cup DOMAIN h.before,
                         !.behind = @ \/ Underway(t) # {}]]
        /\ jobs' = jobs \cup
             {[n |-> MaxPresses - budget.presses + 1, tab |-> t, button |-> b,
               handler |-> h, todo |-> h.bodies, sent |-> h.bodies,
               prev |-> Only(now.draft, DOMAIN h.before),
               state |-> "out", copy |-> <<>>, watched |-> TRUE]}
  BY DEF Press
<1>2. PICK h : h = Handlers(page, now.draft, now.saved)[b]
  OBVIOUS
<1>3. Good(page, h, now.draft)
  BY <1>1, <1>2, AllHandlers
<1>4. PICK new : new = [n |-> MaxPresses - budget.presses + 1, tab |-> t, button |-> b,
               handler |-> h, todo |-> h.bodies, sent |-> h.bodies,
               prev |-> Only(now.draft, DOMAIN h.before),
               state |-> "out", copy |-> <<>>, watched |-> TRUE]
  OBVIOUS
<1>5. jobs' = jobs \cup {new}
  BY <1>1, <1>2, <1>4, Zenon
<1>6. /\ DOMAIN new = JobField
      /\ new.n = Pressed + 1 /\ new.tab = t /\ new.watched = TRUE
      /\ new.handler = h /\ new.todo = h.bodies /\ new.sent = h.bodies
      /\ new.prev = Only(now.draft, DOMAIN h.before)
      /\ new.state = "out" /\ new.copy = <<>>
  BY <1>4 DEF JobField, Pressed
<1>7. PICK v : v \in BOOLEAN /\ v = (now.behind \/ Underway(t) # {})
  OBVIOUS
<1>8. PICK n : n = [now EXCEPT !.busy   = h.busy,
                         !.notice = IF h.clears THEN "" ELSE @,
                         !.draft  = With(@, h.before),
                         !.touched = @ \cup DOMAIN h.before,
                         !.behind = v]
  OBVIOUS
<1>9. form' = [form EXCEPT ![t] = n]
  BY <1>1, <1>2, <1>7, <1>8, Zenon
<1>10. form'[t] = n /\ \A u \in Tab \ {t} : form'[u] = form[u]
  BY <1>9 DEF Shaped
<1>11. DOMAIN now = TabField
  BY DEF Shaped
<1>12. /\ n.open = now.open /\ n.saved = now.saved /\ n.behind = v
       /\ n.draft = With(now.draft, h.before)
       /\ n.touched = now.touched \cup DOMAIN h.before
       /\ n.notice \in {now.notice, ""}
  BY <1>8, <1>11 DEF TabField
<1>13. Starts(t, h, new)
  BY <1>3, <1>5, <1>6, <1>7, <1>10, <1>12 DEF Starts
<1> QED
  BY <1>13

LEMMA TypedPress ==
  ASSUME Shaped, TypedInv, NEW t \in Tab, Press(t) PROVE TypedInv'
<1>0. page \in Page /\ page \in Opened /\ MaxPresses \in Nat
  BY FormAssumption DEF TypedInv
<1>1. PICK h, new : Starts(t, h, new)
  BY <1>0, PressFields
<1>2. /\ page' = page /\ stored' = stored
      /\ budget' = [budget EXCEPT !.presses = @ - 1] /\ budget.presses > 0
  BY DEF Press, Spend
<1>3. budget' \in [presses : 0 .. MaxPresses, edits : 0 .. MaxEdits,
                 opens : 0 .. MaxOpens]
  BY <1>0, <1>2 DEF TypedInv
<1>4. Pressed \in Nat /\ Pressed + 1 <= MaxPresses /\ Pressed' = Pressed + 1
  BY <1>0, <1>2 DEF TypedInv, Pressed
<1>5. IsDraft(page, form[t].draft)
  BY DEF TypedInv, TabTyped
<1>6. /\ BodiesTyped(page, h.bodies) /\ h.adopts \cap PostField = {}
      /\ Inputs(page, h.before) /\ Inputs(page, h.after)
  BY <1>1, <1>5, HandlerTyped DEF Starts
<1>7. Inputs(page, Only(form[t].draft, DOMAIN h.before))
  BY <1>5, <1>6 DEF Only, Inputs, IsDraft
<1>8. JobTyped(page, Pressed + 1, new)
  <2>1. Pressed + 1 \in 1 .. Pressed + 1
    BY <1>4
  <2>2. /\ new.n = Pressed + 1 /\ new.state = "out" /\ new.copy = <<>>
        /\ new.handler = h /\ new.todo = h.bodies
        /\ new.prev = Only(form[t].draft, DOMAIN h.before)
    BY <1>1 DEF Starts
  <2> QED
    BY <1>6, <1>7, <2>1, <2>2, Zenon DEF JobTyped
<1>9. \A j \in jobs : JobTyped(page, Pressed, j) /\ (j.watched \/ j.todo # <<>>)
  BY DEF TypedInv, JobsTyped
<1>10. \A j \in jobs : JobTyped(page, Pressed + 1, j) /\ j.n # Pressed + 1
  BY <1>4, <1>9 DEF JobTyped
<1>11. jobs' = jobs \cup {new} /\ new.n = Pressed + 1 /\ new.watched
  BY <1>1 DEF Starts
<1>12. \A j \in jobs' : JobTyped(page, Pressed + 1, j) /\ (j.watched \/ j.todo # <<>>)
  BY <1>8, <1>9, <1>10, <1>11
<1>13. \A i, j \in jobs' : i.n = j.n => i = j
  BY <1>10, <1>11 DEF TypedInv, JobsTyped
<1>14. JobsTyped'
  BY <1>2, <1>4, <1>12, <1>13 DEF JobsTyped
<1>15. IsDraft(page, With(form[t].draft, h.before))
  BY <1>5, <1>6, WithDraft
<1>16. TabTyped(page, form[t])
  BY DEF TypedInv
<1>17. TabTyped(page, form'[t])
  BY <1>1, <1>6, <1>15, <1>16 DEF Starts, TabTyped, Inputs
<1>18. \A u \in Tab : TabTyped(page, form[u])'
  BY <1>1, <1>2, <1>17 DEF TypedInv, Starts
<1>19. ASSUME NEW f \in Counter \cap FieldsOf(page)
       PROVE  stored[f] + Cardinality(Owing(jobs', f)) <= Pressed + 1
  <2>1. Owing(jobs', f) \subseteq Owing(jobs, f) \cup {Pressed + 1}
    BY <1>11 DEF Owing
  <2>2. Cardinality(Owing(jobs', f)) <= Cardinality(Owing(jobs, f)) + 1
    BY <2>1, OwedOneMore
  <2>3. stored[f] + Cardinality(Owing(jobs, f)) <= Pressed /\ stored[f] \in Nat
    BY <1>19, Small DEF TypedInv, IsRecord, Counted
  <2> QED
    BY <1>4, <2>2, <2>3, Owed
<1>20. Counted'
  BY <1>2, <1>4, <1>19 DEF Counted
<1>21. (page \in Opened)' /\ IsRecord(page, stored)'
  BY <1>0, <1>2 DEF TypedInv
<1> QED
  BY <1>3, <1>14, <1>18, <1>20, <1>21, Zenon DEF TypedInv

LEMMA TypedOpen ==
  ASSUME Shaped, TypedInv, NEW t \in Tab, Open(t) PROVE TypedInv'
<1>1. /\ page' = page /\ stored' = stored /\ jobs' = jobs /\ budget' = budget
      /\ form' = [form EXCEPT ![t] = Loaded(stored)]
  BY DEF Open
<1>2. PICK n : n = Loaded(stored)
  OBVIOUS
<1>3. TabTyped(page, n)
  <2>1. /\ IsDraft(page, n.draft) /\ IsRecord(page, n.saved)
        /\ n.touched = {} /\ n.behind = FALSE /\ n.open = TRUE
    <3>1. IsRecord(page, stored)
      BY DEF TypedInv
    <3> QED
      BY <1>2, <3>1, LoadedTyped
  <2> QED
    BY <2>1 DEF TabTyped
<1>4. form'[t] = n /\ \A u \in Tab \ {t} : form'[u] = form[u]
  BY <1>1, <1>2 DEF Shaped
<1>5. \A u \in Tab : TabTyped(page, form[u])'
  BY <1>1, <1>3, <1>4 DEF TypedInv
<1> QED
  BY <1>1, <1>5 DEF TypedInv, JobsTyped, Counted, Pressed

LEMMA TypedRefuse ==
  ASSUME Shaped, TypedInv, NEW j \in jobs, NEW k \in Ready(j), Refuse(j, k)
  PROVE  TypedInv'
<1>1. /\ page' = page /\ stored' = stored /\ form' = form /\ budget' = budget
      /\ Becomes(j, Failure(j, k))
  BY DEF Refuse
<1>2. IsRecord(page, stored)
  BY DEF TypedInv
<1>3. /\ JobsTyped'
      /\ \A y \in jobs' : \E z \in jobs : y.n = z.n /\
              \A m \in DOMAIN y.todo : \E l \in DOMAIN z.todo : y.todo[m] = z.todo[l]
  BY <1>1, <1>2, TypedBecomes
<1>4. Counted'
  BY <1>1, <1>3, CountKept DEF Pressed
<1> QED
  BY <1>1, <1>3, <1>4 DEF TypedInv

(* What the rest of a handler leaves of its page, when its requests were    *)
(* answered and when one failed.                                            *)
LEMMA SucceedFields ==
  ASSUME NEW now, NEW j, DOMAIN now = TabField, NEW n, n = Succeed(now, j)
  PROVE  /\ n.behind = now.behind
         /\ n.saved = Taken(now.saved, j, j.handler.takes)
         /\ n.draft = With(Taken(now.draft, j, j.handler.adopts), j.handler.after)
         /\ n.touched = ((now.touched \ JustSaved(now, j)) \ j.handler.adopts)
                          \ DOMAIN j.handler.after
  BY DEF Succeed, TabField

LEMMA SucceedNotice ==
  ASSUME NEW now, NEW j, DOMAIN now = TabField, NEW n, n = Succeed(now, j)
  PROVE  \/ j.handler.says = "" /\ n.notice = now.notice
         \/ j.handler.says # "" /\ n.notice = j.handler.says
  BY DEF Succeed, TabField

LEMMA SucceedOpen ==
  ASSUME NEW now, NEW j, DOMAIN now = TabField, NEW n, n = Succeed(now, j)
  PROVE  n.open \in BOOLEAN /\ (n.open <=> ~j.handler.leaves)
  BY DEF Succeed, TabField

LEMMA FailFields ==
  ASSUME NEW now, NEW j, DOMAIN now = TabField, NEW n, n = Fail(now, j)
  PROVE  /\ n.open = now.open
         /\ n.saved = Taken(now.saved, j, j.handler.keeps)
         /\ n.touched = now.touched
         /\ n.draft \in {With(now.draft, j.prev), now.draft}
  BY DEF Fail, TabField

LEMMA FailNotice ==
  ASSUME NEW now, NEW j, DOMAIN now = TabField, NEW n, n = Fail(now, j)
  PROVE  \/ j.handler.fails = "" /\ n.notice = now.notice
         \/ j.handler.fails # "" /\ n.notice = j.handler.fails
  BY DEF Fail, TabField

LEMMA FailBehind ==
  ASSUME NEW now, NEW j, DOMAIN now = TabField, NEW n, n = Fail(now, j)
  PROVE  n.behind \in BOOLEAN /\ (n.behind <=> (now.behind \/ j.copy # <<>>))
  BY DEF Fail, TabField

(* Either way the page is typed.                                            *)
LEMMA SettledTyped ==
  ASSUME NEW p, NEW left, NEW now, NEW j, TabTyped(p, now), DOMAIN now = TabField,
         JobTyped(p, left, j), j.watched,
         NEW n, n = IF j.state = "ok" THEN Succeed(now, j) ELSE Fail(now, j)
  PROVE  TabTyped(p, n)
<1>1. /\ j.copy = <<>> \/ IsRecord(p, j.copy)
      /\ Inputs(p, j.prev) /\ Inputs(p, j.handler.after)
      /\ j.handler.adopts \cap PostField = {}
  BY DEF JobTyped
<1>2. /\ IsDraft(p, now.draft) /\ IsRecord(p, now.saved)
      /\ now.touched \subseteq FieldsOf(p)
      /\ now.open \in BOOLEAN /\ now.behind \in BOOLEAN
  BY DEF TabTyped
<1>3. CASE j.state = "ok"
  <2>1. n = Succeed(now, j)
    BY <1>3
  <2>2. /\ n.open \in BOOLEAN /\ n.behind = now.behind
        /\ n.saved = Taken(now.saved, j, j.handler.takes)
        /\ n.draft = With(Taken(now.draft, j, j.handler.adopts), j.handler.after)
        /\ n.touched \subseteq now.touched
    <3>1. n.open \in BOOLEAN
      BY <2>1, SucceedOpen
    <3> QED
      BY <2>1, <3>1, SucceedFields
  <2>3. IsRecord(p, n.saved) /\ IsDraft(p, Taken(now.draft, j, j.handler.adopts))
    BY <1>1, <1>2, <2>2, TakenRecord, TakenDraft
  <2>4. IsDraft(p, n.draft)
    BY <1>1, <2>2, <2>3, WithDraft
  <2> QED
    BY <1>2, <2>2, <2>3, <2>4 DEF TabTyped
<1>4. CASE j.state # "ok"
  <2>1. n = Fail(now, j)
    BY <1>4
  <2>2. /\ n.open = now.open /\ n.behind \in BOOLEAN
        /\ n.saved = Taken(now.saved, j, j.handler.keeps)
        /\ n.draft \in {With(now.draft, j.prev), now.draft}
        /\ n.touched = now.touched
    <3>1. n.behind \in BOOLEAN
      BY <2>1, FailBehind
    <3> QED
      BY <2>1, <3>1, FailFields
  <2>3. IsRecord(p, n.saved)
    BY <1>1, <1>2, <2>2, TakenRecord
  <2>4. IsDraft(p, n.draft)
    BY <1>1, <1>2, <2>2, WithDraft
  <2> QED
    BY <1>2, <2>2, <2>3, <2>4 DEF TabTyped
<1> QED
  BY <1>3, <1>4

(* The jobs after a handler has run to its end are those before it, some of *)
(* them no longer looked at.                                                *)
LEMMA UnwatchAgain ==
  ASSUME NEW j, DOMAIN j = JobField PROVE Unwatch(Unwatch(j)) = Unwatch(j)
  BY DEF Unwatch, JobField

LEMMA SettledJobs ==
  ASSUME Shaped, TypedInv, NEW j \in jobs, Settle(j)
  PROVE  /\ \A i \in jobs' : i.watched \/ i.todo # <<>>
         /\ \A i \in jobs' : \E y \in jobs : i = y \/ i = Unwatch(y)
<1>1. PICK rest : rest = Lasting((jobs \ {j}) \cup {Unwatch(j)})
  OBVIOUS
<1>2. jobs' = rest \/ jobs' = LeftBy(j.tab, rest)
  BY <1>1 DEF Settle
<1>3. \A i \in rest : /\ i.watched \/ i.todo # <<>>
                      /\ \E y \in jobs : i = y \/ i = Unwatch(y)
  BY <1>1 DEF Lasting
<1>4. \A i \in LeftBy(j.tab, rest) : /\ i.watched \/ i.todo # <<>>
                                     /\ \E y \in rest : i = y \/ i = Unwatch(y)
  BY DEF LeftBy, Lasting
<1>5. \A y \in jobs : Unwatch(Unwatch(y)) = Unwatch(y)
  BY UnwatchAgain DEF Shaped
<1>6. \A i \in LeftBy(j.tab, rest) : \E y \in jobs : i = y \/ i = Unwatch(y)
  BY <1>3, <1>4, <1>5
<1> QED
  BY <1>2, <1>3, <1>4, <1>6

LEMMA TypedSettle ==
  ASSUME Shaped, TypedInv, NEW j \in jobs, Settle(j) PROVE TypedInv'
<1>1. /\ page' = page /\ stored' = stored /\ budget' = budget /\ j.watched
      /\ form' = [form EXCEPT ![j.tab] =
                    IF j.state = "ok" THEN Succeed(@, j) ELSE Fail(@, j)]
  BY DEF Settle
<1>2. PICK n : n = IF j.state = "ok" THEN Succeed(form[j.tab], j)
                   ELSE Fail(form[j.tab], j)
  OBVIOUS
<1>3. j.tab \in Tab /\ form'[j.tab] = n /\ \A u \in Tab \ {j.tab} : form'[u] = form[u]
  BY <1>1, <1>2 DEF Shaped
<1>4. /\ DOMAIN form[j.tab] = TabField /\ TabTyped(page, form[j.tab])
      /\ JobTyped(page, Pressed, j)
  BY <1>3 DEF Shaped, TypedInv, JobsTyped
<1>5. TabTyped(page, n)
  BY <1>1, <1>2, <1>4, SettledTyped
<1>6. \A u \in Tab : TabTyped(page, form[u])'
  BY <1>1, <1>3, <1>5 DEF TypedInv
<1>7. /\ \A i \in jobs' : i.watched \/ i.todo # <<>>
      /\ \A i \in jobs' : \E y \in jobs : i = y \/ i = Unwatch(y)
  BY SettledJobs
<1>8. \A y \in jobs : /\ JobTyped(page, Pressed, y) /\ JobTyped(page, Pressed, Unwatch(y))
                      /\ Unwatch(y).n = y.n /\ Unwatch(y).todo = y.todo
  BY UnwatchedTyped DEF TypedInv, JobsTyped, Shaped
<1>9. \A i \in jobs' : JobTyped(page, Pressed, i)
  BY <1>7, <1>8
<1>10. \A i, y \in jobs' : i.n = y.n => i = y
  <2>1. PICK rest : rest = Lasting((jobs \ {j}) \cup {Unwatch(j)})
    OBVIOUS
  <2>2. jobs' = rest \/ jobs' = LeftBy(j.tab, rest)
    BY <2>1 DEF Settle
  <2>3. \A i, y \in jobs : i.n = y.n => i = y
    BY DEF TypedInv, JobsTyped
  <2>4. \A i \in rest : (i \in jobs /\ i # j) \/ i = Unwatch(j)
    BY <2>1 DEF Lasting
  <2>5. \A i, y \in rest : i.n = y.n => i = y
    BY <1>8, <2>3, <2>4
  <2>6. \A i \in rest : Unwatch(i).n = i.n
    BY <1>8, <2>4, UnwatchAgain DEF Shaped
  <2>7. \A i \in LeftBy(j.tab, rest) :
          \E y \in rest : i = IF y.tab = j.tab THEN Unwatch(y) ELSE y
    BY DEF LeftBy, Lasting
  <2>8. \A i, y \in LeftBy(j.tab, rest) : i.n = y.n => i = y
    BY <2>5, <2>6, <2>7
  <2> QED
    BY <2>2, <2>5, <2>8
<1>11. Pressed' = Pressed
  BY <1>1 DEF Pressed
<1>12. JobsTyped'
  BY <1>1, <1>7, <1>9, <1>10, <1>11 DEF JobsTyped
<1>13. \A i \in jobs' : \E y \in jobs : i.n = y.n /\ i.todo = y.todo
  BY <1>7, <1>8
<1>14. Counted'
  BY <1>1, <1>11, <1>13, CountKept
<1> QED
  BY <1>1, <1>6, <1>12, <1>14 DEF TypedInv

-----------------------------------------------------------------------------
LEMMA TypedInvHolds == Spec => []TypedInv
<1>1. Init => TypedInv
  BY TypedInit
<1>2. FormInv /\ TypedInv /\ [Next]_vars => TypedInv'
  <2> SUFFICES ASSUME FormInv, TypedInv, [Next]_vars PROVE TypedInv'
    OBVIOUS
  <2>1. Shaped
    BY DEF FormInv
  <2>2. ASSUME NEW t \in Tab, Edit(t) \/ Press(t) \/ Leave(t) \/ Open(t) PROVE TypedInv'
    BY <2>1, <2>2, TypedEdit, TypedPress, TypedLeave, TypedOpen
  <2>3. ASSUME NEW j \in jobs, NEW k \in Ready(j), Serve(j, k) \/ Refuse(j, k)
        PROVE  TypedInv'
    BY <2>1, <2>3, TypedServe, TypedRefuse
  <2>4. ASSUME NEW j \in jobs, Settle(j) PROVE TypedInv'
    BY <2>1, <2>4, TypedSettle
  <2>5. CASE UNCHANGED vars
    BY <2>5 DEF vars, TypedInv, JobsTyped, Counted, Pressed
  <2> QED
    BY <2>2, <2>3, <2>4, <2>5 DEF Next
<1> QED
  BY <1>1, <1>2, FormInvHolds, PTL DEF Spec

(* Every page, copy, draft and job keeps its type: no handler, whatever the *)
(* order of replies, failures and reloads, leaves a value in a field that   *)
(* its page does not have or that the API cannot hold, sends a request that *)
(* names a field of another page, or outlives both its page and its         *)
(* requests; and no job is started beyond the presses made.                 *)
THEOREM EverythingIsTyped == Spec => []TypeOK
<1>1. FormInv /\ TypedInv => TypeOK
  <2> SUFFICES ASSUME FormInv, TypedInv PROVE TypeOK
    OBVIOUS
  <2>1. \A p, r : IsRecord(p, r) => r \in [FieldsOf(p) -> 0 .. MaxPresses + 2]
    BY DEF IsRecord
  <2>2. page \in Opened /\ stored \in Record
    BY <2>1 DEF TypedInv, Record
  <2>3. \A t \in Tab :
          /\ form[t].open \in BOOLEAN /\ form[t].behind \in BOOLEAN
          /\ form[t].draft \in Record /\ form[t].saved \in Record
          /\ form[t].touched \subseteq FieldsOf(page)
    BY <2>1 DEF TypedInv, TabTyped, IsDraft, Record
  <2>4. ASSUME NEW j \in jobs
        PROVE  /\ j.tab \in Tab /\ j.n \in 1 .. MaxPresses
               /\ j.state \in {"out", "ok", "failed"}
               /\ \A k \in DOMAIN j.todo : DOMAIN j.todo[k] \subseteq FieldsOf(page)
               /\ j.watched \/ j.todo # <<>>
    <3>1. JobTyped(page, Pressed, j) /\ (j.watched \/ j.todo # <<>>)
      BY DEF TypedInv, JobsTyped
    <3>2. Pressed \in 0 .. MaxPresses
      BY FormAssumption DEF TypedInv, Pressed
    <3>3. j.n \in 1 .. MaxPresses
      BY <3>1, <3>2, FormAssumption DEF JobTyped
    <3>4. j.tab \in Tab
      BY DEF FormInv, Shaped
    <3> QED
      BY <3>1, <3>3, <3>4 DEF JobTyped, BodiesTyped
  <2> QED
    BY <2>2, <2>3, <2>4 DEF TypeOK
<1> QED
  BY <1>1, FormInvHolds, TypedInvHolds, PTL

-----------------------------------------------------------------------------
(* What the kill switch is for: every destructive class of actions denied.  *)
Killed(r) == \A c \in Destructive : r[c] = 1

(* A page that has nothing under way and has missed nothing tells what the  *)
(* API has: NoticeIsTrue, whatever the notice is.                           *)
RestHonest(p, now, r) ==
  /\ \A f \in Copied(p) : now.saved[f] = r[f]
  /\ \A f \in ShownOf(p) \ now.touched : now.draft[f] = r[f]
  /\ now.notice = "killed" => Killed(r)

(* A job has its handler's requests, those still to send among them; it is  *)
(* done well only when all were answered.                                   *)
Carries(j) ==
  /\ j.sent = j.handler.bodies
  /\ \A m \in DOMAIN j.todo : \E k \in DOMAIN j.sent : j.todo[m] = j.sent[k]
  /\ j.state = "ok" => j.todo = <<>> /\ j.copy # <<>>

(* While it is under way its page may have a stale copy or show a stale     *)
(* value, but only where the rest of the handler will replace it.           *)
CopyHonest(p, now, r, j) ==
  \A f \in Copied(p) : now.saved[f] = r[f]
                       \/ (j.copy # <<>> /\ (j.handler.leaves \/ f \in j.handler.takes))

DraftHonest(p, now, r, j) ==
  \A f \in ShownOf(p) \ now.touched :
     now.draft[f] = r[f]
     \/ (j.copy # <<>> /\ f \in j.handler.adopts \cup DOMAIN j.handler.after)

(* What it sent is in the record, has yet to be sent, or has failed.        *)
Served(p, r, j) ==
  \A k \in DOMAIN j.sent : \A f \in ShownOf(p) \cap DOMAIN j.sent[k] :
     \/ j.state = "failed"
     \/ r[f] = j.sent[k][f]
     \/ \E m \in DOMAIN j.todo : f \in DOMAIN j.todo[m]

(* What it sent is what the page shows, was typed over since, or will be    *)
(* replaced.                                                                *)
SentHonest(p, now, j) ==
  \A k \in DOMAIN j.sent : \A f \in ShownOf(p) \cap DOMAIN j.sent[k] :
     f \in (now.touched \cup j.handler.adopts) \cup DOMAIN j.handler.after
     \/ now.draft[f] = j.sent[k][f]

(* The word of the kill switch still stands, or the handler will replace it *)
(* however it ends.                                                         *)
WordHonest(now, r, j) ==
  now.notice = "killed" => Killed(r) \/ (j.handler.says # "" /\ j.handler.fails # "")

(* All of that, of one job.                                                 *)
JobHonest(p, now, r, j) ==
  /\ \E d : Good(p, j.handler, d)
  /\ Carries(j)
  /\ DOMAIN j.prev \subseteq now.touched
  /\ j.copy \in {<<>>, r}
  /\ CopyHonest(p, now, r, j)
  /\ DraftHonest(p, now, r, j)
  /\ Served(p, r, j)
  /\ SentHonest(p, now, j)
  /\ WordHonest(now, r, j)

(* A page that is open and has missed nothing has at most one job under     *)
(* way: a second press while one is under way makes it behind.              *)
Honest(p, now, r, J) ==
  now.open /\ ~now.behind =>
    /\ now.notice = "killed" => p = "automation"
    /\ \A i, j \in J : i = j
    /\ \A j \in J : JobHonest(p, now, r, j)
    /\ J = {} => RestHonest(p, now, r)

(* The inductive invariant of NoticeIsTrue. It says of every moment what    *)
(* NoticeIsTrue says of a page at rest: what each thing under way will put  *)
(* right.                                                                   *)
HonestInv == \A t \in Tab : Honest(page, form[t], stored, Underway(t))

-----------------------------------------------------------------------------
(* Changing an input, or nothing.                                           *)
LEMMA Undisturbed ==
  ASSUME NEW p, NEW now, NEW r, NEW J, Honest(p, now, r, J), NEW new,
         new.open = now.open, new.behind <=> now.behind, new.notice = now.notice,
         new.saved = now.saved, now.touched \subseteq new.touched,
         \A f \in ShownOf(p) \ new.touched : new.draft[f] = now.draft[f]
  PROVE  Honest(p, new, r, J)
<1> SUFFICES ASSUME new.open, ~new.behind
             PROVE  /\ new.notice = "killed" => p = "automation"
                    /\ \A i, j \in J : i = j
                    /\ \A j \in J : JobHonest(p, new, r, j)
                    /\ J = {} => RestHonest(p, new, r)
  BY DEF Honest
<1>1. /\ now.notice = "killed" => p = "automation"
      /\ \A i, j \in J : i = j
      /\ \A j \in J : JobHonest(p, now, r, j)
      /\ J = {} => RestHonest(p, now, r)
  BY DEF Honest
<1>2. ASSUME NEW j \in J PROVE JobHonest(p, new, r, j)
  <2>1. JobHonest(p, now, r, j)
    BY <1>1
  <2>2. CopyHonest(p, new, r, j) /\ WordHonest(new, r, j)
    BY <2>1 DEF JobHonest, CopyHonest, WordHonest
  <2>3. DraftHonest(p, new, r, j)
    BY <2>1 DEF JobHonest, DraftHonest
  <2>4. SentHonest(p, new, j)
    BY <2>1 DEF JobHonest, SentHonest
  <2> QED
    BY <2>1, <2>2, <2>3, <2>4 DEF JobHonest
<1>3. J = {} => RestHonest(p, new, r)
  BY <1>1 DEF RestHonest
<1> QED
  BY <1>1, <1>2, <1>3

(* The fields shown, by page, are those of the model.                       *)
LEMMA ShownIs == page \in Page => Shown(page) = ShownOf(page)
<1> SUFFICES ASSUME page \in Page PROVE Shown(page) = ShownOf(page)
  OBVIOUS
<1>1. CASE page \in {"settings", "automation"}
  <2>1. Shown(page) = FieldsOf(page)
    BY <1>1, Zenon DEF Shown
  <2>2. ShownOf(page) = FieldsOf(page)
    BY <1>1, Zenon DEF ShownOf
  <2> QED
    BY <2>1, <2>2
<1>2. CASE page \notin {"settings", "automation"}
  <2>1. Shown(page) = View(page, stored, stored).inputs \ PostField
    BY <1>2, Zenon DEF Shown
  <2>2. PostField = {"cases", "comments", "items"}
    BY DEF PostField
  <2> QED
    BY <1>2, <2>1, <2>2, PageInputs, PageFields DEF Page
<1> QED
  BY <1>1, <1>2

(* A page just opened shows what the API has.                               *)
LEMMA LoadedHonest ==
  ASSUME NEW p \in Page, NEW r, IsRecord(p, r)
  PROVE  Honest(p, Loaded(r), r, {})
<1>1. PICK n : n = Loaded(r)
  OBVIOUS
<1>2. n.notice = "" /\ n.saved = r /\ \A f \in FieldsOf(p) \ PostField : n.draft[f] = r[f]
  <2>1. Loaded(r).notice = "" /\ Loaded(r).saved = r
    BY LoadedTyped
  <2>2. \A f \in FieldsOf(p) \ PostField : Loaded(r).draft[f] = r[f]
    BY DEF Loaded, IsRecord
  <2> QED
    BY <1>1, <2>1, <2>2
<1>3. ShownOf(p) \subseteq FieldsOf(p) \ PostField
  BY OpenedFields DEF Counter
<1>4. RestHonest(p, n, r)
  BY <1>2, <1>3 DEF RestHonest
<1>5. Honest(p, n, r, {})
  BY <1>2, <1>4 DEF Honest
<1> QED
  BY <1>1, <1>5

LEMMA HonestInit == Init => HonestInv
<1> SUFFICES ASSUME Init PROVE HonestInv
  OBVIOUS
<1>1. TypedInv
  BY TypedInit
<1>2. page \in Page /\ IsRecord(page, stored)
  BY <1>1, FormAssumption DEF TypedInv
<1>3. \A t \in Tab : form[t] = Loaded(stored) /\ Underway(t) = {}
  BY DEF Init, Underway
<1> QED
  BY <1>2, <1>3, LoadedHonest DEF HonestInv

LEMMA HonestEdit ==
  ASSUME Shaped, TypedInv, HonestInv, NEW t \in Tab, Edit(t) PROVE HonestInv'
<1>0. page \in Page
  BY FormAssumption DEF TypedInv
<1>1. PICK f \in View(page, form[t].draft, form[t].saved).inputs :
        form' = [form EXCEPT ![t].draft[f] = 1 - @, ![t].touched = @ \cup {f}]
  BY DEF Edit
<1>2. PICK d : d = form[t].draft
  OBVIOUS
<1>3. PICK e : e = [d EXCEPT ![f] = 1 - @]
  OBVIOUS
<1>4. /\ \A u \in Tab \ {t} : form'[u] = form[u]
      /\ form'[t].draft = e
      /\ form'[t].touched = form[t].touched \cup {f}
      /\ form'[t].saved = form[t].saved /\ form'[t].notice = form[t].notice
      /\ form'[t].open = form[t].open /\ form'[t].behind = form[t].behind
  BY <1>1, <1>2, <1>3 DEF Shaped, TabField
<1>5. \A g \in ShownOf(page) \ {f} : e[g] = d[g]
  <2>1. DOMAIN d = FieldsOf(page)
    BY <1>2 DEF TypedInv, TabTyped, IsDraft
  <2>2. ShownOf(page) \subseteq FieldsOf(page)
    BY <1>0, OpenedFields
  <2> QED
    BY <1>3, <2>1, <2>2
<1>6. page' = page /\ stored' = stored /\ \A u \in Tab : Underway(u)' = Underway(u)
  BY DEF Edit, Underway
<1>7. Honest(page, form'[t], stored, Underway(t))
  <2>1. Honest(page, form[t], stored, Underway(t))
    BY DEF HonestInv
  <2>2. \A g \in ShownOf(page) \ form'[t].touched : form'[t].draft[g] = form[t].draft[g]
    BY <1>2, <1>4, <1>5
  <2> QED
    BY <1>4, <2>1, <2>2, Undisturbed
<1> QED
  BY <1>4, <1>6, <1>7 DEF HonestInv

LEMMA HonestPress ==
  ASSUME Shaped, TypedInv, HonestInv, NEW t \in Tab, Press(t) PROVE HonestInv'
<1>0. page \in Page
  BY FormAssumption DEF TypedInv
<1>1. PICK h, new : Starts(t, h, new)
  BY <1>0, PressFields
<1>2. page' = page /\ stored' = stored
  BY DEF Press
<1>3. /\ Underway(t)' = Underway(t) \cup {new}
      /\ \A u \in Tab \ {t} : Underway(u)' = Underway(u) /\ form'[u] = form[u]
  BY <1>1 DEF Starts, Underway
<1>4. PICK now, next : now = form[t] /\ next = form'[t]
  OBVIOUS
<1>5. Honest(page, next, stored, Underway(t) \cup {new})
  <2>1. CASE Underway(t) # {} \/ now.behind \/ ~now.open
    <3>1. next.behind \/ ~next.open
      BY <1>1, <1>4, <2>1 DEF Starts
    <3> QED
      BY <3>1 DEF Honest
  <2>2. CASE Underway(t) = {} /\ ~now.behind /\ now.open
    <3>1. RestHonest(page, now, stored) /\ (now.notice = "killed" => page = "automation")
      BY <1>4, <2>2 DEF HonestInv, Honest
    <3>2. /\ Good(page, h, now.draft)
          /\ new.handler = h /\ new.todo = h.bodies /\ new.sent = h.bodies
          /\ new.prev = Only(now.draft, DOMAIN h.before)
          /\ new.state = "out" /\ new.copy = <<>>
      BY <1>1, <1>4 DEF Starts
    <3>3. /\ next.saved = now.saved
          /\ next.draft = With(now.draft, h.before)
          /\ next.touched = now.touched \cup DOMAIN h.before
          /\ next.notice \in {now.notice, ""}
      BY <1>1, <1>4 DEF Starts
    <3>4. \A f \in ShownOf(page) \ next.touched : next.draft[f] = now.draft[f]
      <4>1. DOMAIN now.draft = FieldsOf(page)
        BY <1>4 DEF TypedInv, TabTyped, IsDraft
      <4>2. ShownOf(page) \subseteq FieldsOf(page)
        BY <1>0, OpenedFields
      <4> QED
        BY <3>3, <4>1, <4>2 DEF With
    <3>5. Carries(new)
      BY <3>2 DEF Carries
    <3>6. DOMAIN new.prev \subseteq next.touched
      BY <3>2, <3>3 DEF Only
    <3>7. CopyHonest(page, next, stored, new)
      BY <3>1, <3>3 DEF RestHonest, CopyHonest
    <3>8. DraftHonest(page, next, stored, new)
      BY <3>1, <3>3, <3>4 DEF RestHonest, DraftHonest
    <3>9. Served(page, stored, new)
      BY <3>2 DEF Served
    <3>10. SentHonest(page, next, new)
      <4>1. \A k \in DOMAIN h.bodies : Told(page, h, now.draft, h.bodies[k])
        BY <3>2 DEF Good, Bodies, Fits
      <4>2. ASSUME NEW k \in DOMAIN h.bodies,
                   NEW f \in ShownOf(page) \cap DOMAIN h.bodies[k]
            PROVE  f \in (next.touched \cup h.adopts) \cup DOMAIN h.after
                   \/ next.draft[f] = h.bodies[k][f]
        <5>1. f \in (h.adopts \cup DOMAIN h.after) \cup DOMAIN h.before
              \/ h.bodies[k][f] = now.draft[f]
          BY <4>1, <4>2 DEF Told
        <5> QED
          BY <3>3, <3>4, <4>2, <5>1
      <4> QED
        BY <3>2, <4>2 DEF SentHonest
    <3>11. WordHonest(next, stored, new)
      BY <3>1, <3>3 DEF RestHonest, WordHonest
    <3>12. JobHonest(page, next, stored, new)
      BY <3>2, <3>5, <3>6, <3>7, <3>8, <3>9, <3>10, <3>11 DEF JobHonest
    <3> QED
      BY <2>2, <3>1, <3>3, <3>12 DEF Honest
  <2> QED
    BY <2>1, <2>2
<1>6. Honest(page, form'[t], stored, Underway(t)')
  BY <1>3, <1>4, <1>5
<1> QED
  BY <1>2, <1>3, <1>6 DEF HonestInv

LEMMA HonestLeave ==
  ASSUME Shaped, TypedInv, HonestInv, NEW t \in Tab, Leave(t) PROVE HonestInv'
<1>1. form'[t].open = FALSE /\ \A u \in Tab \ {t} : form'[u] = form[u]
  BY DEF Leave, Loaded, Shaped
<1>2. \A u \in Tab \ {t} : Underway(u)' = Underway(u)
  BY Left DEF Leave, Shaped, Underway
<1>3. page' = page /\ stored' = stored
  BY DEF Leave
<1>4. Honest(page, form'[t], stored, Underway(t)')
  BY <1>1 DEF Honest
<1> QED
  BY <1>1, <1>2, <1>3, <1>4 DEF HonestInv

LEMMA HonestOpen ==
  ASSUME FormInv, TypedInv, HonestInv, NEW t \in Tab, Open(t) PROVE HonestInv'
<1>0. page \in Page /\ IsRecord(page, stored)
  BY FormAssumption DEF TypedInv
<1>1. /\ page' = page /\ stored' = stored /\ jobs' = jobs /\ ~form[t].open
      /\ form'[t] = Loaded(stored) /\ \A u \in Tab \ {t} : form'[u] = form[u]
  BY DEF Open, FormInv, Shaped
<1>2. Underway(t) = {} /\ \A u \in Tab : Underway(u)' = Underway(u)
  BY <1>1 DEF FormInv, TabInv, Underway
<1>3. Honest(page, form'[t], stored, Underway(t)')
  BY <1>0, <1>1, <1>2, LoadedHonest
<1> QED
  BY <1>1, <1>2, <1>3 DEF HonestInv

-----------------------------------------------------------------------------
(* What a page has under way once job j of it has become i.                 *)
LEMMA UnderwayAfter ==
  ASSUME NEW j \in jobs, NEW i, i.tab = j.tab, i.watched = j.watched, Becomes(j, i)
  PROVE  /\ \A t \in Tab : t # j.tab \/ ~j.watched => Underway(t)' = Underway(t)
         /\ j.watched => Underway(j.tab)' = (Underway(j.tab) \ {j}) \cup {i}
  BY DEF Becomes, Lasting, Underway

(* The kill switch is about modes the page shows.                           *)
LEMMA DestructiveShown == Destructive \subseteq ShownOf("automation")
  BY PageFields DEF Destructive

(* A request of the page's own that was answered.                           *)
LEMMA AnswerHonest ==
  ASSUME NEW p \in Page, NEW now, NEW r, NEW j, JobHonest(p, now, r, j),
         now.notice = "killed" => p = "automation", DOMAIN j = JobField, j.watched,
         BodiesTyped(p, j.todo), NEW k \in DOMAIN j.todo,
         NEW q, IsRecord(p, q),
         \A f \in FieldsOf(p) \ DOMAIN j.todo[k] : q[f] = r[f],
         \A f \in DOMAIN j.todo[k] \cap ShownOf(p) : q[f] = j.todo[k][f],
         NEW i, i = Answer(j, k, q)
  PROVE  JobHonest(p, now, q, i)
<1>1. PICK x, rest : x = j.todo[k] /\ rest = RemoveAt(j.todo, k)
  OBVIOUS
<1>2. PICK h : h = j.handler
  OBVIOUS
<1>3. /\ i.todo = rest /\ i.copy = q /\ i.handler = h /\ i.sent = j.sent
      /\ i.prev = j.prev
      /\ i.state = (IF j.state = "out" /\ rest = <<>> THEN "ok" ELSE j.state)
  BY <1>1, <1>2 DEF Answer, JobField
<1>4. PICK B : j.todo \in Seq(B)
  BY DEF BodiesTyped
<1>5. /\ \A m \in DOMAIN rest : \E l \in DOMAIN j.todo : rest[m] = j.todo[l]
      /\ \A l \in DOMAIN j.todo \ {k} : \E m \in DOMAIN rest : rest[m] = j.todo[l]
  BY <1>1, <1>4, Removed
<1>6. PICK d : Good(p, h, d)
  BY <1>2 DEF JobHonest
<1>7. /\ j.sent = h.bodies
      /\ \A m \in DOMAIN j.todo : \E l \in DOMAIN j.sent : j.todo[m] = j.sent[l]
      /\ j.state = "ok" => j.todo = <<>> /\ j.copy # <<>>
  BY <1>2 DEF JobHonest, Carries
<1>8. PICK c \in DOMAIN h.bodies : x = h.bodies[c]
  BY <1>1, <1>7
<1>9. /\ Told(p, h, d, x) /\ Denies(p, h, x)
      /\ \A m \in DOMAIN h.bodies \ {c} : Agree(p, x, h.bodies[m])
  BY <1>6, <1>8 DEF Good, Bodies, Fits
<1>10. Copied(p) \subseteq FieldsOf(p) /\ ShownOf(p) \subseteq FieldsOf(p)
  BY OpenedFields
<1>11. q # <<>>
  <2>1. DOMAIN <<>> = {}
    OBVIOUS
  <2>2. DOMAIN q = FieldsOf(p) /\ FieldsOf(p) # {}
    BY OpenedFields DEF IsRecord
  <2> QED
    BY <2>1, <2>2
<1>12. /\ \A f \in FieldsOf(p) \ DOMAIN x : q[f] = r[f]
       /\ \A f \in DOMAIN x \cap ShownOf(p) : q[f] = x[f]
  BY <1>1
<1>13. Carries(i)
  <2>1. j.state # "ok"
    <3>1. DOMAIN <<>> = {}
      OBVIOUS
    <3> QED
      BY <1>7, <3>1
  <2>2. i.state = "ok" => i.todo = <<>> /\ i.copy # <<>>
    BY <1>3, <1>11, <2>1
  <2>3. \A m \in DOMAIN i.todo : \E l \in DOMAIN i.sent : i.todo[m] = i.sent[l]
    BY <1>3, <1>5, <1>7
  <2> QED
    BY <1>3, <1>7, <2>2, <2>3 DEF Carries
<1>14. CopyHonest(p, now, q, i)
  <2>1. \A f \in Copied(p) : now.saved[f] = r[f] \/ h.leaves \/ f \in h.takes
    BY <1>2 DEF JobHonest, CopyHonest
  <2>2. \A f \in Copied(p) \cap DOMAIN x : h.leaves \/ f \in h.takes
    BY <1>9 DEF Told
  <2>3. \A f \in Copied(p) : now.saved[f] = q[f] \/ h.leaves \/ f \in h.takes
    BY <1>10, <1>12, <2>1, <2>2
  <2> QED
    BY <1>3, <1>11, <2>3 DEF CopyHonest
<1>15. DraftHonest(p, now, q, i)
  <2>1. \A f \in ShownOf(p) \ now.touched :
          now.draft[f] = r[f] \/ f \in h.adopts \cup DOMAIN h.after
    BY <1>2 DEF JobHonest, DraftHonest
  <2>2. \A f \in (ShownOf(p) \cap DOMAIN x) \ now.touched :
          now.draft[f] = x[f] \/ f \in h.adopts \cup DOMAIN h.after
    BY <1>2, <1>7, <1>8 DEF JobHonest, SentHonest
  <2>3. \A f \in ShownOf(p) \ now.touched :
          now.draft[f] = q[f] \/ f \in h.adopts \cup DOMAIN h.after
    BY <1>10, <1>12, <2>1, <2>2
  <2> QED
    BY <1>3, <1>11, <2>3 DEF DraftHonest
<1>16. Served(p, q, i)
  <2>1. ASSUME NEW m \in DOMAIN j.sent, NEW f \in ShownOf(p) \cap DOMAIN j.sent[m]
        PROVE  \/ j.state = "failed"
               \/ q[f] = j.sent[m][f]
               \/ \E l \in DOMAIN rest : f \in DOMAIN rest[l]
    <3>1. CASE f \in DOMAIN x
      <4>1. q[f] = x[f]
        BY <1>12, <2>1, <3>1
      <4>2. x[f] = j.sent[m][f]
        BY <1>7, <1>8, <1>9, <2>1, <3>1 DEF Agree
      <4> QED
        BY <4>1, <4>2
    <3>2. CASE f \notin DOMAIN x
      <4>1. q[f] = r[f]
        BY <1>10, <1>12, <2>1, <3>2
      <4>2. \/ j.state = "failed"
            \/ r[f] = j.sent[m][f]
            \/ \E l \in DOMAIN j.todo : f \in DOMAIN j.todo[l]
        BY <2>1 DEF JobHonest, Served
      <4>3. \A l \in DOMAIN j.todo : f \in DOMAIN j.todo[l] => l # k
        BY <1>1, <3>2
      <4> QED
        BY <1>5, <4>1, <4>2, <4>3
    <3> QED
      BY <3>1, <3>2
  <2>2. j.state = "failed" => i.state = "failed"
    BY <1>3
  <2> QED
    BY <1>3, <2>1, <2>2 DEF Served
<1>17. SentHonest(p, now, i)
  BY <1>2, <1>3 DEF JobHonest, SentHonest
<1>18. WordHonest(now, q, i)
  <2>1. now.notice = "killed" => Killed(r) \/ (h.says # "" /\ h.fails # "")
    BY <1>2 DEF JobHonest, WordHonest
  <2>2. ASSUME now.notice = "killed", Killed(r), h.says = "" \/ h.fails = ""
        PROVE  Killed(q)
    <3>1. p = "automation" /\ \A a \in DOMAIN x \cap Destructive : x[a] = 1
      BY <1>9, <2>2 DEF Denies
    <3>2. Destructive \subseteq ShownOf(p)
      BY <3>1, DestructiveShown
    <3> QED
      BY <1>10, <1>12, <2>2, <3>1, <3>2 DEF Killed
  <2> QED
    BY <1>3, <2>1, <2>2 DEF WordHonest
<1> QED
  BY <1>2, <1>3, <1>6, <1>13, <1>14, <1>15, <1>16, <1>17, <1>18 DEF JobHonest

(* One that failed for the page, although nothing was changed by it.        *)
LEMMA FailureHonest ==
  ASSUME NEW p, NEW now, NEW r, NEW j, JobHonest(p, now, r, j), DOMAIN j = JobField,
         BodiesTyped(p, j.todo), NEW k \in DOMAIN j.todo, NEW i, i = Failure(j, k)
  PROVE  JobHonest(p, now, r, i)
<1>1. PICK rest : rest = RemoveAt(j.todo, k)
  OBVIOUS
<1>2. /\ i.todo \in {rest, <<>>} /\ i.copy = j.copy /\ i.handler = j.handler
      /\ i.sent = j.sent /\ i.prev = j.prev /\ i.state = "failed"
  BY <1>1 DEF Failure, JobField
<1>3. PICK B : j.todo \in Seq(B)
  BY DEF BodiesTyped
<1>4. \A m \in DOMAIN rest : \E l \in DOMAIN j.todo : rest[m] = j.todo[l]
  BY <1>1, <1>3, Removed
<1>5. DOMAIN <<>> = {}
  OBVIOUS
<1>6. \A m \in DOMAIN i.todo : \E l \in DOMAIN j.todo : i.todo[m] = j.todo[l]
  BY <1>2, <1>4, <1>5
<1>7. Carries(i)
  BY <1>2, <1>6 DEF JobHonest, Carries
<1>8. Served(p, r, i)
  BY <1>2 DEF Served
<1>9. CopyHonest(p, now, r, i) /\ DraftHonest(p, now, r, i)
  BY <1>2 DEF JobHonest, CopyHonest, DraftHonest
<1>10. SentHonest(p, now, i)
  BY <1>2 DEF JobHonest, SentHonest
<1>11. WordHonest(now, r, i)
  BY <1>2 DEF JobHonest, WordHonest
<1> QED
  BY <1>2, <1>7, <1>8, <1>9, <1>10, <1>11 DEF JobHonest

(* A request that ends leaves its job with its page.                        *)
LEMMA RequestFields ==
  ASSUME Shaped, NEW j \in jobs, NEW k, NEW r, NEW i \in {Answer(j, k, r), Failure(j, k)}
  PROVE  i.tab = j.tab /\ i.watched = j.watched
  BY DEF Answer, Failure, Shaped, JobField

(* The one request a page has under way has ended.                          *)
LEMMA EndedHonest ==
  ASSUME NEW p, NEW now, NEW r, NEW J, Honest(p, now, r, J), now.open, ~now.behind,
         NEW j \in J, NEW i, NEW q, JobHonest(p, now, r, j) => JobHonest(p, now, q, i)
  PROVE  Honest(p, now, q, (J \ {j}) \cup {i})
<1>1. /\ now.notice = "killed" => p = "automation"
      /\ J = {j} /\ JobHonest(p, now, r, j)
  BY DEF Honest
<1>2. (J \ {j}) \cup {i} = {i}
  BY <1>1
<1> QED
  BY <1>1, <1>2, Zenon DEF Honest

LEMMA HonestRefuse ==
  ASSUME Shaped, TypedInv, HonestInv, NEW j \in jobs, NEW k \in Ready(j), Refuse(j, k)
  PROVE  HonestInv'
<1>1. /\ page' = page /\ stored' = stored /\ form' = form
      /\ Becomes(j, Failure(j, k))
  BY DEF Refuse
<1>2. PICK i : i = Failure(j, k)
  OBVIOUS
<1>3. /\ i.tab = j.tab /\ i.watched = j.watched /\ j.tab \in Tab /\ DOMAIN j = JobField
      /\ k \in DOMAIN j.todo /\ BodiesTyped(page, j.todo)
  BY <1>2, RequestFields DEF Shaped, Ready, TypedInv, JobsTyped, JobTyped
<1>4. /\ \A t \in Tab : t # j.tab \/ ~j.watched => Underway(t)' = Underway(t)
      /\ j.watched => Underway(j.tab)' = (Underway(j.tab) \ {j}) \cup {i}
  BY <1>1, <1>2, <1>3, UnderwayAfter
<1>5. PICK now : now = form[j.tab]
  OBVIOUS
<1>6. \A t \in Tab : Honest(page, form[t], stored, Underway(t))
  BY DEF HonestInv
<1>7. ASSUME j.watched PROVE Honest(page, now, stored, Underway(j.tab)')
  <2>1. CASE now.open /\ ~now.behind
    <3>1. j \in Underway(j.tab)
      BY <1>7 DEF Underway
    <3>2. JobHonest(page, now, stored, j) => JobHonest(page, now, stored, i)
      BY <1>2, <1>3, FailureHonest
    <3>3. Honest(page, now, stored, Underway(j.tab))
      BY <1>3, <1>5, <1>6
    <3>4. Honest(page, now, stored, (Underway(j.tab) \ {j}) \cup {i})
      BY <2>1, <3>1, <3>2, <3>3, EndedHonest, Zenon
    <3> QED
      BY <1>4, <1>7, <3>4
  <2>2. CASE ~now.open \/ now.behind
    BY <2>2 DEF Honest
  <2> QED
    BY <2>1, <2>2
<1>8. \A t \in Tab : Honest(page, form[t], stored, Underway(t)')
  BY <1>4, <1>5, <1>6, <1>7
<1> QED
  BY <1>1, <1>8 DEF HonestInv

LEMMA HonestServe ==
  ASSUME Shaped, TypedInv, HonestInv, NEW j \in jobs, NEW k \in Ready(j), Serve(j, k)
  PROVE  HonestInv'
<1>0. page \in Page /\ page' = page
  BY FormAssumption DEF TypedInv, Serve
<1>1. /\ IsRecord(page, stored')
      /\ \A f \in FieldsOf(page) \ DOMAIN j.todo[k] : stored'[f] = stored[f]
      /\ \A f \in DOMAIN j.todo[k] \cap ShownOf(page) : stored'[f] = j.todo[k][f]
  BY <1>0, TypedServe DEF TypedInv
<1>2. PICK i, lost : /\ Becomes(j, i) /\ form' = Unheard(j, lost)
                     /\ \/ i = Answer(j, k, stored') /\ ~lost
                        \/ i = Failure(j, k) /\ lost
  BY DEF Serve
<1>3. /\ j.tab \in Tab /\ DOMAIN j = JobField
      /\ k \in DOMAIN j.todo /\ BodiesTyped(page, j.todo)
  BY DEF Shaped, Ready, TypedInv, JobsTyped, JobTyped
<1>4. i.tab = j.tab /\ i.watched = j.watched
  BY <1>2, RequestFields
<1>5. /\ \A t \in Tab : t # j.tab \/ ~j.watched => Underway(t)' = Underway(t)
      /\ j.watched => Underway(j.tab)' = (Underway(j.tab) \ {j}) \cup {i}
  BY <1>2, <1>4, UnderwayAfter
<1>6. \A t \in Tab :
        /\ form'[t].open = form[t].open /\ form'[t].notice = form[t].notice
        /\ form'[t].draft = form[t].draft /\ form'[t].saved = form[t].saved
        /\ form'[t].touched = form[t].touched
        /\ form'[t].behind <=> (form[t].behind
              \/ (stored' # stored /\ (t # j.tab \/ ~j.watched \/ lost)))
  BY <1>0, <1>2, TypedUnheard
<1>7. ASSUME NEW t \in Tab PROVE Honest(page, form'[t], stored', Underway(t)')
  <2>1. CASE form'[t].behind \/ ~form'[t].open
    BY <2>1 DEF Honest
  <2>2. CASE ~form'[t].behind /\ form'[t].open
    <3>1. /\ form[t].open /\ ~form[t].behind
          /\ stored' = stored \/ (t = j.tab /\ j.watched /\ ~lost)
      BY <1>6, <2>2
    <3>2. Honest(page, form[t], stored, Underway(t))
      BY DEF HonestInv
    <3>3. Honest(page, form[t], stored', Underway(t)')
      <4>1. CASE t # j.tab \/ ~j.watched
        BY <1>5, <3>1, <3>2, <4>1
      <4>2. CASE t = j.tab /\ j.watched
        <5>1. j \in Underway(t)
          BY <4>2 DEF Underway
        <5>2. JobHonest(page, form[t], stored, j)
          BY <3>1, <3>2, <5>1, Zenon DEF Honest
        <5>3. form[t].notice = "killed" => page = "automation"
          BY <3>1, <3>2, Zenon DEF Honest
        <5>4. ASSUME i = Answer(j, k, stored') PROVE JobHonest(page, form[t], stored', i)
          <6>1. PICK now, q : now = form[t] /\ q = stored'
            OBVIOUS
          <6>2. /\ JobHonest(page, now, stored, j) /\ IsRecord(page, q)
                /\ now.notice = "killed" => page = "automation"
                /\ \A f \in FieldsOf(page) \ DOMAIN j.todo[k] : q[f] = stored[f]
                /\ \A f \in DOMAIN j.todo[k] \cap ShownOf(page) : q[f] = j.todo[k][f]
                /\ i = Answer(j, k, q) /\ j.watched
            BY <1>1, <4>2, <5>2, <5>3, <5>4, <6>1
          <6>3. JobHonest(page, now, q, i)
            BY <1>0, <1>3, <6>2, AnswerHonest
          <6> QED
            BY <6>1, <6>3
        <5>5. ASSUME i = Failure(j, k), stored' = stored
              PROVE  JobHonest(page, form[t], stored', i)
          <6>1. JobHonest(page, form[t], stored, i)
            BY <1>3, <5>2, <5>5, FailureHonest
          <6> QED
            BY <5>5, <6>1
        <5>6. JobHonest(page, form[t], stored', i)
          BY <1>2, <3>1, <4>2, <5>4, <5>5
        <5>7. Honest(page, form[t], stored', (Underway(t) \ {j}) \cup {i})
          BY <3>1, <3>2, <5>1, <5>6, EndedHonest, Zenon
        <5> QED
          BY <1>5, <4>2, <5>7
      <4> QED
        BY <4>1, <4>2
    <3> QED
      BY <1>6, <2>2, <3>1, <3>3, Undisturbed
  <2> QED
    BY <2>1, <2>2
<1> QED
  BY <1>0, <1>7 DEF HonestInv

(* The rest of a handler tells the page what the API has.                   *)
LEMMA SuccessHonest ==
  ASSUME NEW p \in Page, NEW now, NEW r, NEW j, JobHonest(p, now, r, j),
         now.notice = "killed" => p = "automation",
         DOMAIN now = TabField, IsRecord(p, r),
         IsDraft(p, now.draft), IsRecord(p, now.saved),
         j.state = "ok", NEW n, n = Succeed(now, j), n.open
  PROVE  RestHonest(p, n, r) /\ (n.notice = "killed" => p = "automation")
<1>1. PICK h : h = j.handler
  OBVIOUS
<1>2. PICK d : Good(p, h, d)
  BY <1>1 DEF JobHonest
<1>3. j.sent = h.bodies /\ j.todo = <<>> /\ j.copy = r
  BY <1>1 DEF JobHonest, Carries
<1>4. \A k \in DOMAIN h.bodies : \A f \in ShownOf(p) \cap DOMAIN h.bodies[k] :
        r[f] = h.bodies[k][f]
  <2>1. DOMAIN <<>> = {}
    OBVIOUS
  <2> QED
    BY <1>3, <2>1 DEF JobHonest, Served
<1>5. /\ n.saved = Taken(now.saved, j, h.takes)
      /\ n.draft = With(Taken(now.draft, j, h.adopts), h.after)
      /\ n.touched = ((now.touched \ JustSaved(now, j)) \ h.adopts) \ DOMAIN h.after
  BY <1>1, SucceedFields
<1>6. /\ ~h.leaves
      /\ h.says = "" => n.notice = now.notice
      /\ h.says # "" => n.notice = h.says
  BY <1>1, SucceedOpen, SucceedNotice
<1>7. /\ DOMAIN r = FieldsOf(p)
      /\ DOMAIN now.draft = FieldsOf(p) /\ DOMAIN now.saved = FieldsOf(p)
      /\ Copied(p) \subseteq FieldsOf(p) /\ ShownOf(p) \subseteq FieldsOf(p)
  BY OpenedFields DEF IsRecord, IsDraft
<1>8. ASSUME NEW f \in Copied(p) PROVE n.saved[f] = r[f]
  <2>1. now.saved[f] = r[f] \/ f \in h.takes
    BY <1>1, <1>6, <1>8 DEF JobHonest, CopyHonest
  <2> QED
    BY <1>3, <1>5, <1>7, <1>8, <2>1 DEF Taken
<1>9. ASSUME NEW f \in ShownOf(p) \ n.touched PROVE n.draft[f] = r[f]
  <2>1. CASE f \in DOMAIN h.after
    <3>1. n.draft[f] = h.after[f]
      BY <1>5, <2>1 DEF With
    <3>2. PICK k \in DOMAIN h.bodies :
            f \in DOMAIN h.bodies[k] /\ h.bodies[k][f] = h.after[f]
      BY <1>2, <1>9, <2>1 DEF Good, Sets
    <3> QED
      BY <1>4, <1>9, <3>1, <3>2
  <2>2. CASE f \notin DOMAIN h.after
    <3>1. n.draft[f] = Taken(now.draft, j, h.adopts)[f]
      <4>1. DOMAIN Taken(now.draft, j, h.adopts) = FieldsOf(p)
        BY <1>7 DEF Taken
      <4> QED
        BY <1>5, <1>7, <1>9, <2>2, <4>1 DEF With
    <3>2. n.draft[f] = IF f \in h.adopts THEN r[f] ELSE now.draft[f]
      BY <1>3, <1>7, <1>9, <3>1 DEF Taken
    <3>3. CASE f \notin now.touched
      <4>1. now.draft[f] = r[f] \/ f \in h.adopts
        BY <1>1, <1>9, <2>2, <3>3 DEF JobHonest, DraftHonest
      <4> QED
        BY <3>2, <4>1
    <3>4. CASE f \in now.touched /\ f \notin h.adopts
      <4>1. f \in JustSaved(now, j)
        BY <1>5, <1>9, <2>2, <3>4
      <4>2. PICK k \in DOMAIN h.bodies :
              f \in DOMAIN h.bodies[k] /\ h.bodies[k][f] = now.draft[f]
        BY <1>3, <4>1 DEF JustSaved
      <4> QED
        BY <1>4, <1>9, <3>2, <3>4, <4>2
    <3> QED
      BY <3>2, <3>3, <3>4
  <2> QED
    BY <2>1, <2>2
<1>10. ASSUME n.notice = "killed" PROVE p = "automation" /\ Killed(r)
  <2>1. CASE h.says = ""
    <3>1. Killed(r)
      BY <1>1, <1>6, <1>10, <2>1 DEF JobHonest, WordHonest
    <3> QED
      BY <1>6, <1>10, <2>1, <3>1
  <2>2. CASE h.says # ""
    <3>1. /\ p = "automation"
          /\ \A c \in Destructive : \E k \in DOMAIN h.bodies :
               c \in DOMAIN h.bodies[k] /\ h.bodies[k][c] = 1
      BY <1>2, <1>6, <1>10, <2>2 DEF Good, Words
    <3>2. Destructive \subseteq ShownOf(p)
      BY <3>1, DestructiveShown
    <3> QED
      BY <1>4, <3>1, <3>2 DEF Killed
  <2> QED
    BY <2>1, <2>2
<1> QED
  BY <1>8, <1>9, <1>10 DEF RestHonest

(* And so does a handler one of whose requests failed, unless the API did   *)
(* what the page takes for failed: then the page is behind.                 *)
LEMMA DefeatHonest ==
  ASSUME NEW p \in Page, NEW now, NEW r, NEW j, JobHonest(p, now, r, j),
         now.notice = "killed" => p = "automation",
         DOMAIN now = TabField, IsDraft(p, now.draft), IsRecord(p, now.saved),
         NEW n, n = Fail(now, j), ~n.behind
  PROVE  RestHonest(p, n, r) /\ (n.notice = "killed" => p = "automation")
<1>1. PICK h : h = j.handler
  OBVIOUS
<1>2. PICK d : Good(p, h, d)
  BY <1>1 DEF JobHonest
<1>3. /\ j.copy = <<>>
      /\ h.fails = "" => n.notice = now.notice
      /\ h.fails # "" => n.notice = h.fails
  <2>1. n.behind <=> (now.behind \/ j.copy # <<>>)
    BY FailBehind
  <2>2. \/ j.handler.fails = "" /\ n.notice = now.notice
        \/ j.handler.fails # "" /\ n.notice = j.handler.fails
    BY FailNotice
  <2> QED
    BY <1>1, <2>1, <2>2
<1>4. /\ n.saved = Taken(now.saved, j, h.keeps) /\ n.touched = now.touched
      /\ n.draft \in {With(now.draft, j.prev), now.draft}
  BY <1>1, FailFields
<1>5. /\ DOMAIN now.draft = FieldsOf(p) /\ DOMAIN now.saved = FieldsOf(p)
      /\ Copied(p) \subseteq FieldsOf(p) /\ ShownOf(p) \subseteq FieldsOf(p)
  BY OpenedFields DEF IsRecord, IsDraft
<1>6. \A f \in Copied(p) : n.saved[f] = r[f]
  <2>1. DOMAIN <<>> = {}
    OBVIOUS
  <2>2. \A f \in Copied(p) : now.saved[f] = r[f]
    BY <1>3 DEF JobHonest, CopyHonest
  <2> QED
    BY <1>3, <1>4, <1>5, <2>1, <2>2 DEF Taken
<1>7. \A f \in ShownOf(p) \ n.touched : n.draft[f] = r[f]
  <2>1. \A f \in ShownOf(p) \ now.touched : now.draft[f] = r[f]
    BY <1>3 DEF JobHonest, DraftHonest
  <2>2. DOMAIN j.prev \subseteq now.touched
    BY DEF JobHonest
  <2> QED
    BY <1>4, <1>5, <2>1, <2>2 DEF With
<1>8. h.fails # "killed"
  BY <1>2 DEF Good, Words
<1>9. n.notice = "killed" => p = "automation" /\ Killed(r)
  BY <1>1, <1>3, <1>8 DEF JobHonest, WordHonest
<1> QED
  BY <1>6, <1>7, <1>9 DEF RestHonest

LEMMA HonestSettle ==
  ASSUME FormInv, TypedInv, HonestInv, NEW j \in jobs, Settle(j) PROVE HonestInv'
<1>0. Shaped /\ page \in Page
  BY FormAssumption DEF FormInv, TypedInv
<1>1. /\ page' = page /\ stored' = stored /\ j.watched
      /\ form' = [form EXCEPT ![j.tab] =
                    IF j.state = "ok" THEN Succeed(@, j) ELSE Fail(@, j)]
  BY DEF Settle
<1>2. PICK t, now, n : /\ t = j.tab /\ now = form[t]
                      /\ n = IF j.state = "ok" THEN Succeed(now, j) ELSE Fail(now, j)
  OBVIOUS
<1>3. t \in Tab /\ form'[t] = n /\ \A u \in Tab \ {t} : form'[u] = form[u]
  BY <1>0, <1>1, <1>2 DEF Shaped
<1>4. PICK rest : rest = Lasting((jobs \ {j}) \cup {Unwatch(j)})
  OBVIOUS
<1>5. /\ DOMAIN Unwatch(j) = JobField
      /\ Unwatch(j).tab = t /\ Unwatch(j).watched = FALSE
  BY <1>0, <1>2 DEF Unwatch, Shaped, JobField
<1>6. j \in Underway(t)
  BY <1>1, <1>2 DEF Underway
<1>7. /\ \A x \in rest : DOMAIN x = JobField /\ x.tab \in Tab
      /\ {x \in rest : x.tab = t /\ x.watched} = Underway(t) \ {j}
      /\ \A u \in Tab \ {t} : {x \in rest : x.tab = u /\ x.watched} = Underway(u)
  BY <1>0, <1>3, <1>4, <1>5, <1>6 DEF Lasting, Underway, Shaped
<1>8. jobs' = rest \/ jobs' = LeftBy(t, rest)
  BY <1>2, <1>4 DEF Settle
<1>9. n.open => jobs' = rest
  BY <1>2, <1>3, <1>4 DEF Settle
<1>10. /\ n.open => Underway(t)' = Underway(t) \ {j}
       /\ \A u \in Tab \ {t} : Underway(u)' = Underway(u)
  BY <1>3, <1>7, <1>8, <1>9, Left DEF Underway
<1>11. Honest(page, now, stored, Underway(t))
  BY <1>2, <1>3 DEF HonestInv
<1>12. /\ DOMAIN now = TabField /\ IsRecord(page, stored)
       /\ IsDraft(page, now.draft) /\ IsRecord(page, now.saved)
  BY <1>0, <1>2, <1>3 DEF Shaped, TypedInv, TabTyped
<1>13. ASSUME n.open, ~n.behind
       PROVE  Honest(page, n, stored, {}) /\ Underway(t)' = {}
  <2>1. now.open
    BY <1>0, <1>2, <1>3, <1>6 DEF FormInv, TabInv
  <2>2. ~now.behind
    <3>1. CASE j.state = "ok"
      BY <1>2, <1>12, <1>13, <3>1, SucceedFields
    <3>2. CASE j.state # "ok"
      BY <1>2, <1>12, <1>13, <3>2, FailBehind
    <3> QED
      BY <3>1, <3>2
  <2>3. JobHonest(page, now, stored, j)
    BY <1>6, <1>11, <2>1, <2>2, Zenon DEF Honest
  <2>4. now.notice = "killed" => page = "automation"
    BY <1>11, <2>1, <2>2, Zenon DEF Honest
  <2>5. Underway(t) = {j}
    BY <1>6, <1>11, <2>1, <2>2 DEF Honest
  <2>6. ASSUME j.state = "ok"
        PROVE  RestHonest(page, n, stored) /\ (n.notice = "killed" => page = "automation")
    BY <1>0, <1>2, <1>12, <1>13, <2>3, <2>4, <2>6, SuccessHonest
  <2>7. ASSUME j.state # "ok"
        PROVE  RestHonest(page, n, stored) /\ (n.notice = "killed" => page = "automation")
    BY <1>0, <1>2, <1>12, <1>13, <2>3, <2>4, <2>7, DefeatHonest
  <2> QED
    BY <1>10, <1>13, <2>5, <2>6, <2>7 DEF Honest
<1>14. Honest(page, n, stored, Underway(t)')
  BY <1>13 DEF Honest
<1> QED
  BY <1>1, <1>3, <1>10, <1>14 DEF HonestInv

-----------------------------------------------------------------------------
LEMMA HonestInvHolds == Spec => []HonestInv
<1>1. Init => HonestInv
  BY HonestInit
<1>2. FormInv /\ TypedInv /\ HonestInv /\ [Next]_vars => HonestInv'
  <2> SUFFICES ASSUME FormInv, TypedInv, HonestInv, [Next]_vars PROVE HonestInv'
    OBVIOUS
  <2>1. Shaped
    BY DEF FormInv
  <2>2. ASSUME NEW t \in Tab, Edit(t) \/ Press(t) \/ Leave(t) \/ Open(t) PROVE HonestInv'
    BY <2>1, <2>2, HonestEdit, HonestPress, HonestLeave, HonestOpen
  <2>3. ASSUME NEW j \in jobs, NEW k \in Ready(j), Serve(j, k) \/ Refuse(j, k)
        PROVE  HonestInv'
    BY <2>1, <2>3, HonestServe, HonestRefuse
  <2>4. ASSUME NEW j \in jobs, Settle(j) PROVE HonestInv'
    BY <2>4, HonestSettle
  <2>5. CASE UNCHANGED vars
    BY <2>5 DEF vars, HonestInv, Underway
  <2> QED
    BY <2>2, <2>3, <2>4, <2>5 DEF Next
<1> QED
  BY <1>1, <1>2, FormInvHolds, TypedInvHolds, PTL DEF Spec

(* A page at rest, none of whose requests was overtaken, lost or refused    *)
(* after it was done, shows what the API has wherever nothing was typed,    *)
(* and its copy is the record's, whether or not it says so.                 *)
AtRestRight == \A t \in Tab : AtRest(t) => RestHonest(page, form[t], stored)

THEOREM PagesAreRight == Spec => []AtRestRight
<1>1. HonestInv => AtRestRight
  BY DEF HonestInv, Honest, AtRest, AtRestRight
<1> QED
  BY <1>1, HonestInvHolds, PTL

(* So a page at rest that says "saved", "tested" or "kill switch on" tells  *)
(* the truth: what was typed before and is said to be saved is what the API *)
(* has, and every destructive class is denied, although the switch is       *)
(* several requests and one of them may fail.                               *)
THEOREM NoticesAreTrue == Spec => []NoticeIsTrue
<1>1. TypedInv /\ AtRestRight => NoticeIsTrue
  <2> SUFFICES ASSUME TypedInv, AtRestRight, NEW t \in Tab, AtRest(t)
               PROVE  /\ \A f \in Copied(page) : form[t].saved[f] = stored[f]
                      /\ \A f \in Shown(page) \ form[t].touched :
                           form[t].draft[f] = stored[f]
                      /\ form[t].notice = "killed" => \A c \in Destructive : stored[c] = 1
    BY DEF NoticeIsTrue
  <2>1. RestHonest(page, form[t], stored)
    BY DEF AtRestRight
  <2>2. Shown(page) = ShownOf(page)
    BY ShownIs, FormAssumption DEF TypedInv
  <2> QED
    BY <2>1, <2>2 DEF RestHonest, Killed
<1> QED
  BY <1>1, TypedInvHolds, PagesAreRight, PTL
=============================================================================
