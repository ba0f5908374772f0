---------------------------- MODULE ConsoleForms ----------------------------
(***************************************************************************)
(* Several browser tabs with the same page of the console open on the same *)
(* record.  Each has its draft and its copy; a button sends requests made  *)
(* from the draft as it was when pressed, the API serves them in any order *)
(* between tabs, and the replies come back in any order.  A request may be *)
(* refused, or served with its reply lost; either is a failure to the      *)
(* page.  A tab may be left and opened again: what it sent is still        *)
(* served, but nobody looks at the reply.                                  *)
(*                                                                         *)
(* The API's handlers have no await, so one request is one step.           *)
(***************************************************************************)
EXTENDS ConsolePages, FiniteSets, SequencesExt

CONSTANTS
  Tab,         \* browser tabs
  Opened,      \* the pages that may be open
  MaxPresses,  \* bounds on the buttons pressed,
  MaxEdits,    \* the inputs changed
  MaxOpens     \* and the times a tab is opened again

ASSUME FormAssumption ==
  /\ Opened \subseteq Page
  /\ MaxPresses \in Nat /\ MaxEdits \in Nat /\ MaxOpens \in Nat

VARIABLES
  page,     \* the page that is open
  stored,   \* its record, as the API has it
  form,     \* the state of the page in each tab
  jobs,     \* what buttons started and has not come to an end
  budget    \* what is left of the bounds

vars == <<page, stored, form, jobs, budget>>

Record == [FieldsOf(page) -> 0 .. MaxPresses + 2]

(* A tab's page.  Two of its fields are not in the code: touched are the    *)
(* inputs the analyst changed since they were last saved or replaced, and   *)
(* behind says that the record may have changed in a way the page could not *)
(* hear of, or that two of its own requests were under way at once.         *)
Loaded(r) ==
  [open |-> TRUE, busy |-> "", notice |-> "", touched |-> {}, behind |-> FALSE,
   draft |-> [f \in DOMAIN r |-> IF f \in PostField THEN 0 ELSE r[f]],
   saved |-> r]

TypeOK ==
  /\ page \in Opened
  /\ stored \in Record
  /\ \A t \in Tab :
       /\ form[t].open \in BOOLEAN /\ form[t].behind \in BOOLEAN
       /\ form[t].draft \in Record /\ form[t].saved \in Record
       /\ form[t].touched \subseteq FieldsOf(page)
  /\ \A j \in jobs :
       /\ j.tab \in Tab /\ j.n \in 1 .. MaxPresses
       /\ j.state \in {"out", "ok", "failed"}
       /\ \A k \in DOMAIN j.todo : DOMAIN j.todo[k] \subseteq FieldsOf(page)
       /\ j.watched \/ j.todo # <<>>

Init ==
  /\ page \in Opened
  /\ stored = [f \in FieldsOf(page) |-> 0]
  /\ form = [t \in Tab |-> Loaded(stored)]
  /\ jobs = {}
  /\ budget = [presses |-> MaxPresses, edits |-> MaxEdits, opens |-> MaxOpens]

Spend(what) == /\ budget[what] > 0
               /\ budget' = [budget EXCEPT ![what] = @ - 1]

Underway(t) == {j \in jobs : j.tab = t /\ j.watched}

(* A job nobody looks at any more lasts as long as its requests do.         *)
Unwatch(j) == [j EXCEPT !.watched = FALSE, !.copy = <<>>, !.sent = <<>>,
                        !.prev = <<>>]

Lasting(J) == {j \in J : j.watched \/ j.todo # <<>>}

LeftBy(t, J) == Lasting({IF j.tab = t THEN Unwatch(j) ELSE j : j \in J})

-----------------------------------------------------------------------------
(* What a request does to the record.                                       *)

Apply(r, body) ==
  LET Written(f) ==
        CASE f \in PostField \cup {"made"} -> r[f] + 1
          [] f = "tested"                  -> r["config"]
          [] page = "monitors" /\ f \in Rows ->
               IF body[f] = Gone THEN Gone ELSE 1 - r[f]
          [] OTHER                         -> body[f]
  IN  [f \in DOMAIN r |-> IF f \in DOMAIN body THEN Written(f) ELSE r[f]]

(* The API answers 404 for a record or a row that was deleted.              *)
Missing(r, body) ==
  \/ "gone" \in DOMAIN r /\ r["gone"] = 1 /\ "items" \notin DOMAIN body
  \/ \E f \in Rows \cap DOMAIN body : r[f] = Gone

-----------------------------------------------------------------------------
(* The analyst.                                                             *)

(* Inputs can be typed into while a request is out.                         *)
Edit(t) ==
  /\ form[t].open
  /\ Spend("edits")
  /\ \E f \in View(page, form[t].draft, form[t].saved).inputs :
       form' = [form EXCEPT ![t].draft[f] = 1 - @, ![t].touched = @ \cup {f}]
  /\ UNCHANGED <<page, stored, jobs>>

(* The handler of a button, up to its first await: the bodies are fixed by  *)
(* the draft of this moment.                                                *)
Press(t) ==
  LET now  == form[t]
      view == View(page, now.draft, now.saved)
  IN
  /\ now.open
  /\ Spend("presses")
  /\ \E b \in DOMAIN view.presses :
       /\ now.busy \in view.presses[b]
       /\ LET h == Handlers(page, now.draft, now.saved)[b] IN
          /\ form' = [form EXCEPT ![t] =
               [now EXCEPT !.busy   = h.busy,
                           !.notice = IF h.clears THEN "" ELSE @,
                           !.draft  = With(@, h.before),
                           !.touched = @ \cup DOMAIN h.before,
                           !.behind = @ \/ Underway(t) # {}]]
          /\ jobs' = jobs \cup
               {[n |-> MaxPresses - budget.presses + 1, tab |-> t, button |-> b,
                 handler |-> h, todo |-> h.bodies, sent |-> h.bodies,
                 prev |-> Only(now.draft, DOMAIN h.before),
                 state |-> "out", copy |-> <<>>, watched |-> TRUE]}
  /\ UNCHANGED <<page, stored>>

(* Another page in this tab, or the tab closed.                             *)
Leave(t) ==
  /\ form[t].open
  /\ Spend("opens")
  /\ form' = [form EXCEPT ![t] = [Loaded(stored) EXCEPT !.open = FALSE]]
  /\ jobs' = LeftBy(t, jobs)
  /\ UNCHANGED <<page, stored>>

Open(t) ==
  /\ ~form[t].open
  /\ form' = [form EXCEPT ![t] = Loaded(stored)]
  /\ UNCHANGED <<page, stored, jobs, budget>>

-----------------------------------------------------------------------------
(* The API.  Requests of one job go one after the other, unless they were   *)
(* sent together.                                                           *)

Ready(j) == IF j.handler.together THEN DOMAIN j.todo
            ELSE {k \in DOMAIN j.todo : k = 1}

Answer(j, k, r) ==
  LET rest == RemoveAt(j.todo, k)
  IN  [j EXCEPT !.todo = rest, !.copy = IF j.watched THEN r ELSE <<>>,
                !.state = IF @ = "out" /\ rest = <<>> THEN "ok" ELSE @]

(* The first failure ends the job for the page; of requests sent together   *)
(* the others are still on their way.                                       *)
Failure(j, k) ==
  [j EXCEPT !.todo = IF j.handler.together THEN RemoveAt(@, k) ELSE <<>>,
            !.state = "failed"]

Becomes(j, i) == jobs' = Lasting((jobs \ {j}) \cup {i})

(* The pages that do not hear of what job j has just changed.               *)
Unheard(j, lost) ==
  [t \in Tab |-> [form[t] EXCEPT
     !.behind = @ \/ (stored' # stored /\ (t # j.tab \/ ~j.watched \/ lost))]]

Serve(j, k) ==
  /\ ~Missing(stored, j.todo[k])
  /\ stored' = Apply(stored, j.todo[k])
  /\ \/ Becomes(j, Answer(j, k, stored')) /\ form' = Unheard(j, FALSE)
     \/ Becomes(j, Failure(j, k))         /\ form' = Unheard(j, TRUE)
  /\ UNCHANGED <<page, budget>>

Refuse(j, k) ==
  /\ Becomes(j, Failure(j, k))
  /\ UNCHANGED <<page, stored, form, budget>>

-----------------------------------------------------------------------------
(* The rest of the handler, once its await has come to an end.              *)

Taken(now, j, F) == [f \in DOMAIN now |-> IF f \in F \cap DOMAIN j.copy
                                          THEN j.copy[f] ELSE now[f]]

(* What the analyst has not changed since it was sent is saved now.         *)
JustSaved(now, j) ==
  {f \in now.touched : \E k \in DOMAIN j.sent :
     f \in DOMAIN j.sent[k] /\ j.sent[k][f] = now.draft[f]}

Succeed(now, j) ==
  LET h == j.handler IN
  [now EXCEPT
     !.open    = ~h.leaves,
     !.busy    = IF h.leaves THEN @ ELSE "",
     !.notice  = IF h.says = "" THEN @ ELSE h.says,
     !.saved   = Taken(@, j, h.takes),
     !.draft   = With(Taken(@, j, h.adopts), h.after),
     !.touched = ((@ \ JustSaved(now, j)) \ h.adopts) \ DOMAIN h.after]

(* mutant: a failure is reported but the page stays busy.                   *)
MF_Fail(now, j) ==
  LET h == j.handler IN
  [now EXCEPT
     !.notice = IF h.fails = "" THEN @ ELSE h.fails,
     !.saved  = Taken(@, j, h.keeps),
     !.behind = @ \/ j.copy # <<>>,
     !.draft  = IF h.undoes THEN With(@, j.prev) ELSE @]

Fail(now, j) ==
  LET h == j.handler IN
  [now EXCEPT
     !.busy   = "",
     !.notice = IF h.fails = "" THEN @ ELSE h.fails,
     !.saved  = Taken(@, j, h.keeps),
     !.behind = @ \/ j.copy # <<>>,     \* some of what it sent was served
     !.draft  = IF h.undoes THEN With(@, j.prev) ELSE @]

Settle(j) ==
  /\ j.state # "out"
  /\ j.watched
  /\ form' = [form EXCEPT ![j.tab] =
                IF j.state = "ok" THEN Succeed(@, j) ELSE Fail(@, j)]
  /\ LET rest == Lasting((jobs \ {j}) \cup {Unwatch(j)})
     IN  jobs' = IF form'[j.tab].open THEN rest ELSE LeftBy(j.tab, rest)
  /\ UNCHANGED <<page, stored, budget>>

Next ==
  \/ \E t \in Tab : Edit(t) \/ Press(t) \/ Leave(t) \/ Open(t)
  \/ \E j \in jobs :
       \/ \E k \in Ready(j) : Serve(j, k) \/ Refuse(j, k)
       \/ Settle(j)

Spec == Init /\ [][Next]_vars

-----------------------------------------------------------------------------
(* Where every button is off while the page is busy, a page has one request *)
(* under way at most, and is busy as long as it has: a second press cannot  *)
(* overtake the first.  (The rule editor's Ctrl-Enter, the preference       *)
(* toggles, the autonomy modes and the row buttons are not so guarded.)     *)
Guarded == {"incident", "case", "detection", "connector", "source", "picker",
            "cases", "assets", "reports"}

OneRequestPerPage ==
  page \in Guarded =>
    \A t \in Tab : /\ \A i, j \in Underway(t) : i = j
                   /\ Underway(t) # {} => form[t].busy # ""

(* A page at rest that says it has saved, deployed or tested, and has not   *)
(* missed a change of the record, tells the truth: its copy is the record   *)
(* the API has, and so is every input the analyst has not changed since.    *)
(* "Kill-switch engaged - all destructive actions denied" is on the page    *)
(* only if every destructive class is denied, although the requests are     *)
(* independent and some may fail.                                           *)
AtRest(t) == form[t].open /\ Underway(t) = {} /\ ~form[t].behind

Copied(p) == CASE p = "settings"     -> {"org", "digest", "weekly"}
               [] p = "connector"    -> {"made", "tested"}
               [] p = "source"       -> {"tested"}
               [] p = "automation"   -> {}
               [] p = "rule"         -> {"text", "enabled"}
               [] p = "incident"     -> {"status", "assignee"}
               [] OTHER              -> FieldsOf(p)

Shown(p) == CASE p \in {"settings", "automation"} -> FieldsOf(p)
              [] OTHER -> View(p, stored, stored).inputs \ PostField

NoticeIsTrue ==
  \A t \in Tab :
    AtRest(t) /\ form[t].notice \in {"saved", "tested", "killed"} =>
      /\ \A f \in Copied(page) : form[t].saved[f] = stored[f]
      /\ \A f \in Shown(page) \ form[t].touched : form[t].draft[f] = stored[f]
      /\ form[t].notice = "killed" => \A c \in Destructive : stored[c] = 1

(* What one analyst presses in one tab changes that field, class or row and *)
(* no other: a stale copy of the rest of the record is never written back.  *)
(* (The rule, detection and connection forms and the preferences send more  *)
(* than what was changed.)                                                  *)
Meant(j) == CASE j.button = "assign"            -> {"assignee"}
              [] j.button = "comment"           -> {"comments"}
              [] j.button = "escalate"          -> {"cases"}
              [] j.button = "kill"              -> Destructive
              [] j.button = "import"            -> {"items"}
              [] j.button \in {"approve", "deny"} -> {"verdict"}
              [] j.button \in {"use1", "drop1"} -> {"row1"}
              [] j.button \in {"use2", "drop2"} -> {"row2"}
              [] OTHER                          -> {j.button}

NothingElseChanges ==
  [][(page \in {"incident", "case", "automation", "monitors", "integrations",
                 "rules"} /\ stored' # stored) =>
     (\E j \in jobs \ jobs' :
        {f \in FieldsOf(page) : stored'[f] # stored[f]} \subseteq Meant(j))]_vars

(* A page spins, its buttons off, only as long as something it started is   *)
(* under way whose end will stop it: however it ends, no page is left       *)
(* spinning for good.                                                       *)
NeverStuck ==
  \A t \in Tab : form[t].open /\ form[t].busy # "" => Underway(t) # {}
=============================================================================
