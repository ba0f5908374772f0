----------------------------- MODULE WebSession -----------------------------
(***************************************************************************)
(* Tabs of one browser, signing in and out, opening pages, switching        *)
(* between workspaces and onboarding new ones.  The tabs share the cookies   *)
(* and the tokens kept in local storage; each shows what was rendered for    *)
(* it when it was.  A full load passes the middleware, then the layout of    *)
(* the app, which asks the API who is there; following a link keeps the      *)
(* layout.  Calls to the API or to the switch route may fail, replies be     *)
(* lost, the session lapse and a workspace's token expire.                   *)
(***************************************************************************)
EXTENDS WebRouting, Naturals

CONSTANTS
  Tab,
  Home,         \* the workspace of a user's own token, if it has one
  Url,          \* addresses of a cluster
  Bounds        \* how many pages are asked for, switches started, inputs of a
                \* wizard changed, wizards, tests and provisionings started,
                \* and how often something fails, lapses or expires

ASSUME SessionAssumption ==
  /\ Home \in Workspace
  /\ None \notin Tab \cup Url
  /\ Bounds \subseteq [{"visits", "switches", "edits", "tries", "faults"} -> Nat]

VARIABLES
  browser,  \* session, cookie, kept tokens
  made,     \* the workspaces in the directory
  expired,  \* the tokens of workspaces that have expired
  tab,      \* what each tab shows or is loading
  wizard,   \* the onboarding wizard that is open, if one is
  calls,    \* calls of pages that have not come to an end
  budget    \* what is left of the bounds

vars == <<browser, made, expired, tab, wizard, calls, budget>>

OrNone(S) == S \cup {None}

(* Four fields of a tab are not in the code: behind says that the browser   *)
(* became somebody else after the layout was rendered, meant is what the    *)
(* button of the last switch that was taken had promised to open, wanted    *)
(* the page its user asked for, and lost says that the code forgot that.    *)
TypeOK ==
  /\ browser \in Browser
  /\ made \subseteq Workspace /\ expired \subseteq made
  /\ browser.kept \subseteq made /\ browser.cookie \in OrNone(made)
  /\ \A t \in Tab :
       /\ tab[t].at \in Path /\ tab[t].next \in OrNone(Path)
       /\ tab[t].phase \in {"asked", "passed", "shown"}
       /\ tab[t].header \in OrNone(made) /\ tab[t].content \in OrNone(made)
       /\ tab[t].header # None => InApp(tab[t].at) \/ tab[t].phase # "shown"
       /\ tab[t].who \in OrNone(made)
  /\ wizard.tab \in OrNone(Tab) /\ wizard.step \in 0 .. 2
  /\ wizard.step = 2 => wizard.result \in made
  /\ \A c \in calls : c.tab \in OrNone(Tab)

Shut == [tab |-> None, first |-> FALSE, step |-> 0, conf |-> <<None, 0>>,
         health |-> "", testing |-> FALSE, creating |-> FALSE, result |-> None,
         tested |-> None, sound |-> TRUE, count |-> 0, failures |-> 0]

Init ==
  /\ browser \in {b \in Browser :
       /\ ~b.session /\ b.cookie = None /\ b.kept = {}
       /\ b.home = Home \/ (b.home = None /\ b.mode # "dev")}
  /\ made = {browser.home} \ {None}
  /\ expired = {}
  /\ tab = [t \in Tab |->
       [at |-> "login", phase |-> "shown", next |-> None,
        header |-> None, content |-> None, who |-> None, busy |-> None,
        opening |-> None, behind |-> FALSE, meant |-> {}, wanted |-> "dashboard",
        lost |-> FALSE]]
  /\ wizard = Shut
  /\ calls = {}
  /\ budget \in Bounds

Spend(what) == /\ budget[what] > 0
               /\ budget' = [budget EXCEPT ![what] = @ - 1]

Shown(t) == tab[t].phase = "shown"

-----------------------------------------------------------------------------
(* Going somewhere.                                                         *)

Heading(r, p) ==
  [r EXCEPT !.at = p, !.phase = "asked", !.next = None, !.who = None,
            !.busy = None, !.opening = None, !.wanted = p, !.lost = FALSE]

(* With a full load the layout is gone at once.                             *)
Loading(r, p) == [Heading(r, p) EXCEPT !.header = None, !.content = None]

(* The wizard's component is gone; what it started runs on as long as the   *)
(* page does, and a call that is out is still served after that.            *)
Unmounted(t) == IF wizard.tab = t THEN Shut ELSE wizard

Unmount(t, on, C) ==
  {IF c.tab = t THEN [c EXCEPT !.mounted = FALSE, !.tab = on] ELSE c :
     c \in {d \in C : d.tab # t \/ d.kind # "test"}}

(* What stays of where the tab was to go.                                   *)
StillTo(r, old) == [r EXCEPT !.wanted = old.wanted, !.lost = old.lost]

(* Who asks for the login wants the dashboard.                              *)
Asked(r, p) ==
  [Loading(r, p) EXCEPT !.wanted = IF p = "login" THEN "dashboard" ELSE p]

(* A full load: an address, a reload, an assignment to location.            *)
Load(t, r, C) ==
  /\ tab' = [tab EXCEPT ![t] = r]
  /\ wizard' = Unmounted(t)
  /\ calls' = Unmount(t, None, C)

Visit(t) ==
  /\ Spend("visits")
  /\ \E p \in Path : Load(t, Asked(tab[t], p), calls)
  /\ UNCHANGED <<browser, made, expired>>

(* The same page again.                                                     *)
Again(r) == [StillTo(Loading(r, r.at), r) EXCEPT !.next = r.next]

Reload(t) ==
  /\ Spend("visits")
  /\ Load(t, Again(tab[t]), calls)
  /\ UNCHANGED <<browser, made, expired>>

(* A link within the app.                                                   *)
Follow(t) ==
  /\ Shown(t) /\ InApp(tab[t].at) /\ wizard.tab # t
  /\ Spend("visits")
  /\ \E p \in {q \in Path : InApp(q)} :
       tab' = [tab EXCEPT ![t] = Heading(@, p)]
  /\ UNCHANGED <<browser, made, expired, wizard, calls>>

(* The middleware.  Sent on from the login, a tab has lost the page it was  *)
(* to go to.                                                                *)
Route(t) ==
  LET now == tab[t]
      to  == Middleware(browser, now.at)
  IN
  /\ now.phase = "asked"
  /\ \/ /\ to.at # now.at
        /\ tab' = [tab EXCEPT ![t] =
             [now EXCEPT !.at = to.at, !.next = to.next,
                         !.lost = @ \/ now.at = "login"]]
     \/ /\ to.at = now.at /\ InApp(now.at)
        /\ tab' = [tab EXCEPT ![t] = [now EXCEPT !.phase = "passed"]]
     \/ /\ to.at = now.at /\ ~InApp(now.at)
        /\ tab' = [tab EXCEPT ![t] = [now EXCEPT !.phase = "shown",
                                                !.header = None,
                                                !.content = None]]
  /\ UNCHANGED <<browser, made, expired, wizard, calls, budget>>

(* What the API answers to a read by the server; a failure is swallowed.    *)
Answer(who) ==
  LET token == AuthHeaders(browser) IN
  \/ who = TenantOf(token, browser.home, expired) /\ UNCHANGED budget
  \/ who = None /\ Spend("faults")

(* (app)/layout.tsx, unless it is there already, and the page.              *)
Layout(r, who) ==
  IF who = None THEN StillTo(Heading(r, "onboarding"), r)
  ELSE [r EXCEPT !.phase = "shown", !.header = who, !.content = who,
                 !.behind = FALSE]

Render(t) ==
  /\ tab[t].phase = "passed"
  /\ \E who \in OrNone(made) :
       /\ Answer(who)
       /\ tab' = [tab EXCEPT ![t] =
            IF @.header = None THEN Layout(@, who)
            ELSE [@ EXCEPT !.phase = "shown", !.content = who]]
  /\ UNCHANGED <<browser, made, expired, wizard, calls>>

-----------------------------------------------------------------------------
(* The session.                                                             *)

(* The form goes where the analyst was headed.                              *)
SignIn(t) ==
  /\ tab[t].at = "login" /\ Shown(t)
  /\ browser' = SignedIn(browser)
  /\ LET p == IF tab[t].next = None THEN "dashboard" ELSE tab[t].next
     IN  tab' = [tab EXCEPT ![t] = StillTo(Heading(@, p), @)]
  /\ UNCHANGED <<made, expired, wizard, calls, budget>>

SignUp(t) ==
  /\ tab[t].at = "login" /\ Shown(t)
  /\ browser.mode = "supabase" /\ browser.home = None
  /\ browser' = SignedIn(browser)
  /\ tab' = [tab EXCEPT ![t] = Heading(@, "onboarding")]
  /\ UNCHANGED <<made, expired, wizard, calls, budget>>

(* A link from a mail: of the magic sort, or one that confirms a new        *)
(* account.  The code in it may be refused, and the login is not told where *)
(* the link led.                                                            *)
Callback(t) ==
  /\ browser.mode = "supabase"
  /\ Spend("visits")
  /\ \E p \in {"dashboard", "onboarding"} :
       /\ p = "onboarding" => browser.home = None
       /\ \/ /\ Load(t, Asked(tab[t], p), calls)
             /\ browser' = SignedIn(browser)
          \/ /\ Load(t, [Loading(tab[t], "login") EXCEPT !.wanted = p, !.lost = TRUE],
                     calls)
             /\ UNCHANGED browser
  /\ UNCHANGED <<made, expired>>

(* The cookie of a workspace and the kept tokens stay.                      *)
SignOut(t) ==
  /\ Spend("visits")
  /\ browser' = SignedOut(browser)
  /\ Load(t, Asked(tab[t], "login"), calls)
  /\ UNCHANGED <<made, expired>>

Lapse ==
  /\ browser.session
  /\ Spend("faults")
  /\ browser' = SignedOut(browser)
  /\ UNCHANGED <<made, expired, tab, wizard, calls>>

(* A token is valid for seven days from its minting, the cookie for seven   *)
(* days from the switch: the token expires first.                           *)
Expire ==
  /\ Spend("faults")
  /\ \E w \in made \ (expired \cup {browser.home}) : expired' = expired \cup {w}
  /\ UNCHANGED <<browser, made, tab, wizard, calls>>

CookieGone ==
  /\ browser.cookie \in expired
  /\ browser' = [browser EXCEPT !.cookie = None]
  /\ tab' = [t \in Tab |-> [tab[t] EXCEPT !.behind = TRUE, !.meant = {}]]
  /\ UNCHANGED <<made, expired, wizard, calls, budget>>

-----------------------------------------------------------------------------
(* Switching.                                                               *)

(* The drawer asks who is there and lists every workspace, or nothing if    *)
(* either call fails.                                                       *)
Reached == IF CallPasses(browser)
           THEN TenantOf(Bearer(browser), browser.home, expired) ELSE None

OpenDrawer(t) ==
  /\ Shown(t) /\ InApp(tab[t].at) /\ tab[t].who = None
  /\ Reached # None
  /\ tab' = [tab EXCEPT ![t].who = Reached]
  /\ UNCHANGED <<browser, made, expired, wizard, calls, budget>>

(* says is what the button promised to open: nothing the code knows of.     *)
Call(kind, t, what, go, says) ==
  [kind |-> kind, tab |-> t, what |-> what, go |-> go, says |-> says,
   mounted |-> TRUE, conf |-> wizard.conf, first |-> wizard.first]

(* What a button on the row of w promises.  In the drawer a row says Open   *)
(* if the token of its workspace is kept, Default if it is not or was not   *)
(* when the row was rendered.  On the integrations page a row says Open,    *)
(* but its comment has it that this resets to the default workspace.        *)
Promise(button, w) ==
  CASE button = "open"    -> {w}
    [] button = "default" -> {browser.home} \cup ({w} \cap browser.kept)
    [] OTHER              -> {browser.home}

(* Every other workspace has a button; only the one that is being opened is *)
(* off.                                                                     *)
Offers(t, w) ==
  /\ Shown(t) /\ tab[t].who \notin {None, w} /\ w \in made
  /\ tab[t].busy # w

SwitchTo(t, w, label) ==
  /\ Offers(t, w)
  /\ label = "open" => w \in browser.kept
  /\ Spend("switches")
  /\ tab' = [tab EXCEPT ![t].busy = w]
  /\ calls' = calls \cup {Call("switch", t, IF w \in browser.kept THEN w ELSE Own,
                              "dashboard", Promise(label, w))}
  /\ UNCHANGED <<browser, made, expired, wizard>>

(* The rows of the integrations page, but for that of the workspace the     *)
(* page was rendered for: the token is not looked for.                      *)
OpenRow(t, w) ==
  /\ Shown(t) /\ tab[t].at = "other" /\ w \in made
  /\ w \notin {tab[t].content, tab[t].opening}
  /\ Spend("switches")
  /\ tab' = [tab EXCEPT ![t].opening = w]
  /\ calls' = calls \cup {Call("switch", t, Own, "here", Promise("row", w))}
  /\ UNCHANGED <<browser, made, expired, wizard>>

(* The drawer's return to the default workspace; the integrations page has  *)
(* another one if it has a workspace to return from.                        *)
ToDefault(t) ==
  /\ Shown(t) /\ InApp(tab[t].at)
  /\ Spend("switches")
  /\ \E go \in {"dashboard", "here"} :
       /\ go = "here" => tab[t].at = "other" /\ \E w \in made : w # tab[t].content
       /\ calls' = calls \cup {Call("switch", t, Own, go, Promise("return", None))}
  /\ UNCHANGED <<browser, made, expired, tab, wizard>>

Effective(to) == CallPasses(browser) /\ browser' = Switched(browser, to)

Ineffective == ~CallPasses(browser) /\ UNCHANGED browser

(* The cookie is every tab's: the others now show somebody else.            *)
Elsewhere(u) == IF browser' = browser THEN tab[u]
                ELSE [tab[u] EXCEPT !.behind = TRUE, !.meant = {}]

(* Whether the answer is a success is not looked at: the page is loaded     *)
(* anew, or the dashboard.                                                  *)
Switch(c) ==
  /\ c.kind = "switch" /\ c.tab # None
  /\ Effective(c.what) \/ Ineffective
  /\ LET now  == tab[c.tab]
         page == IF c.go = "here" THEN Again(now) ELSE Loading(now, "dashboard")
         here == [page EXCEPT !.meant = IF CallPasses(browser) THEN c.says ELSE {}]
     IN  tab' = [u \in Tab |-> IF u = c.tab THEN here ELSE Elsewhere(u)]
  /\ wizard' = Unmounted(c.tab)
  /\ calls' = Unmount(c.tab, None, calls \ {c})
  /\ UNCHANGED <<made, expired, budget>>

(* The call itself fails: nothing more happens, the button stays off.       *)
SwitchFails(c) ==
  /\ c.kind = "switch" /\ c.tab # None
  /\ Spend("faults")
  /\ calls' = calls \ {c}
  /\ UNCHANGED <<browser, made, expired, tab, wizard>>

(* The page is gone, and the cookie may be set all the same.                *)
LateSwitch(c) ==
  /\ c.kind \in {"switch", "activate"} /\ c.tab = None
  /\ Effective(c.what) \/ UNCHANGED browser
  /\ tab' = [u \in Tab |-> Elsewhere(u)]
  /\ calls' = calls \ {c}
  /\ UNCHANGED <<made, expired, wizard, budget>>

-----------------------------------------------------------------------------
(* The onboarding wizard.  sound says that no input changed while a test    *)
(* was under way and no credential after it; tested is what the last good    *)
(* test was about.                                                          *)

OpenWizard(t) ==
  /\ Shown(t) /\ tab[t].at # "login"
  /\ wizard.tab = None
  /\ Spend("tries")
  /\ wizard' = [Shut EXCEPT !.tab = t, !.first = tab[t].at = "onboarding"]
  /\ UNCHANGED <<browser, made, expired, tab, calls>>

(* Closing the first-run wizard leads into the app.                         *)
CloseWizard ==
  LET t == wizard.tab IN
  /\ t # None
  /\ wizard' = Shut
  /\ calls' = Unmount(t, t, calls)
  /\ tab' = IF wizard.first
            THEN [tab EXCEPT ![t] = Heading(@, "dashboard")]
            ELSE tab
  /\ UNCHANGED <<browser, made, expired, budget>>

Turn ==
  /\ wizard.tab # None /\ wizard.step < 2
  /\ wizard' = [wizard EXCEPT !.step = 1 - @]
  /\ UNCHANGED <<browser, made, expired, tab, calls, budget>>

TypeUrl ==
  /\ wizard.step = 1
  /\ Spend("edits")
  /\ \E u \in Url \ {wizard.conf[1]} :
       wizard' = [wizard EXCEPT !.conf[1] = u, !.health = "",
                                !.sound = @ /\ ~wizard.testing]
  /\ UNCHANGED <<browser, made, expired, tab, calls>>

TypeCredentials ==
  /\ wizard.step = 1
  /\ Spend("edits")
  /\ wizard' = [wizard EXCEPT !.conf[2] = 1 - @,
                              !.sound = @ /\ ~wizard.testing
                                          /\ wizard.health # "ok"]
  /\ UNCHANGED <<browser, made, expired, tab, calls>>

Test ==
  /\ wizard.step = 1 /\ ~wizard.testing /\ wizard.conf[1] # None
  /\ Spend("tries")
  /\ wizard' = [wizard EXCEPT !.testing = TRUE, !.health = "", !.sound = TRUE]
  /\ calls' = calls \cup {Call("test", wizard.tab, None, "", {})}
  /\ UNCHANGED <<browser, made, expired, tab>>

(* The cluster may be reachable or not; the call needs a user.              *)
Tested(c) ==
  /\ c.kind = "test"
  /\ \E h \in {"ok", "bad"} :
       /\ h = "ok" => CallPasses(browser) /\ IsUser(Bearer(browser), expired)
       /\ wizard' = [wizard EXCEPT !.testing = FALSE, !.health = h,
                        !.tested = IF h = "ok" THEN c.conf ELSE @]
  /\ calls' = calls \ {c}
  /\ UNCHANGED <<browser, made, expired, tab, budget>>

(* mutant: the button is not off while a workspace is being provisioned.    *)
MF_ProvisionTwice ==
  /\ wizard.step = 1 /\ wizard.health = "ok"
  /\ Spend("tries")
  /\ wizard' = [wizard EXCEPT !.creating = TRUE]
  /\ calls' = calls \cup {Call("create", wizard.tab, None, "", {})}
  /\ UNCHANGED <<browser, made, expired, tab>>

Provision ==
  /\ wizard.step = 1 /\ wizard.health = "ok" /\ ~wizard.creating
  /\ Spend("tries")
  /\ wizard' = [wizard EXCEPT !.creating = TRUE]
  /\ calls' = calls \cup {Call("create", wizard.tab, None, "", {})}
  /\ UNCHANGED <<browser, made, expired, tab>>

(* tenants.py: bootstrap takes any user, POST /tenants one with a workspace. *)
MayProvision(c) ==
  /\ CallPasses(browser)
  /\ IF c.first THEN IsUser(Bearer(browser), expired)
     ELSE TenantOf(Bearer(browser), browser.home, expired) # None

Fresh == CHOOSE w \in Workspace \ made : TRUE

Counted(c) == IF c.mounted THEN [wizard EXCEPT !.count = @ + 1] ELSE wizard

(* mutant: the reply goes out before the workspace is stored.               *)
MF_RepliesFirst(c) ==
  /\ c.kind = "create"
  /\ MayProvision(c)
  /\ made # Workspace
  /\ c.tab # None
  /\ wizard' = Counted(c)
  /\ calls' = (calls \ {c}) \cup {[c EXCEPT !.kind = "made", !.what = Fresh]}
  /\ UNCHANGED <<browser, made, expired, tab, budget>>

Created(c) ==
  /\ c.kind = "create"
  /\ MayProvision(c)
  /\ made # Workspace
  /\ LET w == Fresh IN
       /\ made' = made \cup {w}
       /\ wizard' = Counted(c)
       /\ \/ calls' = (calls \ {c}) \cup
                (IF c.tab = None THEN {} ELSE {[c EXCEPT !.kind = "made", !.what = w]})
             /\ UNCHANGED budget
          \/ c.tab # None /\ Spend("faults")
             /\ calls' = (calls \ {c}) \cup {[c EXCEPT !.kind = "failed"]}
  /\ UNCHANGED <<browser, expired, tab>>

Refused(c) ==
  /\ c.kind = "create"
  /\ IF MayProvision(c) THEN Spend("faults") ELSE UNCHANGED budget
  /\ calls' = (calls \ {c}) \cup
       (IF c.tab = None THEN {} ELSE {[c EXCEPT !.kind = "failed"]})
  /\ UNCHANGED <<browser, made, expired, tab, wizard>>

Live(w) == [wizard EXCEPT !.step = 2, !.result = w, !.creating = FALSE]

(* The token is kept, unless the storage is full or barred, which is        *)
(* swallowed, and the first workspace opened at once; the wizard need not   *)
(* be there any more.                                                       *)
Keep(c) ==
  /\ c.kind = "made" /\ c.tab # None
  /\ \/ browser' = [browser EXCEPT !.kept = @ \cup {c.what}] /\ UNCHANGED budget
     \/ UNCHANGED browser /\ Spend("faults")
  /\ IF c.first
     THEN /\ calls' = (calls \ {c}) \cup {[c EXCEPT !.kind = "activate"]}
          /\ UNCHANGED wizard
     ELSE /\ calls' = calls \ {c}
          /\ wizard' = IF c.mounted THEN Live(c.what) ELSE wizard
  /\ UNCHANGED <<made, expired, tab>>

Activate(c) ==
  /\ c.kind = "activate" /\ c.tab # None
  /\ Effective(c.what) \/ Ineffective
  /\ tab' = [u \in Tab |->
       IF u = c.tab /\ c.mounted
       THEN [tab[u] EXCEPT !.meant = IF CallPasses(browser) THEN {c.what} ELSE @]
       ELSE Elsewhere(u)]
  /\ wizard' = IF c.mounted THEN Live(c.what) ELSE wizard
  /\ calls' = calls \ {c}
  /\ UNCHANGED <<made, expired, budget>>

(* Whatever failed, the wizard says that onboarding failed.                 *)
Apologise(c) ==
  /\ \/ c.kind = "failed" /\ UNCHANGED budget
     \/ c.kind = "activate" /\ c.tab # None /\ Spend("faults")
  /\ calls' = calls \ {c}
  /\ wizard' = IF c.mounted
               THEN [wizard EXCEPT !.creating = FALSE, !.failures = @ + 1]
               ELSE wizard
  /\ UNCHANGED <<browser, made, expired, tab>>

SwitchIn ==
  /\ wizard.step = 2
  /\ Spend("switches")
  /\ calls' = calls \cup {Call("switch", wizard.tab, wizard.result, "dashboard",
                              {wizard.result})}
  /\ UNCHANGED <<browser, made, expired, tab, wizard>>

-----------------------------------------------------------------------------
Next ==
  \/ \E t \in Tab :
       \/ Visit(t) \/ Reload(t) \/ Follow(t) \/ Route(t) \/ Render(t)
       \/ SignIn(t) \/ SignUp(t) \/ Callback(t) \/ SignOut(t)
       \/ OpenDrawer(t) \/ ToDefault(t) \/ OpenWizard(t)
       \/ \E w \in Workspace :
            \/ \E label \in {"open", "default"} : SwitchTo(t, w, label)
            \/ OpenRow(t, w)
  \/ Lapse \/ Expire \/ CookieGone
  \/ CloseWizard \/ Turn \/ TypeUrl \/ TypeCredentials \/ Test \/ Provision
  \/ SwitchIn
  \/ \E c \in calls :
       \/ Switch(c) \/ SwitchFails(c) \/ LateSwitch(c) \/ Tested(c)
       \/ Created(c) \/ Refused(c) \/ Keep(c) \/ Activate(c) \/ Apologise(c)

(* The server answers a page load.                                          *)
Fairness == \A t \in Tab : WF_vars(Route(t)) /\ WF_vars(Render(t))

Spec == Init /\ [][Next]_vars /\ Fairness

-----------------------------------------------------------------------------
(* A page acts where it shows: unless the cookie has changed since its       *)
(* layout was rendered, what it sends is served for the workspace in its     *)
(* header, or for none, and so was what it displays.                        *)
ActsWhereShown ==
  \A t \in Tab : Shown(t) /\ InApp(tab[t].at) /\ ~tab[t].behind =>
                  {Reached, tab[t].content} \subseteq {tab[t].header, None}

(* A tab whose last switch was taken, and that shows the app, shows what    *)
(* the button had promised, if the cookie was not changed since: however    *)
(* calls cross or come late, a row of the drawer that said Open opened its  *)
(* workspace, one that said Default or a return the default one.  The rows  *)
(* of the integrations page, which say Open, are held to their comment      *)
(* only: they return to the default workspace, whatever the row.            *)
OpensWhatItSays ==
  \A t \in Tab :
    Shown(t) /\ InApp(tab[t].at) /\ ~tab[t].behind /\ tab[t].meant # {} =>
      tab[t].header \in tab[t].meant

(* However many redirects and sign-ins are between, a tab ends where its    *)
(* user asked to go, at the login, or in onboarding; only one that met the  *)
(* middleware at the login when its browser was signed in elsewhere, or     *)
(* whose mailed link was refused, may end on the dashboard instead.         *)
GoesWhereAsked ==
  \A t \in Tab :
    Shown(t) => \/ tab[t].at \in {tab[t].wanted, "login", "onboarding"}
                \/ tab[t].lost /\ tab[t].at = "dashboard"

(* Every page that is asked for comes to be shown: the redirects of the     *)
(* middleware and of the layout never lead in a circle.                     *)
RedirectsEnd == \A t \in Tab : ~Shown(t) ~> Shown(t)

(* A wizard provisions one workspace at most, and one more for every time   *)
(* it was told that it had failed; and what it provisions is what a test    *)
(* has found reachable, if no input was changed under the test and no       *)
(* credential after it.                                                     *)
ProvisionsOnceAsTested ==
  /\ wizard.count <= 1 + wizard.failures
  /\ wizard.health = "ok" /\ wizard.sound => wizard.conf = wizard.tested
=============================================================================
