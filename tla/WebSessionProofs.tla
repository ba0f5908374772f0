-------------------------- MODULE WebSessionProofs --------------------------
(***************************************************************************)
(* Proofs about WebSession, for any number of tabs and workspaces, any     *)
(* failures, and without bounds on what is done: a page acts for the       *)
(* workspace it shows, switches open what they say, tabs go where asked,   *)
(* and a wizard provisions once, and as tested.                            *)
(***************************************************************************)
EXTENDS WebSession, TLAPS

(* Whose a browser is: of the workspace in its cookie, or its user's own.   *)
Named(b) == IF b.cookie # None THEN b.cookie ELSE b.home

BrowserField == {"mode", "home", "session", "cookie", "kept"}

TabField == {"at", "phase", "next", "header", "content", "who", "busy",
             "opening", "behind", "meant", "wanted", "lost"}

WizardField == {"tab", "first", "step", "conf", "health", "testing", "creating",
                "result", "tested", "sound", "count", "failures"}

CallField == {"kind", "tab", "what", "go", "says", "mounted", "conf", "first"}

CallShape(c) ==
  DOMAIN c = CallField /\ c.tab \in Tab \cup {None} /\ (c.kind = "activate" => c.first)

Shaped ==
  /\ DOMAIN browser = BrowserField /\ browser.cookie # Own
  /\ DOMAIN tab = Tab /\ \A t \in Tab : DOMAIN tab[t] = TabField
  /\ DOMAIN wizard = WizardField /\ wizard.tab \in Tab \cup {None}
  /\ \A c \in calls : CallShape(c)

(* A layout that was rendered for this browser says whose it is, in all of  *)
(* the app there is one, and what is displayed in it is its workspace's.    *)
TabInv(t) ==
  /\ ~tab[t].behind /\ tab[t].header # None => tab[t].header = Named(browser)
  /\ Shown(t) /\ InApp(tab[t].at) =>
       /\ tab[t].header # None
       /\ ~tab[t].behind => tab[t].content \in {tab[t].header, None}
  /\ Shown(t) /\ ~InApp(tab[t].at) => tab[t].header = None
  /\ tab[t].phase = "passed" => InApp(tab[t].at)

(* The first-run wizard is open outside of the app.                         *)
WizardInv ==
  wizard.tab # None =>
    /\ Shown(wizard.tab) /\ tab[wizard.tab].at # "login"
    /\ wizard.first => tab[wizard.tab].header = None

(* What a wizard that is still there has started comes back to it.          *)
CallInv ==
  \A c \in calls :
    /\ c.kind \in {"create", "made", "activate"}
    /\ c.mounted /\ c.first /\ c.tab # None
    => wizard.tab = c.tab /\ wizard.first

SessionInv ==
  Shaped /\ (\A t \in Tab : TabInv(t)) /\ WizardInv /\ CallInv

-----------------------------------------------------------------------------
(* A token speaks for the workspace of the browser it is taken from, or for *)
(* none: the server's reads and the proxied calls alike.                    *)
LEMMA TokenIsNamed ==
  ASSUME NEW b, NEW gone, b.cookie # Own
  PROVE  /\ TenantOf(AuthHeaders(b), b.home, gone) \in {Named(b), None}
         /\ TenantOf(Bearer(b), b.home, gone) \in {Named(b), None}
  BY DEF TenantOf, AuthHeaders, Bearer, Fallback, IsUser, Named

(* Signing in and out do not change whose the browser is.                   *)
LEMMA SameName ==
  ASSUME NEW b, DOMAIN b = BrowserField,
         NEW c \in {SignedIn(b), SignedOut(b), b}
  PROVE  DOMAIN c = BrowserField /\ c.cookie = b.cookie /\ Named(c) = Named(b)
  BY DEF SignedIn, SignedOut, Named, BrowserField

LEMMA SwitchedShape ==
  ASSUME NEW b, DOMAIN b = BrowserField, b.cookie # Own, NEW to
  PROVE  DOMAIN Switched(b, to) = BrowserField /\ Switched(b, to).cookie # Own
  BY RoutingAssumption DEF Switched, BrowserField

(* A full load forgets the layout.                                          *)
LEMMA LoadingShape ==
  ASSUME NEW r, DOMAIN r = TabField, NEW p
  PROVE  /\ DOMAIN Loading(r, p) = TabField /\ DOMAIN Heading(r, p) = TabField
         /\ Loading(r, p).phase = "asked" /\ Heading(r, p).phase = "asked"
         /\ Loading(r, p).header = None
         /\ Heading(r, p).header = r.header /\ Heading(r, p).behind = r.behind
  BY DEF Loading, Heading, TabField

LEMMA StillShape ==
  ASSUME NEW r, DOMAIN r = TabField, NEW p, NEW old
  PROVE  LET h == StillTo(Heading(r, p), old) IN
         /\ DOMAIN h = TabField /\ h.phase = "asked"
         /\ h.header = r.header /\ h.behind = r.behind
<1>1. PICK g : g = Heading(r, p)
  OBVIOUS
<1>2. /\ DOMAIN g = TabField /\ g.phase = "asked"
      /\ g.header = r.header /\ g.behind = r.behind
  BY <1>1, LoadingShape
<1>3. StillTo(Heading(r, p), old) = [g EXCEPT !.wanted = old.wanted, !.lost = old.lost]
  BY <1>1 DEF StillTo
<1> QED
  BY <1>2, <1>3 DEF TabField

(* However a page comes to be loaded in full.                               *)
RefusedLink(r, p) == [Loading(r, "login") EXCEPT !.wanted = p, !.lost = TRUE]

LEMMA LoadedShape ==
  ASSUME NEW r, DOMAIN r = TabField, NEW p,
         NEW h \in {Asked(r, p), Again(r), RefusedLink(r, p), Loading(r, p)}
  PROVE  DOMAIN h = TabField /\ h.phase = "asked" /\ h.header = None
<1>1. PICK n : n = Loading(r, p)
  OBVIOUS
<1>2. /\ DOMAIN n = TabField /\ n.phase = "asked" /\ n.header = None
  BY <1>1, LoadingShape
<1>3. PICK a : a = Loading(r, r.at)
  OBVIOUS
<1>4. /\ DOMAIN a = TabField /\ a.phase = "asked" /\ a.header = None
  BY <1>3, LoadingShape
<1>5. PICK l : l = Loading(r, "login")
  OBVIOUS
<1>6. /\ DOMAIN l = TabField /\ l.phase = "asked" /\ l.header = None
  BY <1>5, LoadingShape
<1>7. CASE h = Asked(r, p)
  <2>1. PICK w : h = [n EXCEPT !.wanted = w]
    BY <1>1, <1>7 DEF Asked
  <2> QED
    BY <1>2, <2>1 DEF TabField
<1>8. CASE h = Again(r)
  <2>1. PICK g : g = [a EXCEPT !.wanted = r.wanted, !.lost = r.lost]
    OBVIOUS
  <2>2. h = [g EXCEPT !.next = r.next]
    BY <1>3, <1>8, <2>1 DEF Again, StillTo
  <2> QED
    BY <1>4, <2>1, <2>2 DEF TabField
<1>9. CASE h = RefusedLink(r, p)
  <2>1. h = [l EXCEPT !.wanted = p, !.lost = TRUE]
    BY <1>5, <1>9 DEF RefusedLink
  <2> QED
    BY <1>6, <2>1 DEF TabField
<1> QED
  BY <1>1, <1>2, <1>7, <1>8, <1>9

LEMMA UnmountKeeps ==
  ASSUME NEW C, \A c \in C : CallShape(c), NEW t, NEW on \in Tab \cup {None}
  PROVE  \A x \in Unmount(t, on, C) :
           /\ CallShape(x)
           /\ (x \in C /\ x.tab # t) \/ x.mounted = FALSE
  BY DEF Unmount, CallShape, CallField

LEMMA UnmountAll ==
  ASSUME Shaped, NEW t
  PROVE  \A x \in Unmount(t, None, calls) :
           /\ CallShape(x)
           /\ (x \in calls /\ x.tab # t) \/ x.mounted = FALSE
<1>1. PICK C : C = calls
  OBVIOUS
<1>2. \A c \in C : CallShape(c)
  BY <1>1 DEF Shaped
<1>3. \A x \in Unmount(t, None, C) :
        /\ CallShape(x)
        /\ (x \in C /\ x.tab # t) \/ x.mounted = FALSE
  BY <1>2, UnmountKeeps
<1> QED
  BY <1>1, <1>3

-----------------------------------------------------------------------------
(* A tab that a step leaves alone,                                          *)
LEMMA TabStays ==
  ASSUME NEW t \in Tab, TabInv(t), Named(browser') = Named(browser),
         tab'[t].at = tab[t].at, tab'[t].phase = tab[t].phase,
         tab'[t].header = tab[t].header, tab'[t].content = tab[t].content,
         tab'[t].behind = tab[t].behind
  PROVE  TabInv(t)'
  BY DEF TabInv, Shown

(* one that keeps showing what it shows while the browser changes,          *)
LEMMA TabBehind ==
  ASSUME NEW t \in Tab, TabInv(t), DOMAIN tab[t] = TabField,
         tab'[t] = Elsewhere(t)
  PROVE  /\ TabInv(t)' /\ DOMAIN tab'[t] = TabField
         /\ tab'[t].at = tab[t].at /\ tab'[t].phase = tab[t].phase
         /\ tab'[t].header = tab[t].header
<1>1. CASE browser' = browser
  <2>1. tab'[t] = tab[t]
    BY <1>1 DEF Elsewhere
  <2> QED
    BY <1>1, <2>1, TabStays
<1>2. CASE browser' # browser
  <2>1. tab'[t] = [tab[t] EXCEPT !.behind = TRUE, !.meant = {}]
    BY <1>2 DEF Elsewhere
  <2>2. /\ DOMAIN tab'[t] = TabField /\ tab'[t].behind = TRUE
        /\ tab'[t].at = tab[t].at /\ tab'[t].phase = tab[t].phase
        /\ tab'[t].header = tab[t].header
    BY <2>1 DEF TabField
  <2> QED
    BY <2>2 DEF TabInv, Shown
<1> QED
  BY <1>1, <1>2

(* and one that is on its way somewhere.                                    *)
LEMMA TabAway ==
  ASSUME NEW t \in Tab, TabInv(t), Named(browser') = Named(browser),
         tab'[t].phase = "asked",
         \/ tab'[t].header = None
         \/ tab'[t].header = tab[t].header /\ tab'[t].behind = tab[t].behind
  PROVE  TabInv(t)'
  BY DEF TabInv, Shown

(* The wizard and its calls, if its tab stays where it is.                  *)
LEMMA WizardStays ==
  ASSUME WizardInv, CallInv, DOMAIN wizard' = WizardField,
         wizard'.tab = wizard.tab, wizard'.first = wizard.first,
         wizard.tab # None =>
           /\ tab'[wizard.tab].at = tab[wizard.tab].at
           /\ tab'[wizard.tab].phase = tab[wizard.tab].phase
           /\ tab'[wizard.tab].header = tab[wizard.tab].header,
         \A c \in calls' :
           \/ c \in calls
           \/ c.kind \notin {"create", "made", "activate"}
           \/ ~c.mounted
           \/ c.tab = wizard.tab /\ c.first = wizard.first
           \/ \E d \in calls : /\ d.kind \in {"create", "made", "activate"}
                               /\ c.tab = d.tab /\ c.first = d.first
                               /\ c.mounted = d.mounted
  PROVE  WizardInv' /\ CallInv'
<1>1. WizardInv'
  BY DEF WizardInv, Shown
<1>2. CallInv'
  BY DEF CallInv
<1> QED
  BY <1>1, <1>2

(* A full load.                                                             *)
LEMMA LoadStep ==
  ASSUME SessionInv, NEW t \in Tab, NEW r, Load(t, r, calls),
         DOMAIN r = TabField, r.phase = "asked", r.header = None,
         DOMAIN browser' = BrowserField, browser'.cookie = browser.cookie,
         Named(browser') = Named(browser)
  PROVE  SessionInv'
<1> USE DEF SessionInv
<1>1. /\ DOMAIN tab' = Tab /\ DOMAIN tab'[t] = TabField
      /\ tab'[t].phase = "asked" /\ tab'[t].header = None
      /\ \A u \in Tab \ {t} : tab'[u] = tab[u]
  BY DEF Load, Shaped
<1>2. /\ DOMAIN wizard' = WizardField
      /\ \/ wizard' = wizard /\ wizard.tab # t
         \/ wizard.tab = t /\ wizard'.tab = None
  BY DEF Load, Unmounted, Shut, WizardField, Shaped
<1>3. \A x \in calls' : /\ CallShape(x)
                        /\ (x \in calls /\ x.tab # t) \/ x.mounted = FALSE
  BY UnmountAll DEF Load
<1>4. Shaped'
  <2>1. DOMAIN browser' = BrowserField /\ browser'.cookie # Own
    BY DEF Shaped
  <2>2. DOMAIN tab' = Tab /\ \A u \in Tab : DOMAIN tab'[u] = TabField
    BY <1>1 DEF Shaped
  <2>3. DOMAIN wizard' = WizardField /\ wizard'.tab \in Tab \cup {None}
    BY <1>2 DEF Shaped
  <2>4. \A c \in calls' : CallShape(c)
    BY <1>3
  <2> QED
    BY <2>1, <2>2, <2>3, <2>4 DEF Shaped
<1>5. \A u \in Tab : TabInv(u)'
  BY <1>1, TabStays, TabAway
<1>6. WizardInv'
  BY <1>1, <1>2 DEF WizardInv, Shown, Shaped
<1>7. CallInv'
  BY <1>2, <1>3 DEF CallInv
<1> QED
  BY <1>4, <1>5, <1>6, <1>7

(* A step that no page shows anything of.                                   *)
LEMMA HiddenStep ==
  ASSUME SessionInv, Named(browser') = Named(browser),
         DOMAIN browser' = BrowserField, browser'.cookie = browser.cookie,
         DOMAIN tab' = Tab,
         \A t \in Tab : /\ DOMAIN tab'[t] = TabField
                       /\ tab'[t].at = tab[t].at /\ tab'[t].phase = tab[t].phase
                       /\ tab'[t].header = tab[t].header
                       /\ tab'[t].content = tab[t].content
                       /\ tab'[t].behind = tab[t].behind,
         DOMAIN wizard' = WizardField,
         wizard'.tab = wizard.tab, wizard'.first = wizard.first,
         \A c \in calls' : CallShape(c),
         \A c \in calls' :
           \/ c \in calls
           \/ c.kind \notin {"create", "made", "activate"}
           \/ ~c.mounted
           \/ c.tab = wizard.tab /\ c.first = wizard.first
           \/ \E d \in calls : /\ d.kind \in {"create", "made", "activate"}
                               /\ c.tab = d.tab /\ c.first = d.first
                               /\ c.mounted = d.mounted
  PROVE  SessionInv'
<1> USE DEF SessionInv
<1>1. Shaped'
  BY DEF Shaped
<1>2. \A t \in Tab : TabInv(t)'
  BY TabStays
<1>3. WizardInv' /\ CallInv'
  BY WizardStays DEF Shaped
<1> QED
  BY <1>1, <1>2, <1>3

LEMMA NewCall ==
  ASSUME Shaped, NEW kind, kind # "activate", NEW t \in Tab \cup {None}, NEW what, NEW go,
         NEW says, calls' \subseteq calls \cup {Call(kind, t, what, go, says)}
  PROVE  \A x \in calls' :
           /\ CallShape(x)
           /\ \/ x \in calls
              \/ x.kind = kind /\ x.tab = t /\ x.first = wizard.first
<1> DEFINE new == Call(kind, t, what, go, says)
<1>1. CallShape(new) /\ new.kind = kind /\ new.tab = t /\ new.first = wizard.first
  BY DEF Call, CallShape, CallField
<1> HIDE DEF new
<1>2. \A x \in calls' : x \in calls \/ x = new
  BY DEF new
<1> QED
  BY <1>1, <1>2 DEF Shaped

-----------------------------------------------------------------------------
LEMMA SessionInvariant == Spec => []SessionInv
<1>1. Init => SessionInv
  <2> SUFFICES ASSUME Init PROVE SessionInv
    OBVIOUS
  <2>1. Shaped
    BY RoutingAssumption DEF Init, Shaped, Browser, BrowserField, TabField, Shut,
       WizardField
  <2>2. \A t \in Tab : TabInv(t)
    BY DEF Init, TabInv, InApp, Shown
  <2>3. WizardInv /\ CallInv
    BY DEF Init, WizardInv, CallInv, Shut
  <2> QED
    BY <2>1, <2>2, <2>3 DEF SessionInv
<1>2. SessionInv /\ [Next]_vars => SessionInv'
  <2> SUFFICES ASSUME SessionInv, [Next]_vars PROVE SessionInv'
    OBVIOUS
  <2>0. /\ Shaped /\ (\A t \in Tab : TabInv(t)) /\ WizardInv /\ CallInv
    BY DEF SessionInv
  <2>s. \A b \in {browser, SignedIn(browser), SignedOut(browser)} :
          /\ DOMAIN b = BrowserField /\ b.cookie = browser.cookie
          /\ Named(b) = Named(browser)
    BY <2>0, SameName DEF Shaped
  <2>1. ASSUME NEW t \in Tab, Visit(t) \/ Reload(t) \/ Callback(t) \/ SignOut(t)
        PROVE  SessionInv'
    <3>1. browser' \in {browser, SignedIn(browser), SignedOut(browser)}
      BY <2>1 DEF Visit, Reload, Callback, SignOut
    <3>2. PICK p : \E r \in {Asked(tab[t], p), Again(tab[t]), RefusedLink(tab[t], p),
                             Loading(tab[t], p)} : Load(t, r, calls)
      BY <2>1 DEF Visit, Reload, Callback, SignOut, RefusedLink
    <3>3. DOMAIN tab[t] = TabField
      BY <2>0 DEF Shaped
    <3> QED
      BY <2>s, <3>1, <3>2, <3>3, LoadedShape, LoadStep
  <2>2. ASSUME NEW t \in Tab, wizard.tab # t, DOMAIN tab' = Tab,
               DOMAIN tab'[t] = TabField, TabInv(t)',
               \A u \in Tab \ {t} : tab'[u] = tab[u],
               browser' \in {browser, SignedIn(browser), SignedOut(browser)},
               wizard' = wizard, calls' = calls
        PROVE  SessionInv'
    <3>1. Shaped'
      BY <2>0, <2>2, <2>s DEF Shaped
    <3>2. \A u \in Tab : TabInv(u)'
      BY <2>0, <2>2, <2>s, TabStays
    <3>3. WizardInv' /\ CallInv'
      BY <2>0, <2>2 DEF WizardInv, CallInv, Shown, Shaped
    <3> QED
      BY <3>1, <3>2, <3>3 DEF SessionInv
  <2>3. \A t \in Tab : \A p, x :
          LET r == StillTo(Heading(tab[t], p), x) IN
          /\ DOMAIN r = TabField /\ r.phase = "asked"
          /\ r.header = tab[t].header /\ r.behind = tab[t].behind
          /\ DOMAIN Heading(tab[t], p) = TabField /\ Heading(tab[t], p).phase = "asked"
          /\ Heading(tab[t], p).header = tab[t].header
          /\ Heading(tab[t], p).behind = tab[t].behind
    BY <2>0, StillShape, LoadingShape DEF Shaped
  <2>4. ASSUME NEW t \in Tab, Follow(t) \/ SignIn(t) \/ SignUp(t) PROVE SessionInv'
    <3>1. PICK p, x :
            \/ tab' = [tab EXCEPT ![t] = StillTo(Heading(tab[t], p), x)]
            \/ tab' = [tab EXCEPT ![t] = Heading(tab[t], p)]
      BY <2>4 DEF Follow, SignIn, SignUp
    <3> DEFINE r == StillTo(Heading(tab[t], p), x)
    <3>a. /\ DOMAIN r = TabField /\ r.phase = "asked"
          /\ r.header = tab[t].header /\ r.behind = tab[t].behind
          /\ DOMAIN Heading(tab[t], p) = TabField /\ Heading(tab[t], p).phase = "asked"
          /\ Heading(tab[t], p).header = tab[t].header
          /\ Heading(tab[t], p).behind = tab[t].behind
      BY <2>3
    <3>b. tab'[t] \in {r, Heading(tab[t], p)}
      BY <2>0, <3>1 DEF Shaped
    <3> HIDE DEF r
    <3>2. /\ DOMAIN tab' = Tab /\ DOMAIN tab'[t] = TabField
          /\ tab'[t].phase = "asked" /\ tab'[t].header = tab[t].header
          /\ tab'[t].behind = tab[t].behind
          /\ \A u \in Tab \ {t} : tab'[u] = tab[u]
      BY <2>0, <3>1, <3>a, <3>b DEF Shaped
    <3>3. /\ wizard.tab # t /\ wizard' = wizard /\ calls' = calls
          /\ browser' \in {browser, SignedIn(browser), SignedOut(browser)}
      BY <2>0, <2>4, SessionAssumption DEF Follow, SignIn, SignUp, WizardInv
    <3>4. TabInv(t)'
      BY <2>0, <2>s, <3>2, <3>3, TabAway
    <3> QED
      BY <2>2, <3>2, <3>3, <3>4
  <2>5. ASSUME NEW t \in Tab, Route(t) PROVE SessionInv'
    <3> DEFINE to == Middleware(browser, tab[t].at)
               r  == tab[t]
    <3>1. /\ r.phase = "asked" /\ wizard.tab # t
          /\ browser' = browser /\ wizard' = wizard /\ calls' = calls
      BY <2>0, <2>5, SessionAssumption DEF Route, WizardInv, Shown
    <3>2. CASE /\ to.at # r.at
               /\ tab' = [tab EXCEPT ![t] =
                    [r EXCEPT !.at = to.at, !.next = to.next,
                              !.lost = r.lost \/ r.at = "login"]]
      <4>1. /\ DOMAIN tab' = Tab /\ \A u \in Tab \ {t} : tab'[u] = tab[u]
            /\ DOMAIN tab'[t] = TabField /\ tab'[t].phase = "asked"
            /\ tab'[t].header = r.header /\ tab'[t].behind = r.behind
        BY <2>0, <3>1, <3>2 DEF Shaped, TabField
      <4>2. TabInv(t)'
        BY <2>0, <3>1, <4>1, TabAway
      <4> QED
        BY <2>2, <3>1, <4>1, <4>2
    <3>3. CASE /\ to.at = r.at /\ InApp(r.at)
               /\ tab' = [tab EXCEPT ![t] = [r EXCEPT !.phase = "passed"]]
      <4>1. /\ DOMAIN tab' = Tab /\ \A u \in Tab \ {t} : tab'[u] = tab[u]
            /\ DOMAIN tab'[t] = TabField /\ tab'[t].phase = "passed"
            /\ tab'[t].at = r.at
            /\ tab'[t].header = r.header /\ tab'[t].behind = r.behind
        BY <2>0, <3>1, <3>3 DEF Shaped, TabField
      <4>2. TabInv(t)'
        BY <2>0, <3>1, <3>3, <4>1 DEF TabInv, Shown
      <4> QED
        BY <2>2, <3>1, <4>1, <4>2
    <3>4. CASE /\ to.at = r.at /\ ~InApp(r.at)
               /\ tab' = [tab EXCEPT ![t] = [r EXCEPT !.phase = "shown",
                                                     !.header = None,
                                                     !.content = None]]
      <4>1. /\ DOMAIN tab' = Tab /\ \A u \in Tab \ {t} : tab'[u] = tab[u]
            /\ DOMAIN tab'[t] = TabField /\ tab'[t].phase = "shown"
            /\ tab'[t].at = r.at /\ tab'[t].header = None
        BY <2>0, <3>1, <3>4 DEF Shaped, TabField
      <4>2. TabInv(t)'
        BY <3>4, <4>1 DEF TabInv, Shown
      <4> QED
        BY <2>2, <3>1, <4>1, <4>2
    <3> QED
      BY <2>5, <3>2, <3>3, <3>4 DEF Route
  <2>6. ASSUME NEW t \in Tab, Render(t) PROVE SessionInv'
    <3> DEFINE r == tab[t]
    <3>1. /\ r.phase = "passed" /\ wizard.tab # t
          /\ browser' = browser /\ wizard' = wizard /\ calls' = calls
      BY <2>0, <2>6, SessionAssumption DEF Render, WizardInv, Shown
    <3>2. PICK who \in OrNone(made) :
            /\ Answer(who)
            /\ tab' = [tab EXCEPT ![t] =
                 IF r.header = None THEN Layout(r, who)
                 ELSE [r EXCEPT !.phase = "shown", !.content = who]]
      BY <2>6 DEF Render
    <3>3. who \in {Named(browser), None}
      BY <2>0, <3>2, TokenIsNamed DEF Answer, Shaped
    <3>4. DOMAIN tab' = Tab /\ \A u \in Tab \ {t} : tab'[u] = tab[u]
      BY <2>0, <3>2 DEF Shaped
    <3>5. InApp(r.at)
      BY <2>0, <3>1 DEF TabInv
    <3>6. CASE r.header # None
      <4>1. tab'[t] = [r EXCEPT !.phase = "shown", !.content = who]
        BY <2>0, <3>2, <3>6 DEF Shaped
      <4>2. /\ DOMAIN tab'[t] = TabField /\ tab'[t].phase = "shown"
            /\ tab'[t].at = r.at /\ tab'[t].content = who
            /\ tab'[t].header = r.header /\ tab'[t].behind = r.behind
        BY <2>0, <4>1 DEF Shaped, TabField
      <4>3. TabInv(t)'
        BY <2>0, <3>1, <3>3, <3>5, <3>6, <4>2 DEF TabInv, Shown
      <4> QED
        BY <2>2, <3>1, <3>4, <4>2, <4>3
    <3>7. CASE r.header = None /\ who # None
      <4>1. tab'[t] = [r EXCEPT !.phase = "shown", !.header = who, !.content = who,
                                !.behind = FALSE]
        BY <2>0, <3>2, <3>7 DEF Layout, Shaped
      <4>2. /\ DOMAIN tab'[t] = TabField /\ tab'[t].phase = "shown"
            /\ tab'[t].at = r.at /\ tab'[t].content = who /\ tab'[t].header = who
        BY <2>0, <4>1 DEF Shaped, TabField
      <4>3. TabInv(t)'
        BY <3>1, <3>3, <3>5, <3>7, <4>2 DEF TabInv, Shown
      <4> QED
        BY <2>2, <3>1, <3>4, <4>2, <4>3
    <3>8. CASE r.header = None /\ who = None
      <4>1. tab'[t] = StillTo(Heading(r, "onboarding"), r)
        BY <2>0, <3>2, <3>8 DEF Layout, Shaped
      <4>2. /\ DOMAIN tab'[t] = TabField /\ tab'[t].phase = "asked"
            /\ tab'[t].header = r.header /\ tab'[t].behind = r.behind
        BY <2>3, <4>1
      <4>3. TabInv(t)'
        BY <2>0, <3>1, <4>2, TabAway
      <4> QED
        BY <2>2, <3>1, <3>4, <4>2, <4>3
    <3> QED
      BY <3>6, <3>7, <3>8
  <2>7. CASE Lapse \/ Expire
    <3>1. /\ browser' \in {browser, SignedOut(browser)}
          /\ tab' = tab /\ wizard' = wizard /\ calls' = calls
      BY <2>7 DEF Lapse, Expire
    <3> QED
      BY <2>0, <2>s, <3>1, HiddenStep DEF Shaped
  <2>8. CASE CookieGone
    <3>1. /\ browser' = [browser EXCEPT !.cookie = None]
          /\ tab' = [t \in Tab |-> [tab[t] EXCEPT !.behind = TRUE, !.meant = {}]]
          /\ wizard' = wizard /\ calls' = calls
      BY <2>8 DEF CookieGone
    <3>2. DOMAIN browser' = BrowserField /\ browser'.cookie # Own
      BY <2>0, <3>1, RoutingAssumption DEF Shaped, BrowserField
    <3>3. /\ DOMAIN tab' = Tab
          /\ \A t \in Tab : /\ DOMAIN tab'[t] = TabField /\ tab'[t].behind = TRUE
                            /\ tab'[t].at = tab[t].at /\ tab'[t].phase = tab[t].phase
                            /\ tab'[t].header = tab[t].header
      BY <2>0, <3>1 DEF Shaped, TabField
    <3>4. \A t \in Tab : TabInv(t)'
      BY <2>0, <3>3 DEF TabInv, Shown
    <3>5. Shaped'
      BY <2>0, <3>1, <3>2, <3>3 DEF Shaped
    <3>6. WizardInv' /\ CallInv'
      BY <2>0, <3>1, <3>3, WizardStays DEF Shaped
    <3> QED
      BY <3>4, <3>5, <3>6 DEF SessionInv
  <2>9. ASSUME NEW t \in Tab, OpenDrawer(t) PROVE SessionInv'
    <3>1. /\ tab' = [tab EXCEPT ![t].who = Reached]
          /\ browser' = browser /\ wizard' = wizard /\ calls' = calls
      BY <2>9 DEF OpenDrawer
    <3>2. /\ DOMAIN tab' = Tab
          /\ \A u \in Tab : /\ DOMAIN tab'[u] = TabField
                            /\ tab'[u].at = tab[u].at /\ tab'[u].phase = tab[u].phase
                            /\ tab'[u].header = tab[u].header
                            /\ tab'[u].content = tab[u].content
                            /\ tab'[u].behind = tab[u].behind
      BY <2>0, <3>1 DEF Shaped, TabField
    <3> QED
      BY <2>0, <3>1, <3>2, HiddenStep DEF Shaped
  <2>10. ASSUME NEW t \in Tab, NEW w \in Workspace,
                (\E label \in {"open", "default"} : SwitchTo(t, w, label)) \/ OpenRow(t, w)
         PROVE  SessionInv'
    <3>1. PICK to, go, says : calls' = calls \cup {Call("switch", t, to, go, says)}
      BY <2>10 DEF SwitchTo, OpenRow
    <3>2. /\ tab' \in {[tab EXCEPT ![t].busy = w], [tab EXCEPT ![t].opening = w]}
          /\ browser' = browser /\ wizard' = wizard
      BY <2>10 DEF SwitchTo, OpenRow
    <3>3. /\ DOMAIN tab' = Tab
          /\ \A u \in Tab : /\ DOMAIN tab'[u] = TabField
                            /\ tab'[u].at = tab[u].at /\ tab'[u].phase = tab[u].phase
                            /\ tab'[u].header = tab[u].header
                            /\ tab'[u].content = tab[u].content
                            /\ tab'[u].behind = tab[u].behind
      BY <2>0, <3>2 DEF Shaped, TabField
    <3>4. \A x \in calls' : CallShape(x) /\ (x \in calls \/ x.kind = "switch")
      BY <2>0, <3>1, NewCall
    <3> QED
      BY <2>0, <3>2, <3>3, <3>4, HiddenStep DEF Shaped
  <2>11. ASSUME NEW t \in Tab, ToDefault(t) PROVE SessionInv'
    <3>1. PICK go, says : calls' = calls \cup {Call("switch", t, Own, go, says)}
      BY <2>11 DEF ToDefault
    <3>2. tab' = tab /\ browser' = browser /\ wizard' = wizard
      BY <2>11 DEF ToDefault
    <3>3. \A x \in calls' : CallShape(x) /\ (x \in calls \/ x.kind = "switch")
      BY <2>0, <3>1, NewCall
    <3> QED
      BY <2>0, <3>2, <3>3, HiddenStep DEF Shaped
  <2>12. CASE Turn \/ TypeUrl \/ TypeCredentials
    <3>1. tab' = tab /\ browser' = browser /\ calls' = calls
      BY <2>12 DEF Turn, TypeUrl, TypeCredentials
    <3>2. DOMAIN wizard' = WizardField /\ wizard'.tab = wizard.tab
          /\ wizard'.first = wizard.first
      BY <2>0, <2>12 DEF Turn, TypeUrl, TypeCredentials, Shaped, WizardField
    <3> QED
      BY <2>0, <3>1, <3>2, HiddenStep DEF Shaped
  <2>13. CASE Test \/ Provision \/ SwitchIn
    <3>1. tab' = tab /\ browser' = browser
      BY <2>13 DEF Test, Provision, SwitchIn
    <3>2. PICK kind, what, go, says :
            /\ kind # "activate"
            /\ calls' = calls \cup {Call(kind, wizard.tab, what, go, says)}
      <4>1. CASE Test \/ Provision
        <5>1. \E kind \in {"test", "create"} :
                calls' = calls \cup {Call(kind, wizard.tab, None, "", {})}
          BY <4>1 DEF Test, Provision
        <5> QED
          BY <5>1
      <4>2. CASE SwitchIn
        <5>1. calls' = calls \cup {Call("switch", wizard.tab, wizard.result, "dashboard",
                                        {wizard.result})}
          BY <4>2 DEF SwitchIn
        <5> QED
          BY <5>1
      <4> QED
        BY <2>13, <4>1, <4>2
    <3>3. DOMAIN wizard' = WizardField /\ wizard'.tab = wizard.tab
          /\ wizard'.first = wizard.first
      BY <2>0, <2>13 DEF Test, Provision, SwitchIn, Shaped, WizardField
    <3>4. \A x \in calls' :
            /\ CallShape(x)
            /\ x \in calls \/ (x.tab = wizard.tab /\ x.first = wizard.first)
      BY <2>0, <3>2, NewCall DEF Shaped
    <3> QED
      BY <2>0, <3>1, <3>3, <3>4, HiddenStep DEF Shaped
  <2>14. ASSUME NEW c \in calls,
                SwitchFails(c) \/ Tested(c) \/ Refused(c) \/ Created(c) \/ Apologise(c)
         PROVE  SessionInv'
    <3>1. tab' = tab /\ browser' = browser
      BY <2>14 DEF SwitchFails, Tested, Refused, Created, Apologise
    <3>2. DOMAIN wizard' = WizardField /\ wizard'.tab = wizard.tab
          /\ wizard'.first = wizard.first
      BY <2>0, <2>14 DEF SwitchFails, Tested, Refused, Created, Counted, Apologise,
         Shaped, WizardField
    <3> DEFINE failed == [c EXCEPT !.kind = "failed"]
    <3>3. \A k, w :
            /\ k # "activate" => CallShape([c EXCEPT !.kind = k, !.what = w])
            /\ [c EXCEPT !.kind = k, !.what = w].tab = c.tab
            /\ [c EXCEPT !.kind = k, !.what = w].first = c.first
            /\ [c EXCEPT !.kind = k, !.what = w].mounted = c.mounted
      BY <2>0 DEF Shaped, CallShape, CallField
    <3>4. CallShape(failed) /\ failed.kind = "failed"
      BY <2>0 DEF Shaped, CallShape, CallField
    <3>5. \/ calls' \subseteq calls \cup {failed}
          \/ /\ c.kind = "create"
             /\ \E w : calls' \subseteq calls \cup
                       {[c EXCEPT !.kind = "made", !.what = w],
                        failed}
      <4>1. CASE SwitchFails(c) \/ Tested(c) \/ Refused(c) \/ Apologise(c)
        BY <4>1 DEF SwitchFails, Tested, Refused, Apologise
      <4>2. CASE Created(c)
        BY <4>2 DEF Created
      <4> QED
        BY <2>14, <4>1, <4>2
    <3>6. \A x \in calls' :
            /\ CallShape(x)
            /\ \/ x \in calls
               \/ x.kind = "failed"
               \/ /\ c.kind = "create" /\ x.tab = c.tab /\ x.first = c.first
                  /\ x.mounted = c.mounted
      <4>1. CASE calls' \subseteq calls \cup {failed}
        <5> HIDE DEF failed
        <5> QED
          BY <2>0, <3>4, <4>1 DEF Shaped
      <4>2. ASSUME c.kind = "create",
                   NEW w, calls' \subseteq calls \cup
                            {[c EXCEPT !.kind = "made", !.what = w], failed}
            PROVE  \A x \in calls' :
                     /\ CallShape(x)
                     /\ \/ x \in calls
                        \/ x.kind = "failed"
                        \/ /\ c.kind = "create" /\ x.tab = c.tab /\ x.first = c.first
                           /\ x.mounted = c.mounted
        <5> DEFINE new == [c EXCEPT !.kind = "made", !.what = w]
        <5>1. /\ CallShape(new) /\ new.tab = c.tab /\ new.first = c.first
              /\ new.mounted = c.mounted
          BY <3>3
        <5>2. \A x \in calls' : x \in calls \/ x = new \/ x = failed
          BY <4>2
        <5> HIDE DEF new, failed
        <5> QED
          BY <2>0, <3>4, <4>2, <5>1, <5>2 DEF Shaped
      <4> QED
        BY <3>5, <4>1, <4>2
    <3> QED
      BY <2>0, <3>1, <3>2, <3>6, HiddenStep DEF Shaped
  <2>15. ASSUME NEW t \in Tab, OpenWizard(t) PROVE SessionInv'
    <3>1. /\ Shown(t) /\ tab[t].at # "login" /\ wizard.tab = None
          /\ browser' = browser /\ tab' = tab /\ calls' = calls
      BY <2>15 DEF OpenWizard
    <3>2. /\ DOMAIN wizard' = WizardField /\ wizard'.tab = t
          /\ wizard'.first => tab[t].at = "onboarding"
      BY <2>15 DEF OpenWizard, Shut, WizardField
    <3>3. Shaped'
      BY <2>0, <3>1, <3>2 DEF Shaped
    <3>4. \A u \in Tab : TabInv(u)'
      BY <2>0, <3>1, TabStays
    <3>5. WizardInv'
      BY <2>0, <3>1, <3>2 DEF WizardInv, TabInv, Shown, InApp
    <3>6. CallInv'
      BY <2>0, <3>1 DEF CallInv
    <3> QED
      BY <3>3, <3>4, <3>5, <3>6 DEF SessionInv
  <2>16. CASE CloseWizard
    <3> DEFINE t == wizard.tab
    <3>1. /\ t \in Tab /\ Shown(t) /\ browser' = browser
          /\ wizard' = Shut /\ calls' = Unmount(t, t, calls)
          /\ tab' = IF wizard.first THEN [tab EXCEPT ![t] = Heading(tab[t], "dashboard")]
                    ELSE tab
      BY <2>0, <2>16 DEF CloseWizard, WizardInv, Shaped
    <3>2. /\ DOMAIN tab' = Tab /\ DOMAIN tab'[t] = TabField
          /\ \A u \in Tab \ {t} : tab'[u] = tab[u]
          /\ \/ tab'[t] = tab[t]
             \/ /\ tab'[t].phase = "asked" /\ tab'[t].header = tab[t].header
                /\ tab'[t].behind = tab[t].behind
      <4>1. CASE wizard.first
        BY <2>0, <2>3, <3>1, <4>1 DEF Shaped
      <4>2. CASE ~wizard.first
        BY <2>0, <3>1, <4>2 DEF Shaped
      <4> QED
        BY <4>1, <4>2
    <3>3. DOMAIN wizard' = WizardField /\ wizard'.tab = None
      BY <3>1 DEF Shut, WizardField
    <3>4. \A x \in calls' : /\ CallShape(x)
                            /\ (x \in calls /\ x.tab # t) \/ x.mounted = FALSE
      BY <2>0, <3>1, UnmountKeeps, ZenonT(30) DEF Shaped
    <3>5. Shaped'
      BY <2>0, <3>1, <3>2, <3>3, <3>4 DEF Shaped
    <3>6. \A u \in Tab : TabInv(u)'
      BY <2>0, <3>1, <3>2, TabStays, TabAway
    <3>7. WizardInv'
      BY <3>3 DEF WizardInv
    <3>8. CallInv'
      BY <2>0, <3>4 DEF CallInv
    <3> QED
      BY <3>5, <3>6, <3>7, <3>8 DEF SessionInv
  <2>17. ASSUME NEW to, Effective(to) \/ browser' = browser
         PROVE  DOMAIN browser' = BrowserField /\ browser'.cookie # Own
    BY <2>0, <2>17, SwitchedShape DEF Effective, Shaped
  <2>18. ASSUME NEW c \in calls, Switch(c) PROVE SessionInv'
    <3>0. PICK t \in Tab : t = c.tab
      BY <2>0, <2>18 DEF Switch, Shaped, CallShape
    <3>1. DOMAIN browser' = BrowserField /\ browser'.cookie # Own
      BY <2>17, <2>18 DEF Switch, Ineffective
    <3>a. PICK page : page = IF c.go = "here" THEN Again(tab[t])
                             ELSE Loading(tab[t], "dashboard")
      OBVIOUS
    <3>b. PICK m : m = IF CallPasses(browser) THEN c.says ELSE {}
      OBVIOUS
    <3>2. tab' = [u \in Tab |-> IF u = t THEN [page EXCEPT !.meant = m]
                               ELSE Elsewhere(u)]
      BY <2>18, <3>0, <3>a, <3>b DEF Switch
    <3>3. /\ DOMAIN tab'[t] = TabField /\ tab'[t].phase = "asked"
          /\ tab'[t].header = None
      <4>1. tab'[t] = [page EXCEPT !.meant = m]
        BY <3>0, <3>2
      <4>2. DOMAIN page = TabField /\ page.phase = "asked" /\ page.header = None
        <5>1. DOMAIN tab[t] = TabField
          BY <2>0 DEF Shaped
        <5>2. page \in {Asked(tab[t], "dashboard"), Again(tab[t]),
                        RefusedLink(tab[t], "dashboard"), Loading(tab[t], "dashboard")}
          BY <3>a
        <5> QED
          BY <5>1, <5>2, LoadedShape
      <4> QED
        BY <4>1, <4>2 DEF TabField
    <3>4. \A u \in Tab \ {t} :
            /\ TabInv(u)' /\ DOMAIN tab'[u] = TabField
            /\ tab'[u].at = tab[u].at /\ tab'[u].phase = tab[u].phase
            /\ tab'[u].header = tab[u].header
      BY <2>0, <3>2, TabBehind DEF Shaped
    <3>5. wizard' = Unmounted(t) /\ calls' = Unmount(t, None, calls \ {c})
      BY <2>18, <3>0 DEF Switch
    <3>6. /\ DOMAIN wizard' = WizardField
          /\ \/ wizard' = wizard /\ wizard.tab # t
             \/ wizard.tab = t /\ wizard'.tab = None
      BY <2>0, <3>5 DEF Unmounted, Shut, WizardField, Shaped
    <3>7. \A x \in calls' : /\ CallShape(x)
                            /\ (x \in calls /\ x.tab # t) \/ x.mounted = FALSE
      <4>1. \A x \in calls \ {c} : CallShape(x)
        BY <2>0 DEF Shaped
      <4> QED
        BY <3>0, <3>5, <4>1, UnmountKeeps
    <3>8. TabInv(t)'
      BY <3>3 DEF TabInv, Shown
    <3>9. Shaped'
      BY <2>0, <3>0, <3>1, <3>2, <3>3, <3>4, <3>6, <3>7 DEF Shaped
    <3>10. WizardInv'
      BY <2>0, <3>4, <3>6 DEF WizardInv, Shown, Shaped
    <3>11. CallInv'
      BY <2>0, <3>6, <3>7 DEF CallInv
    <3> QED
      BY <3>4, <3>8, <3>9, <3>10, <3>11 DEF SessionInv
  <2>19. ASSUME NEW c \in calls, LateSwitch(c) PROVE SessionInv'
    <3>1. DOMAIN browser' = BrowserField /\ browser'.cookie # Own
      BY <2>17, <2>19 DEF LateSwitch
    <3>2. /\ tab' = [u \in Tab |-> Elsewhere(u)]
          /\ wizard' = wizard /\ calls' = calls \ {c}
      BY <2>19 DEF LateSwitch
    <3>3. \A u \in Tab :
            /\ TabInv(u)' /\ DOMAIN tab'[u] = TabField
            /\ tab'[u].at = tab[u].at /\ tab'[u].phase = tab[u].phase
            /\ tab'[u].header = tab[u].header
      BY <2>0, <3>2, TabBehind DEF Shaped
    <3>4. Shaped'
      BY <2>0, <3>1, <3>2, <3>3 DEF Shaped
    <3>5. WizardInv' /\ CallInv'
      BY <2>0, <3>2, <3>3, WizardStays DEF Shaped
    <3> QED
      BY <3>3, <3>4, <3>5 DEF SessionInv
  <2>20. ASSUME NEW c \in calls, Keep(c) PROVE SessionInv'
    <3>1. /\ browser' \in {browser, [browser EXCEPT !.kept = @ \cup {c.what}]}
          /\ tab' = tab
      BY <2>20 DEF Keep
    <3>2. /\ DOMAIN browser' = BrowserField /\ browser'.cookie = browser.cookie
          /\ Named(browser') = Named(browser)
      BY <2>0, <3>1 DEF Named, Shaped, BrowserField
    <3>3. /\ DOMAIN wizard' = WizardField /\ wizard'.tab = wizard.tab
          /\ wizard'.first = wizard.first
      BY <2>0, <2>20 DEF Keep, Live, Shaped, WizardField
    <3> DEFINE new == [c EXCEPT !.kind = "activate"]
    <3>4. /\ c.first => CallShape(new)
          /\ new.tab = c.tab /\ new.first = c.first /\ new.mounted = c.mounted
      BY <2>0 DEF Shaped, CallShape, CallField
    <3>5. /\ c.kind = "made"
          /\ calls' \subseteq IF c.first THEN calls \cup {new} ELSE calls
      BY <2>20 DEF Keep
    <3> HIDE DEF new
    <3>6. \A x \in calls' :
            /\ CallShape(x)
            /\ \/ x \in calls
               \/ /\ c.kind = "made" /\ x.tab = c.tab /\ x.first = c.first
                  /\ x.mounted = c.mounted
      BY <2>0, <3>4, <3>5 DEF Shaped
    <3> QED
      BY <2>0, <3>1, <3>2, <3>3, <3>6, HiddenStep DEF Shaped
  <2>21. ASSUME NEW c \in calls, Activate(c) PROVE SessionInv'
    <3> DEFINE t == c.tab
    <3>1. /\ DOMAIN browser' = BrowserField /\ browser'.cookie # Own
          /\ t \in Tab /\ c.kind = "activate" /\ c.first
      BY <2>0, <2>17, <2>21 DEF Activate, Ineffective, Shaped, CallShape
    <3>2. PICK m :
            tab' = [u \in Tab |-> IF u = t /\ c.mounted
                                  THEN [tab[u] EXCEPT !.meant = m]
                                  ELSE Elsewhere(u)]
      <4> DEFINE m == IF CallPasses(browser) THEN {c.what} ELSE tab[t].meant
      <4>1. tab' = [u \in Tab |-> IF u = t /\ c.mounted
                                  THEN [tab[u] EXCEPT !.meant = m]
                                  ELSE Elsewhere(u)]
        BY <2>21 DEF Activate
      <4> QED
        BY <4>1
    <3>3. /\ DOMAIN wizard' = WizardField /\ wizard'.tab = wizard.tab
          /\ wizard'.first = wizard.first
      BY <2>0, <2>21 DEF Activate, Live, Shaped, WizardField
    <3>4. c.mounted => tab[t].header = None
      BY <2>0, <3>1, SessionAssumption DEF WizardInv, CallInv
    <3>5. \A u \in Tab :
            /\ TabInv(u)' /\ DOMAIN tab'[u] = TabField
            /\ tab'[u].at = tab[u].at /\ tab'[u].phase = tab[u].phase
            /\ tab'[u].header = tab[u].header
      <4>1. ASSUME NEW u \in Tab, ~(u = t /\ c.mounted)
            PROVE  /\ TabInv(u)' /\ DOMAIN tab'[u] = TabField
                   /\ tab'[u].at = tab[u].at /\ tab'[u].phase = tab[u].phase
                   /\ tab'[u].header = tab[u].header
        BY <2>0, <3>2, <4>1, TabBehind DEF Shaped
      <4>2. CASE c.mounted
        <5>1. tab'[t] = [tab[t] EXCEPT !.meant = m]
          BY <3>1, <3>2, <4>2
        <5>2. /\ DOMAIN tab'[t] = TabField
              /\ tab'[t].at = tab[t].at /\ tab'[t].phase = tab[t].phase
              /\ tab'[t].header = tab[t].header
          BY <2>0, <3>1, <5>1 DEF Shaped, TabField
        <5>3. TabInv(t)'
          BY <2>0, <3>1, <3>4, <4>2, <5>2 DEF TabInv, Shown
        <5> QED
          BY <4>1, <5>2, <5>3
      <4> QED
        BY <4>1, <4>2
    <3>6. calls' = calls \ {c}
      BY <2>21 DEF Activate
    <3>7. Shaped'
      BY <2>0, <3>1, <3>2, <3>3, <3>5, <3>6 DEF Shaped
    <3>8. WizardInv' /\ CallInv'
      BY <2>0, <3>3, <3>5, <3>6, WizardStays DEF Shaped
    <3> QED
      BY <3>5, <3>7, <3>8 DEF SessionInv
  <2>22. CASE UNCHANGED vars
    BY <2>0, <2>22, HiddenStep DEF vars, Shaped
  <2> QED
    BY <2>1, <2>4, <2>5, <2>6, <2>7, <2>8, <2>9, <2>10, <2>11, <2>12, <2>13, <2>14,
       <2>15, <2>16, <2>18, <2>19, <2>20, <2>21, <2>22 DEF Next
<1> QED
  BY <1>1, <1>2, PTL DEF Spec

(* Whatever is done in whatever tabs, and whatever fails or expires: unless *)
(* the cookie has changed since its layout was rendered, what a page sends  *)
(* is served for the workspace in its header, or for none, and so was what  *)
(* it displays.                                                             *)
THEOREM PagesActWhereShown == Spec => []ActsWhereShown
<1>1. SessionInv => ActsWhereShown
  <2> SUFFICES ASSUME SessionInv, NEW t \in Tab, Shown(t), InApp(tab[t].at),
                      ~tab[t].behind
               PROVE  {Reached, tab[t].content} \subseteq {tab[t].header, None}
    BY DEF ActsWhereShown
  <2>1. tab[t].header = Named(browser) /\ tab[t].content \in {tab[t].header, None}
    BY DEF SessionInv, TabInv
  <2>2. Reached \in {Named(browser), None}
    BY TokenIsNamed DEF SessionInv, Shaped, Reached
  <2> QED
    BY <2>1, <2>2
<1> QED
  BY <1>1, SessionInvariant, PTL

-----------------------------------------------------------------------------
(* The wizard and the calls it has out.                                     *)

(* What a wizard that is still there has started, after the tests.          *)
Job(c) == c.mounted /\ c.kind \in {"create", "made", "failed", "activate"}

JobsOf(C)  == {c \in C : Job(c)}
TestsOf(C) == {c \in C : c.kind = "test"}

(* One job at a time, which is the wizard's; and as long as it may still be *)
(* provisioned for, or there is none, no workspace is ahead of the          *)
(* apologies.                                                               *)
Provisioning(w, J) ==
  /\ w.step \in 0 .. 2 /\ w.count \in Nat /\ w.failures \in Nat
  /\ w.tab = None => w.step = 0
  /\ \A c \in J : c.tab = w.tab /\ c.tab # None /\ w.creating /\ w.step # 2
  /\ \A c, d \in J : c = d
  /\ w.count <= 1 + w.failures
  /\ w.step # 2 /\ (\A c \in J : c.kind = "create") => w.count <= w.failures

(* One test at a time, of what was typed in when it began; if nothing was    *)
(* changed since, the wizard's verdict is about what it shows.              *)
Testing(w, T) ==
  /\ \A c \in T : /\ c.tab = w.tab /\ c.tab # None /\ w.testing
                  /\ w.sound => c.conf = w.conf
  /\ \A c, d \in T : c = d
  /\ w.testing => w.health = ""
  /\ w.health = "ok" /\ w.sound => w.conf = w.tested

WizardRight ==
  Provisioning(wizard, JobsOf(calls)) /\ Testing(wizard, TestsOf(calls))

LEMMA ShutFields ==
  /\ Shut.step = 0 /\ Shut.tab = None /\ Shut.count = 0 /\ Shut.failures = 0
  /\ Shut.testing = FALSE /\ Shut.health = "" /\ DOMAIN Shut = WizardField
  BY DEF Shut, WizardField

LEMMA ZeroIsSmall == 0 \in 0 .. 2 /\ 0 \in Nat /\ 0 <= 1 + 0 /\ 0 <= 0
  OBVIOUS

(* A wizard as it is opened, or none.                                       *)
LEMMA FreshWizard ==
  ASSUME NEW w, w.count = 0, w.failures = 0, w.step = 0, w.testing = FALSE,
         w.health = ""
  PROVE  Provisioning(w, {}) /\ Testing(w, {})
  BY ZeroIsSmall DEF Provisioning, Testing

(* A step that neither the wizard nor its calls notice.                     *)
LEMMA WizardUnseen ==
  ASSUME WizardRight, wizard' = wizard,
         JobsOf(calls') = JobsOf(calls), TestsOf(calls') = TestsOf(calls)
  PROVE  WizardRight'
  BY DEF WizardRight

LEMMA UnmountJobs ==
  ASSUME NEW C, \A c \in C : CallShape(c), NEW t, NEW on
  PROVE  /\ JobsOf(Unmount(t, on, C)) = {c \in JobsOf(C) : c.tab # t}
         /\ TestsOf(Unmount(t, on, C)) = {c \in TestsOf(C) : c.tab # t}
<1>1. ASSUME NEW c \in C, c.tab = t
      PROVE  /\ [c EXCEPT !.mounted = FALSE, !.tab = on].mounted = FALSE
             /\ [c EXCEPT !.mounted = FALSE, !.tab = on].kind = c.kind
  BY DEF CallShape, CallField
<1>2. ASSUME NEW x \in Unmount(t, on, C)
      PROVE  \/ x \in C /\ x.tab # t
             \/ x.mounted = FALSE /\ x.kind # "test"
  BY <1>1, <1>2 DEF Unmount
<1>3. ASSUME NEW x \in C, x.tab # t PROVE x \in Unmount(t, on, C)
  BY <1>3 DEF Unmount
<1>4. JobsOf(Unmount(t, on, C)) = {c \in JobsOf(C) : c.tab # t}
  BY <1>2, <1>3 DEF JobsOf, Job
<1>5. TestsOf(Unmount(t, on, C)) = {c \in TestsOf(C) : c.tab # t}
  BY <1>2, <1>3 DEF TestsOf
<1> QED
  BY <1>4, <1>5

(* A tab goes away, with the wizard if it has it.                           *)
LEMMA WizardUnmounted ==
  ASSUME Shaped, WizardRight, NEW t \in Tab, NEW on, NEW C \in SUBSET calls,
         JobsOf(C) = JobsOf(calls), TestsOf(C) = TestsOf(calls),
         wizard' = Unmounted(t), calls' = Unmount(t, on, C)
  PROVE  WizardRight'
<1>1. /\ JobsOf(calls') = {c \in JobsOf(calls) : c.tab # t}
      /\ TestsOf(calls') = {c \in TestsOf(calls) : c.tab # t}
  <2>1. \A c \in C : CallShape(c)
    BY DEF Shaped
  <2> QED
    BY <2>1, UnmountJobs
<1>2. CASE wizard.tab = t
  <2>1. JobsOf(calls') = {} /\ TestsOf(calls') = {}
    BY <1>1, <1>2 DEF WizardRight, Provisioning, Testing
  <2>2. wizard' = Shut
    BY <1>2 DEF Unmounted
  <2>3. Provisioning(wizard', {}) /\ Testing(wizard', {})
    BY <2>2, ShutFields, FreshWizard
  <2> QED
    BY <2>1, <2>3 DEF WizardRight
<1>3. CASE wizard.tab # t
  <2>1. JobsOf(calls') = JobsOf(calls) /\ TestsOf(calls') = TestsOf(calls)
    BY <1>1, <1>3 DEF WizardRight, Provisioning, Testing
  <2>2. wizard' = wizard
    BY <1>3 DEF Unmounted
  <2> QED
    BY <2>1, <2>2, WizardUnseen
<1> QED
  BY <1>2, <1>3

LEMMA WizardRightInit ==
  ASSUME Init PROVE WizardRight
<1>1. wizard = Shut /\ JobsOf(calls) = {} /\ TestsOf(calls) = {}
  BY DEF Init, JobsOf, TestsOf
<1> QED
  BY <1>1, ShutFields, FreshWizard DEF WizardRight

LEMMA WizardRightStep ==
  ASSUME SessionInv, WizardRight, [Next]_vars PROVE WizardRight'
<1>0. /\ Shaped
      /\ Provisioning(wizard, JobsOf(calls)) /\ Testing(wizard, TestsOf(calls))
  BY DEF SessionInv, WizardRight
<1>1. ASSUME NEW t \in Tab, Visit(t) \/ Reload(t) \/ Callback(t) \/ SignOut(t)
      PROVE  WizardRight'
  <2>1. wizard' = Unmounted(t) /\ calls' = Unmount(t, None, calls)
    BY <1>1 DEF Visit, Reload, Callback, SignOut, Load
  <2> QED
    BY <1>0, <2>1, WizardUnmounted
<1>2. ASSUME NEW t \in Tab,
             \/ Follow(t) \/ Route(t) \/ Render(t) \/ SignIn(t) \/ SignUp(t)
             \/ OpenDrawer(t)
      PROVE  WizardRight'
  BY <1>2, WizardUnseen DEF Follow, Route, Render, SignIn, SignUp, OpenDrawer
<1>3. CASE Lapse \/ Expire \/ CookieGone \/ UNCHANGED vars
  BY <1>3, WizardUnseen DEF Lapse, Expire, CookieGone, vars
<1>4. ASSUME NEW t, NEW what, NEW go, NEW says,
             wizard' = wizard, calls' = calls \cup {Call("switch", t, what, go, says)}
      PROVE  WizardRight'
  <2>1. PICK new : new = Call("switch", t, what, go, says)
    OBVIOUS
  <2>2. new.kind = "switch"
    BY <2>1 DEF Call
  <2>3. JobsOf(calls') = JobsOf(calls) /\ TestsOf(calls') = TestsOf(calls)
    BY <1>4, <2>1, <2>2 DEF JobsOf, Job, TestsOf
  <2> QED
    BY <1>4, <2>3, WizardUnseen
<1>5. ASSUME NEW t \in Tab, NEW w \in Workspace,
             (\E label \in {"open", "default"} : SwitchTo(t, w, label)) \/ OpenRow(t, w)
      PROVE  WizardRight'
  <2>1. wizard' = wizard
    BY <1>5 DEF SwitchTo, OpenRow
  <2>2. \E what, go, says : calls' = calls \cup {Call("switch", t, what, go, says)}
    BY <1>5 DEF SwitchTo, OpenRow
  <2> QED
    BY <1>4, <2>1, <2>2
<1>6. ASSUME NEW t \in Tab, ToDefault(t) PROVE WizardRight'
  BY <1>4, <1>6 DEF ToDefault
<1>7. CASE SwitchIn
  <2>1. PICK t, what : t = wizard.tab /\ what = wizard.result
    OBVIOUS
  <2>2. wizard' = wizard /\ calls' = calls \cup {Call("switch", t, what, "dashboard", {what})}
    BY <1>7, <2>1 DEF SwitchIn
  <2> QED
    BY <1>4, <2>2
<1>8. ASSUME NEW t \in Tab, OpenWizard(t) PROVE WizardRight'
  <2>1. /\ calls' = calls /\ wizard.tab = None
        /\ wizard' = [Shut EXCEPT !.tab = t, !.first = tab[t].at = "onboarding"]
    BY <1>8 DEF OpenWizard
  <2>2. JobsOf(calls') = {} /\ TestsOf(calls') = {}
    BY <1>0, <2>1 DEF Provisioning, Testing
  <2>3. /\ wizard'.count = 0 /\ wizard'.failures = 0 /\ wizard'.step = 0
        /\ wizard'.testing = FALSE /\ wizard'.health = ""
    BY <2>1, ShutFields DEF WizardField
  <2> QED
    BY <2>2, <2>3, FreshWizard DEF WizardRight
<1>9. CASE CloseWizard
  <2>1. PICK t : t = wizard.tab
    OBVIOUS
  <2>2. /\ t \in Tab /\ wizard' = Unmounted(t) /\ calls' = Unmount(t, t, calls)
    BY <1>0, <1>9, <2>1 DEF CloseWizard, Shaped, Unmounted
  <2> QED
    BY <1>0, <2>2, WizardUnmounted
<1>10. CASE Turn
  <2>1. /\ wizard.step < 2 /\ wizard.tab # None /\ calls' = calls
        /\ wizard' = [wizard EXCEPT !.step = 1 - wizard.step]
    BY <1>10 DEF Turn
  <2>2. wizard.step \in 0 .. 2
    BY <1>0 DEF Provisioning
  <2>3. PICK n : n = 1 - wizard.step
    OBVIOUS
  <2>4. n \in 0 .. 2 /\ n # 2 /\ wizard.step # 2
    BY <2>1, <2>2, <2>3
  <2>5. /\ wizard'.step = n /\ wizard'.tab = wizard.tab
        /\ wizard'.count = wizard.count /\ wizard'.failures = wizard.failures
        /\ wizard'.creating = wizard.creating /\ wizard'.testing = wizard.testing
        /\ wizard'.sound = wizard.sound /\ wizard'.health = wizard.health
        /\ wizard'.conf = wizard.conf /\ wizard'.tested = wizard.tested
    BY <1>0, <2>1, <2>3 DEF Shaped, WizardField
  <2>6. Provisioning(wizard', JobsOf(calls'))
    BY <1>0, <2>1, <2>4, <2>5 DEF Provisioning
  <2>7. Testing(wizard', TestsOf(calls'))
    BY <1>0, <2>1, <2>5 DEF Testing
  <2> QED
    BY <2>6, <2>7 DEF WizardRight
<1>11. ASSUME wizard'.step = wizard.step, wizard'.tab = wizard.tab,
              wizard'.count = wizard.count, wizard'.failures = wizard.failures,
              wizard'.creating = wizard.creating, JobsOf(calls') = JobsOf(calls)
       PROVE  Provisioning(wizard', JobsOf(calls'))
  BY <1>0, <1>11 DEF Provisioning
<1>12. CASE TypeUrl
  <2>1. /\ calls' = calls
        /\ wizard'.step = wizard.step /\ wizard'.tab = wizard.tab
        /\ wizard'.count = wizard.count /\ wizard'.failures = wizard.failures
        /\ wizard'.creating = wizard.creating /\ wizard'.testing = wizard.testing
        /\ wizard'.health = ""
        /\ wizard.testing => wizard'.sound = FALSE
    BY <1>0, <1>12 DEF TypeUrl, Shaped, WizardField
  <2>2. Testing(wizard', TestsOf(calls'))
    BY <1>0, <2>1 DEF Testing
  <2> QED
    BY <1>11, <2>1, <2>2 DEF WizardRight
<1>13. CASE TypeCredentials
  <2>1. /\ calls' = calls
        /\ wizard'.step = wizard.step /\ wizard'.tab = wizard.tab
        /\ wizard'.count = wizard.count /\ wizard'.failures = wizard.failures
        /\ wizard'.creating = wizard.creating /\ wizard'.testing = wizard.testing
        /\ wizard'.health = wizard.health
        /\ wizard.testing \/ wizard.health = "ok" => wizard'.sound = FALSE
    BY <1>0, <1>13 DEF TypeCredentials, Shaped, WizardField
  <2>2. Testing(wizard', TestsOf(calls'))
    BY <1>0, <2>1 DEF Testing
  <2> QED
    BY <1>11, <2>1, <2>2 DEF WizardRight
<1>14. CASE Test
  <2>1. /\ wizard.step = 1 /\ ~wizard.testing
        /\ wizard' = [wizard EXCEPT !.testing = TRUE, !.health = "", !.sound = TRUE]
        /\ calls' = calls \cup {Call("test", wizard.tab, None, "", {})}
    BY <1>14 DEF Test
  <2>2. PICK new : new = Call("test", wizard.tab, None, "", {})
    OBVIOUS
  <2>3. new.kind = "test" /\ new.tab = wizard.tab /\ new.conf = wizard.conf
    BY <2>2 DEF Call
  <2>4. /\ wizard'.step = wizard.step /\ wizard'.tab = wizard.tab
        /\ wizard'.count = wizard.count /\ wizard'.failures = wizard.failures
        /\ wizard'.creating = wizard.creating /\ wizard'.testing = TRUE
        /\ wizard'.health = "" /\ wizard'.conf = wizard.conf
    BY <1>0, <2>1 DEF Shaped, WizardField
  <2>5. JobsOf(calls') = JobsOf(calls) /\ TestsOf(calls') = TestsOf(calls) \cup {new}
    <3>1. calls' = calls \cup {new} /\ new.kind = "test"
      BY <2>1, <2>2, <2>3
    <3>2. ~Job(new)
      BY <3>1 DEF Job
    <3>3. JobsOf(calls') = JobsOf(calls)
      BY <3>1, <3>2 DEF JobsOf
    <3>4. TestsOf(calls') = TestsOf(calls) \cup {new}
      BY <3>1 DEF TestsOf
    <3> QED
      BY <3>3, <3>4
  <2>6. TestsOf(calls) = {} /\ wizard.tab # None
    <3>1. ASSUME NEW d \in TestsOf(calls) PROVE FALSE
      <4>1. wizard.testing
        BY <1>0, <3>1, Zenon DEF Testing
      <4> QED
        BY <2>1, <4>1, Zenon
    <3>2. wizard.tab = None => wizard.step = 0
      BY <1>0 DEF Provisioning
    <3>3. wizard.step = 1
      BY <2>1
    <3>4. wizard.tab # None
      BY <3>2, <3>3
    <3> QED
      BY <3>1, <3>4
  <2>7. Testing(wizard', TestsOf(calls'))
    BY <2>3, <2>4, <2>5, <2>6 DEF Testing
  <2> QED
    BY <1>11, <2>4, <2>5, <2>7 DEF WizardRight
<1>15. ASSUME NEW c \in calls, Tested(c) PROVE WizardRight'
  <2>1. PICK h \in {"ok", "bad"} :
          wizard' = [wizard EXCEPT !.testing = FALSE, !.health = h,
                        !.tested = IF h = "ok" THEN c.conf ELSE wizard.tested]
    BY <1>15 DEF Tested
  <2>2. c \in TestsOf(calls) /\ calls' = calls \ {c}
    BY <1>15 DEF Tested, TestsOf
  <2>3. /\ wizard'.step = wizard.step /\ wizard'.tab = wizard.tab
        /\ wizard'.count = wizard.count /\ wizard'.failures = wizard.failures
        /\ wizard'.creating = wizard.creating /\ wizard'.testing = FALSE
        /\ wizard'.health = h /\ wizard'.conf = wizard.conf
        /\ wizard'.sound = wizard.sound
        /\ h = "ok" => wizard'.tested = c.conf
    BY <1>0, <2>1 DEF Shaped, WizardField
  <2>4. JobsOf(calls') = JobsOf(calls) /\ TestsOf(calls') = {}
    <3>1. TestsOf(calls') = TestsOf(calls) \ {c} /\ JobsOf(calls') = JobsOf(calls)
      BY <2>2 DEF JobsOf, Job, TestsOf
    <3> QED
      BY <1>0, <2>2, <3>1 DEF Testing
  <2>5. Testing(wizard', TestsOf(calls'))
    BY <1>0, <2>2, <2>3, <2>4 DEF Testing
  <2> QED
    BY <1>11, <2>3, <2>4, <2>5 DEF WizardRight
<1>16. ASSUME wizard'.testing = wizard.testing, wizard'.health = wizard.health,
              wizard'.sound = wizard.sound, wizard'.conf = wizard.conf,
              wizard'.tested = wizard.tested, wizard'.tab = wizard.tab,
              TestsOf(calls') = TestsOf(calls)
       PROVE  Testing(wizard', TestsOf(calls'))
  BY <1>0, <1>16 DEF Testing
<1>17. CASE Provision
  <2>1. /\ wizard.step = 1 /\ ~wizard.creating
        /\ wizard' = [wizard EXCEPT !.creating = TRUE]
        /\ calls' = calls \cup {Call("create", wizard.tab, None, "", {})}
    BY <1>17 DEF Provision
  <2>2. PICK new : new = Call("create", wizard.tab, None, "", {})
    OBVIOUS
  <2>3. new.kind = "create" /\ new.tab = wizard.tab /\ Job(new)
    BY <2>2 DEF Call, Job
  <2>4. /\ wizard'.step = wizard.step /\ wizard'.tab = wizard.tab
        /\ wizard'.count = wizard.count /\ wizard'.failures = wizard.failures
        /\ wizard'.creating = TRUE /\ wizard'.testing = wizard.testing
        /\ wizard'.health = wizard.health /\ wizard'.sound = wizard.sound
        /\ wizard'.conf = wizard.conf /\ wizard'.tested = wizard.tested
    BY <1>0, <2>1 DEF Shaped, WizardField
  <2>5. JobsOf(calls') = JobsOf(calls) \cup {new} /\ TestsOf(calls') = TestsOf(calls)
    <3>1. calls' = calls \cup {new} /\ new.kind = "create"
      BY <2>1, <2>2, <2>3
    <3>2. JobsOf(calls') = JobsOf(calls) \cup {new}
      BY <2>3, <3>1 DEF JobsOf
    <3>3. TestsOf(calls') = TestsOf(calls)
      BY <3>1 DEF TestsOf
    <3> QED
      BY <3>2, <3>3
  <2>6. JobsOf(calls) = {} /\ wizard.tab # None
    <3>1. ASSUME NEW d \in JobsOf(calls) PROVE FALSE
      <4>1. wizard.creating
        BY <1>0, <3>1, Zenon DEF Provisioning
      <4> QED
        BY <2>1, <4>1, Zenon
    <3>2. wizard.tab = None => wizard.step = 0
      BY <1>0 DEF Provisioning
    <3>3. wizard.step = 1
      BY <2>1
    <3>4. wizard.tab # None
      BY <3>2, <3>3
    <3> QED
      BY <3>1, <3>4
  <2>7. Provisioning(wizard', JobsOf(calls'))
    <3>1. JobsOf(calls') = {new}
      BY <2>5, <2>6
    <3>2. /\ wizard.step \in 0 .. 2 /\ wizard.count \in Nat /\ wizard.failures \in Nat
          /\ wizard.count <= 1 + wizard.failures
      BY <1>0 DEF Provisioning
    <3>3. wizard.step # 2 /\ JobsOf(calls) = {} => wizard.count <= wizard.failures
      BY <1>0 DEF Provisioning
    <3>4. wizard.step = 1
      BY <2>1
    <3>5. wizard.count <= wizard.failures
      BY <2>6, <3>3, <3>4
    <3> QED
      BY <2>3, <2>4, <2>6, <3>1, <3>2, <3>4, <3>5 DEF Provisioning
  <2> QED
    BY <1>16, <2>4, <2>5, <2>7 DEF WizardRight
<1>18. ASSUME NEW c \in calls, NEW k, NEW w
       PROVE  LET x == [c EXCEPT !.kind = k, !.what = w] IN
              x.kind = k /\ x.tab = c.tab /\ x.mounted = c.mounted
  BY <1>0 DEF Shaped, CallShape, CallField
<1>19. ASSUME NEW c \in calls, NEW k PROVE LET x == [c EXCEPT !.kind = k] IN
              x.kind = k /\ x.tab = c.tab /\ x.mounted = c.mounted
  BY <1>0 DEF Shaped, CallShape, CallField
<1>20. ASSUME NEW c \in calls, c.kind \in {"create", "made", "failed", "activate"},
              NEW x, calls' = (calls \ {c}) \cup {x} \/ calls' = calls \ {c},
              x.kind \in {"create", "made", "failed", "activate"},
              x.tab = c.tab, x.mounted = c.mounted
       PROVE  /\ TestsOf(calls') = TestsOf(calls)
              /\ ~c.mounted => JobsOf(calls') = JobsOf(calls)
              /\ c.mounted => /\ c \in JobsOf(calls) /\ JobsOf(calls) = {c}
                              /\ JobsOf(calls') = IF calls' = calls \ {c} THEN {}
                                                  ELSE {x}
  <2>1. /\ TestsOf(calls') = TestsOf(calls)
        /\ ~c.mounted => JobsOf(calls') = JobsOf(calls)
    BY <1>20 DEF JobsOf, Job, TestsOf
  <2>2. ASSUME c.mounted PROVE c \in JobsOf(calls) /\ JobsOf(calls) = {c}
    <3>1. c \in JobsOf(calls)
      BY <1>20, <2>2 DEF JobsOf, Job
    <3> QED
      BY <1>0, <3>1 DEF Provisioning
  <2>3. ASSUME c.mounted
        PROVE  JobsOf(calls') = IF calls' = calls \ {c} THEN {} ELSE {x}
    <3>1. CASE calls' = calls \ {c}
      <4>1. JobsOf(calls') = JobsOf(calls) \ {c}
        BY <3>1 DEF JobsOf
      <4> QED
        BY <2>2, <2>3, <3>1, <4>1
    <3>2. CASE calls' # calls \ {c}
      <4>1. JobsOf(calls') = (JobsOf(calls) \ {c}) \cup {x}
        BY <1>20, <2>3, <3>2 DEF JobsOf, Job
      <4> QED
        BY <2>2, <2>3, <3>2, <4>1
    <3> QED
      BY <3>1, <3>2
  <2> QED
    BY <2>1, <2>2, <2>3
<1>21. ASSUME NEW c \in calls, Created(c) PROVE WizardRight'
  <2>1. PICK w : w = Fresh
    OBVIOUS
  <2>2. PICK x \in {[c EXCEPT !.kind = "made", !.what = w], [c EXCEPT !.kind = "failed"]} :
          \/ calls' = (calls \ {c}) \cup {x} /\ c.tab # None
          \/ calls' = calls \ {c} /\ c.tab = None
    BY <1>21, <2>1 DEF Created
  <2>3. /\ c.kind = "create" /\ wizard' = Counted(c)
        /\ x.kind \in {"made", "failed"} /\ x.tab = c.tab /\ x.mounted = c.mounted
    <3>1. c.kind = "create" /\ wizard' = Counted(c)
      BY <1>21 DEF Created
    <3>2. CASE x = [c EXCEPT !.kind = "made", !.what = w]
      BY <1>18, <3>1, <3>2
    <3>3. CASE x = [c EXCEPT !.kind = "failed"]
      BY <1>19, <3>1, <3>3
    <3> QED
      BY <2>2, <3>2, <3>3
  <2>4. /\ TestsOf(calls') = TestsOf(calls)
        /\ ~c.mounted => JobsOf(calls') = JobsOf(calls)
        /\ c.mounted => /\ c \in JobsOf(calls) /\ JobsOf(calls) = {c}
                        /\ JobsOf(calls') = IF calls' = calls \ {c} THEN {} ELSE {x}
    BY <1>20, <2>2, <2>3
  <2>5. CASE ~c.mounted
    BY <2>3, <2>4, <2>5, WizardUnseen DEF Counted
  <2>6. CASE c.mounted
    <3>1. wizard' = [wizard EXCEPT !.count = wizard.count + 1]
      BY <2>3, <2>6 DEF Counted
    <3>2. /\ wizard'.step = wizard.step /\ wizard'.tab = wizard.tab
          /\ wizard'.count = wizard.count + 1 /\ wizard'.failures = wizard.failures
          /\ wizard'.creating = wizard.creating /\ wizard'.testing = wizard.testing
          /\ wizard'.health = wizard.health /\ wizard'.sound = wizard.sound
          /\ wizard'.conf = wizard.conf /\ wizard'.tested = wizard.tested
      BY <1>0, <3>1 DEF Shaped, WizardField
    <3>3. /\ c.tab = wizard.tab /\ c.tab # None /\ wizard.creating /\ wizard.step # 2
      BY <1>0, <2>4, <2>6 DEF Provisioning
    <3>4. wizard.count <= wizard.failures
      BY <1>0, <2>3, <2>4, <2>6, <3>3 DEF Provisioning
    <3>5. JobsOf(calls') = {x} /\ x.kind # "create"
      <4>1. calls' # calls \ {c} \/ JobsOf(calls') = {}
        BY <2>4, <2>6
      <4>2. x \in calls'
        BY <2>2, <3>3
      <4>3. x \in JobsOf(calls')
        BY <2>3, <2>6, <4>2 DEF JobsOf, Job
      <4> QED
        BY <2>3, <2>4, <2>6, <4>1, <4>3
    <3>6. Provisioning(wizard', JobsOf(calls'))
      <4>1. wizard.count \in Nat /\ wizard.failures \in Nat
        BY <1>0 DEF Provisioning
      <4>2. wizard.count + 1 \in Nat /\ wizard.count + 1 <= 1 + wizard.failures
        BY <3>4, <4>1
      <4> QED
        BY <1>0, <2>3, <3>2, <3>3, <3>5, <4>1, <4>2 DEF Provisioning
    <3> QED
      BY <1>16, <2>4, <3>2, <3>6 DEF WizardRight
  <2> QED
    BY <2>5, <2>6
<1>22. ASSUME NEW c \in calls, Refused(c) PROVE WizardRight'
  <2>1. PICK x : x = [c EXCEPT !.kind = "failed"]
    OBVIOUS
  <2>2. \/ calls' = (calls \ {c}) \cup {x}
        \/ calls' = calls \ {c}
    BY <1>22, <2>1 DEF Refused
  <2>3. /\ c.kind = "create" /\ wizard' = wizard
        /\ x.kind = "failed" /\ x.tab = c.tab /\ x.mounted = c.mounted
    BY <1>19, <1>22, <2>1 DEF Refused
  <2>4. /\ TestsOf(calls') = TestsOf(calls)
        /\ ~c.mounted => JobsOf(calls') = JobsOf(calls)
        /\ c.mounted => /\ c \in JobsOf(calls) /\ JobsOf(calls) = {c}
                        /\ JobsOf(calls') \subseteq {x}
    BY <1>20, <2>2, <2>3
  <2>5. CASE ~c.mounted
    BY <2>3, <2>4, <2>5, WizardUnseen
  <2>6. CASE c.mounted
    <3>1. /\ c.tab = wizard.tab /\ c.tab # None /\ wizard.creating /\ wizard.step # 2
          /\ wizard.count <= wizard.failures
      BY <1>0, <2>3, <2>4, <2>6 DEF Provisioning
    <3>2. Provisioning(wizard', JobsOf(calls'))
      BY <1>0, <2>3, <2>4, <2>6, <3>1 DEF Provisioning
    <3> QED
      BY <1>0, <2>3, <2>4, <3>2 DEF WizardRight
  <2> QED
    BY <2>5, <2>6
<1>23. ASSUME NEW w
       PROVE  /\ Live(w).step = 2 /\ Live(w).tab = wizard.tab
              /\ Live(w).count = wizard.count /\ Live(w).failures = wizard.failures
              /\ Live(w).testing = wizard.testing /\ Live(w).health = wizard.health
              /\ Live(w).sound = wizard.sound /\ Live(w).conf = wizard.conf
              /\ Live(w).tested = wizard.tested
  BY <1>0 DEF Live, Shaped, WizardField
<1>24. ASSUME NEW w, wizard' = Live(w), JobsOf(calls') = {}, wizard.tab # None,
              TestsOf(calls') = TestsOf(calls)
       PROVE  WizardRight'
  <2>1. /\ wizard'.step = 2 /\ wizard'.tab = wizard.tab
        /\ wizard'.count = wizard.count /\ wizard'.failures = wizard.failures
        /\ wizard'.testing = wizard.testing /\ wizard'.health = wizard.health
        /\ wizard'.sound = wizard.sound /\ wizard'.conf = wizard.conf
        /\ wizard'.tested = wizard.tested
    BY <1>23, <1>24
  <2>2. Provisioning(wizard', JobsOf(calls'))
    BY <1>0, <1>24, <2>1 DEF Provisioning
  <2> QED
    BY <1>16, <1>24, <2>1, <2>2 DEF WizardRight
<1>25. ASSUME NEW c \in calls, Keep(c) PROVE WizardRight'
  <2>1. PICK x : x = [c EXCEPT !.kind = "activate"]
    OBVIOUS
  <2>2. /\ c.kind = "made"
        /\ \/ calls' = (calls \ {c}) \cup {x} /\ wizard' = wizard
           \/ /\ calls' = calls \ {c}
              /\ wizard' = IF c.mounted THEN Live(c.what) ELSE wizard
    BY <1>25, <2>1 DEF Keep
  <2>3. x.kind = "activate" /\ x.tab = c.tab /\ x.mounted = c.mounted
    BY <1>19, <2>1
  <2>4. /\ TestsOf(calls') = TestsOf(calls)
        /\ ~c.mounted => JobsOf(calls') = JobsOf(calls)
        /\ c.mounted => /\ c \in JobsOf(calls) /\ JobsOf(calls) = {c}
                        /\ JobsOf(calls') = IF calls' = calls \ {c} THEN {} ELSE {x}
    BY <1>20, <2>2, <2>3
  <2>5. CASE ~c.mounted
    BY <2>2, <2>4, <2>5, WizardUnseen
  <2>6. CASE c.mounted
    <3>1. c.tab = wizard.tab /\ c.tab # None /\ wizard.creating /\ wizard.step # 2
      BY <1>0, <2>4, <2>6 DEF Provisioning
    <3>2. CASE calls' = calls \ {c} /\ wizard' = Live(c.what)
      BY <1>24, <2>4, <2>6, <3>1, <3>2
    <3>3. CASE wizard' = wizard /\ JobsOf(calls') \subseteq {x}
      <4>1. Provisioning(wizard', JobsOf(calls'))
        <5>1. JobsOf(calls') = {x}
          <6>1. x \in calls'
            BY <2>2, <2>6, <3>1, <3>3, <1>23
          <6>2. x \in JobsOf(calls')
            BY <2>3, <2>6, <6>1 DEF JobsOf, Job
          <6> QED
            BY <3>3, <6>2
        <5> QED
          BY <1>0, <2>3, <2>6, <3>1, <3>3, <5>1 DEF Provisioning
      <4> QED
        BY <1>0, <2>4, <3>3, <4>1 DEF WizardRight
    <3> QED
      BY <2>2, <2>4, <2>6, <3>2, <3>3
  <2> QED
    BY <2>5, <2>6
<1>26. ASSUME NEW c \in calls, Activate(c) PROVE WizardRight'
  <2>1. /\ c.kind = "activate" /\ calls' = calls \ {c}
        /\ wizard' = IF c.mounted THEN Live(c.what) ELSE wizard
    BY <1>26 DEF Activate
  <2>2. /\ TestsOf(calls') = TestsOf(calls)
        /\ ~c.mounted => JobsOf(calls') = JobsOf(calls)
        /\ c.mounted => c \in JobsOf(calls) /\ JobsOf(calls') = {}
    BY <1>20, <2>1
  <2>3. CASE ~c.mounted
    BY <2>1, <2>2, <2>3, WizardUnseen
  <2>4. CASE c.mounted
    <3>1. wizard.tab # None
      BY <1>0, <2>2, <2>4 DEF Provisioning
    <3> QED
      BY <1>24, <2>1, <2>2, <2>4, <3>1
  <2> QED
    BY <2>3, <2>4
<1>27. ASSUME NEW c \in calls, Apologise(c) PROVE WizardRight'
  <2>1. /\ c.kind \in {"failed", "activate"} /\ calls' = calls \ {c}
        /\ wizard' = IF c.mounted
                     THEN [wizard EXCEPT !.creating = FALSE,
                                         !.failures = wizard.failures + 1]
                     ELSE wizard
    BY <1>27 DEF Apologise
  <2>2. /\ TestsOf(calls') = TestsOf(calls)
        /\ ~c.mounted => JobsOf(calls') = JobsOf(calls)
        /\ c.mounted => c \in JobsOf(calls) /\ JobsOf(calls') = {}
    BY <1>20, <2>1
  <2>3. CASE ~c.mounted
    BY <2>1, <2>2, <2>3, WizardUnseen
  <2>4. CASE c.mounted
    <3>1. /\ wizard'.step = wizard.step /\ wizard'.tab = wizard.tab
          /\ wizard'.count = wizard.count /\ wizard'.failures = wizard.failures + 1
          /\ wizard'.testing = wizard.testing /\ wizard'.health = wizard.health
          /\ wizard'.sound = wizard.sound /\ wizard'.conf = wizard.conf
          /\ wizard'.tested = wizard.tested
      BY <1>0, <2>1, <2>4 DEF Shaped, WizardField
    <3>2. Provisioning(wizard', JobsOf(calls'))
      BY <1>0, <2>2, <2>4, <3>1 DEF Provisioning
    <3> QED
      BY <1>16, <2>2, <3>1, <3>2 DEF WizardRight
  <2> QED
    BY <2>3, <2>4
<1>28. ASSUME NEW c \in calls, SwitchFails(c) \/ LateSwitch(c) PROVE WizardRight'
  <2>1. /\ wizard' = wizard /\ calls' = calls \ {c}
        /\ c.kind = "switch" \/ (c.kind = "activate" /\ c.tab = None)
    BY <1>28 DEF SwitchFails, LateSwitch
  <2>2. c \notin JobsOf(calls)
    BY <1>0, <2>1 DEF Provisioning, JobsOf, Job
  <2>3. JobsOf(calls') = JobsOf(calls) /\ TestsOf(calls') = TestsOf(calls)
    BY <2>1, <2>2 DEF JobsOf, TestsOf
  <2> QED
    BY <2>1, <2>3, WizardUnseen
<1>29. ASSUME NEW c \in calls, Switch(c) PROVE WizardRight'
  <2>1. PICK t : t = c.tab
    OBVIOUS
  <2>2. /\ t \in Tab /\ c.kind = "switch" /\ wizard' = Unmounted(t)
        /\ calls' = Unmount(t, None, calls \ {c})
    BY <1>0, <1>29, <2>1 DEF Switch, Shaped, CallShape
  <2>3. PICK C \in SUBSET calls : C = calls \ {c}
    OBVIOUS
  <2>4. JobsOf(C) = JobsOf(calls) /\ TestsOf(C) = TestsOf(calls)
    BY <2>2, <2>3 DEF JobsOf, Job, TestsOf
  <2> QED
    BY <1>0, <2>2, <2>3, <2>4, WizardUnmounted
<1> QED
  BY <1>1, <1>2, <1>3, <1>5, <1>6, <1>7, <1>8, <1>9, <1>10, <1>12, <1>13, <1>14,
     <1>15, <1>17, <1>21, <1>22, <1>25, <1>26, <1>27, <1>28, <1>29 DEF Next

-----------------------------------------------------------------------------
(* Types, and where a tab is going.                                         *)

(* A tab was asked to go to p, or to onboarding, or has lost where it was   *)
(* to go and ends on the dashboard.                                         *)
Ends(r, p) == p \in {r.wanted, "onboarding"} \/ (r.lost /\ p = "dashboard")

(* It is there, or at the login and goes on from there.                     *)
Headed(r) ==
  /\ r.at = "login" \/ Ends(r, r.at)
  /\ r.at = "login" => Ends(r, IF r.next = None THEN "dashboard" ELSE r.next)

(* Of a tab, in a browser of name n and with the workspaces M: what it      *)
(* shows exists; it is where it was to go or on its way; and what the       *)
(* button of the last switch promised is whose the browser is now.          *)
Fit(r, M, n) ==
  /\ r.at \in Path /\ r.next \in OrNone(Path \ {"login"})
  /\ r.phase \in {"asked", "passed", "shown"}
  /\ r.header \in OrNone(M) /\ r.content \in OrNone(M) /\ r.who \in OrNone(M)
  /\ Headed(r)
  /\ r.meant # {} => n \in r.meant

(* A switch is to a workspace that exists, or back to h, and its button had *)
(* promised that; a call that was provisioned for names its workspace.      *)
CallFit(c, M, h) ==
  /\ c.kind = "switch" => /\ c.what \in M \cup {Own}
                          /\ (IF c.what = Own THEN h ELSE c.what) \in c.says
  /\ c.kind \in {"made", "activate"} => c.what \in M

World ==
  /\ browser \in Browser /\ made \subseteq Workspace /\ expired \subseteq made
  /\ browser.kept \subseteq made /\ browser.cookie \in OrNone(made)
  /\ browser.home \in OrNone(made)

WizardFit == wizard.step = 2 => wizard.result \in made

Fitted ==
  /\ World
  /\ \A t \in Tab : Fit(tab[t], made, Named(browser))
  /\ \A c \in calls : CallFit(c, made, browser.home)
  /\ WizardFit

LEMMA HeadingFields ==
  ASSUME NEW r, DOMAIN r = TabField, NEW p
  PROVE  /\ \A h \in {Heading(r, p), Loading(r, p)} :
              /\ DOMAIN h = TabField
              /\ h.at = p /\ h.phase = "asked" /\ h.next = None /\ h.who = None
              /\ h.header \in {r.header, None} /\ h.content \in {r.content, None}
              /\ h.wanted = p /\ ~h.lost /\ h.meant = r.meant
  BY DEF Loading, Heading, TabField

(* A tab r that has been sent on, as h.                                     *)
Sent(r, h) ==
  /\ DOMAIN h = TabField
  /\ h.at \in Path /\ h.next \in OrNone(Path \ {"login"}) /\ h.phase = "asked"
  /\ h.header \in {r.header, None} /\ h.content \in {r.content, None} /\ h.who = None
  /\ Headed(h) /\ h.meant = r.meant

LEMMA SentTo ==
  ASSUME NEW r, DOMAIN r = TabField, NEW p \in Path \ {"login"},
         NEW h \in {Heading(r, p), Loading(r, p)}
  PROVE  Sent(r, h)
<1>1. /\ DOMAIN h = TabField
      /\ h.at = p /\ h.phase = "asked" /\ h.next = None /\ h.who = None
      /\ h.header \in {r.header, None} /\ h.content \in {r.content, None}
      /\ h.wanted = p /\ ~h.lost /\ h.meant = r.meant
  BY HeadingFields
<1> QED
  BY <1>1 DEF Sent, Headed, Ends, OrNone

LEMMA SentStill ==
  ASSUME NEW r, DOMAIN r = TabField, NEW p \in Path \ {"login"}, Ends(r, p),
         NEW h, h = StillTo(Heading(r, p), r)
  PROVE  Sent(r, h)
<1>1. PICK g : g = Heading(r, p)
  OBVIOUS
<1>2. /\ DOMAIN g = TabField
      /\ g.at = p /\ g.phase = "asked" /\ g.next = None /\ g.who = None
      /\ g.header \in {r.header, None} /\ g.content \in {r.content, None}
      /\ g.meant = r.meant
  BY <1>1, HeadingFields
<1>3. h = [g EXCEPT !.wanted = r.wanted, !.lost = r.lost]
  BY <1>1 DEF StillTo
<1>4. /\ DOMAIN h = TabField
      /\ h.at = p /\ h.phase = "asked" /\ h.next = None /\ h.who = None
      /\ h.header \in {r.header, None} /\ h.content \in {r.content, None}
      /\ h.wanted = r.wanted /\ h.lost = r.lost /\ h.meant = r.meant
  BY <1>2, <1>3 DEF TabField
<1> QED
  BY <1>4 DEF Sent, Headed, Ends, OrNone

LEMMA SentAsked ==
  ASSUME NEW r, DOMAIN r = TabField, NEW p \in Path, NEW h, h = Asked(r, p)
  PROVE  Sent(r, h)
<1>1. PICK g : g = Loading(r, p)
  OBVIOUS
<1>2. /\ DOMAIN g = TabField
      /\ g.at = p /\ g.phase = "asked" /\ g.next = None /\ g.who = None
      /\ g.header \in {r.header, None} /\ g.content \in {r.content, None}
      /\ g.meant = r.meant /\ ~g.lost
  BY <1>1, HeadingFields
<1>3. PICK w : w = IF p = "login" THEN "dashboard" ELSE p
  OBVIOUS
<1>4. h = [g EXCEPT !.wanted = w]
  BY <1>1, <1>3 DEF Asked
<1>5. /\ DOMAIN h = TabField
      /\ h.at = p /\ h.phase = "asked" /\ h.next = None /\ h.who = None
      /\ h.header \in {r.header, None} /\ h.content \in {r.content, None}
      /\ h.wanted = w /\ h.meant = r.meant
  BY <1>2, <1>4 DEF TabField
<1> QED
  BY <1>3, <1>5 DEF Sent, Headed, Ends, OrNone

LEMMA SentAgain ==
  ASSUME NEW r, DOMAIN r = TabField, r.at \in Path, r.next \in OrNone(Path \ {"login"}),
         Headed(r), NEW h, h = Again(r)
  PROVE  Sent(r, h)
<1>1. PICK a : a = Loading(r, r.at)
  OBVIOUS
<1>2. /\ DOMAIN a = TabField
      /\ a.at = r.at /\ a.phase = "asked" /\ a.who = None
      /\ a.header \in {r.header, None} /\ a.content \in {r.content, None}
      /\ a.meant = r.meant
  BY <1>1, HeadingFields
<1>3. PICK g : g = [a EXCEPT !.wanted = r.wanted, !.lost = r.lost]
  OBVIOUS
<1>4. h = [g EXCEPT !.next = r.next]
  BY <1>1, <1>3 DEF Again, StillTo
<1>5. /\ DOMAIN h = TabField
      /\ h.at = r.at /\ h.phase = "asked" /\ h.next = r.next /\ h.who = None
      /\ h.header \in {r.header, None} /\ h.content \in {r.content, None}
      /\ h.wanted = r.wanted /\ h.lost = r.lost /\ h.meant = r.meant
  BY <1>2, <1>3, <1>4 DEF TabField
<1> QED
  BY <1>5 DEF Sent, Headed, Ends

LEMMA SentRefused ==
  ASSUME NEW r, DOMAIN r = TabField, NEW p, NEW h, h = RefusedLink(r, p)
  PROVE  Sent(r, h)
<1>1. PICK l : l = Loading(r, "login")
  OBVIOUS
<1>2. /\ DOMAIN l = TabField
      /\ l.at = "login" /\ l.phase = "asked" /\ l.next = None /\ l.who = None
      /\ l.header \in {r.header, None} /\ l.content \in {r.content, None}
      /\ l.meant = r.meant
  BY <1>1, HeadingFields
<1>3. h = [l EXCEPT !.wanted = p, !.lost = TRUE]
  BY <1>1 DEF RefusedLink
<1>4. /\ DOMAIN h = TabField
      /\ h.at = "login" /\ h.phase = "asked" /\ h.next = None /\ h.who = None
      /\ h.header \in {r.header, None} /\ h.content \in {r.content, None}
      /\ h.lost = TRUE /\ h.meant = r.meant
  BY <1>2, <1>3 DEF TabField
<1> QED
  BY <1>4 DEF Sent, Headed, Ends, OrNone, Path

LEMMA SentFits ==
  ASSUME NEW r, NEW h, NEW M, NEW n, Fit(r, M, n), Sent(r, h)
  PROVE  Fit(h, M, n)
<1>1. h.header \in OrNone(M) /\ h.content \in OrNone(M) /\ h.who \in OrNone(M)
  BY DEF Fit, Sent, OrNone
<1>2. /\ h.at \in Path /\ h.next \in OrNone(Path \ {"login"}) /\ h.phase = "asked"
      /\ Headed(h) /\ (h.meant # {} => n \in h.meant)
  BY DEF Fit, Sent
<1> QED
  BY <1>1, <1>2 DEF Fit

(* More workspaces do no harm.                                              *)
LEMMA FitGrows ==
  ASSUME NEW M, NEW N, M \subseteq N
  PROVE  /\ \A r, n : Fit(r, M, n) => Fit(r, N, n)
         /\ \A c, h : CallFit(c, M, h) => CallFit(c, N, h)
  BY DEF Fit, CallFit, OrNone

LEMMA UnmountFits ==
  ASSUME NEW C, NEW M, NEW h, \A c \in C : CallShape(c) /\ CallFit(c, M, h),
         NEW t, NEW on
  PROVE  \A x \in Unmount(t, on, C) : CallFit(x, M, h)
<1>1. ASSUME NEW x \in Unmount(t, on, C) PROVE CallFit(x, M, h)
  <2>1. PICK c \in C : x = c \/ x = [c EXCEPT !.mounted = FALSE, !.tab = on]
    BY <1>1 DEF Unmount
  <2>2. x.kind = c.kind /\ x.what = c.what /\ x.says = c.says
    BY <2>1 DEF CallShape, CallField
  <2> QED
    BY <2>2 DEF CallFit
<1> QED
  BY <1>1

LEMMA SameBrowser ==
  ASSUME NEW b \in Browser, NEW c \in {SignedIn(b), SignedOut(b), b}
  PROVE  /\ c \in Browser /\ c.kept = b.kept /\ c.cookie = b.cookie
         /\ c.home = b.home /\ Named(c) = Named(b)
  BY DEF SignedIn, SignedOut, Browser, Named

LEMMA SwitchedTo ==
  ASSUME NEW b \in Browser, NEW to \in Workspace \cup {Own}
  PROVE  LET c == Switched(b, to) IN
         /\ c \in Browser /\ c.kept = b.kept /\ c.home = b.home
         /\ c.cookie = IF to = Own THEN None ELSE to
         /\ Named(c) = IF to = Own THEN b.home ELSE to
  BY RoutingAssumption DEF Switched, Browser, Named

(* A tab that the browser became somebody else under is to open nothing     *)
(* any more.                                                                *)
LEMMA ElsewhereFits ==
  ASSUME NEW u \in Tab, DOMAIN tab[u] = TabField,
         Fit(tab[u], made, Named(browser)), tab'[u] = Elsewhere(u)
  PROVE  Fit(tab'[u], made, Named(browser'))
<1>1. CASE browser' = browser
  BY <1>1 DEF Elsewhere
<1>2. CASE browser' # browser
  <2>1. tab'[u] = [tab[u] EXCEPT !.behind = TRUE, !.meant = {}]
    BY <1>2 DEF Elsewhere
  <2>2. /\ tab'[u].at = tab[u].at /\ tab'[u].next = tab[u].next
        /\ tab'[u].phase = tab[u].phase /\ tab'[u].header = tab[u].header
        /\ tab'[u].content = tab[u].content /\ tab'[u].who = tab[u].who
        /\ tab'[u].wanted = tab[u].wanted /\ tab'[u].lost = tab[u].lost
        /\ tab'[u].meant = {}
    BY <2>1 DEF TabField
  <2> QED
    BY <2>2 DEF Fit, Headed, Ends
<1> QED
  BY <1>1, <1>2

(* What is done to calls and the wizard only.                               *)
LEMMA CallStepFits ==
  ASSUME Fitted, browser' = browser, made' = made, expired' = expired, tab' = tab,
         \A c \in calls' : CallFit(c, made, browser.home), WizardFit'
  PROVE  Fitted'
  BY DEF Fitted, World

LEMMA ShutStep == Shut.step = 0 /\ Shut.tab = None /\ 0 \in 0 .. 2 /\ 0 # 2
<1>1. Shut.step = 0 /\ Shut.tab = None
  BY DEF Shut
<1> QED
  BY <1>1

(* One tab goes somewhere, or its user signs in or out.                     *)
LEMMA TabStepFits ==
  ASSUME Fitted, NEW t \in Tab, \A u \in Tab \ {t} : tab'[u] = tab[u],
         Fit(tab'[t], made, Named(browser)),
         browser' \in {browser, SignedIn(browser), SignedOut(browser)},
         made' = made, expired' = expired,
         \A c \in calls' : CallFit(c, made, browser.home),
         \/ wizard' = wizard
         \/ wizard' = Shut
  PROVE  Fitted'
<1>1. /\ browser' \in Browser /\ browser'.kept = browser.kept
      /\ browser'.cookie = browser.cookie /\ browser'.home = browser.home
      /\ Named(browser') = Named(browser)
  BY SameBrowser DEF Fitted, World
<1>2. World'
  BY <1>1 DEF Fitted, World
<1>3. WizardFit'
  BY <1>1, ShutStep DEF Fitted, WizardFit
<1> QED
  BY <1>1, <1>2, <1>3 DEF Fitted

LEMMA LoadFits ==
  ASSUME Shaped, Fitted, NEW t \in Tab, NEW r, Load(t, r, calls), Sent(tab[t], r),
         browser' \in {browser, SignedIn(browser), SignedOut(browser)},
         made' = made, expired' = expired
  PROVE  Fitted'
<1>1. tab'[t] = r /\ \A u \in Tab \ {t} : tab'[u] = tab[u]
  BY DEF Load, Shaped
<1>2. Fit(tab'[t], made, Named(browser))
  BY <1>1, SentFits DEF Fitted
<1>3. \A c \in calls' : CallFit(c, made, browser.home)
  BY UnmountFits DEF Load, Shaped, Fitted
<1>4. wizard' = wizard \/ wizard' = Shut
  BY DEF Load, Unmounted
<1> QED
  BY <1>1, <1>2, <1>3, <1>4, TabStepFits

LEMMA NewCallFits ==
  ASSUME Fitted, NEW kind, kind \notin {"made", "activate"}, NEW t, NEW what, NEW go,
         NEW says,
         kind = "switch" => /\ what \in made \cup {Own}
                            /\ (IF what = Own THEN browser.home ELSE what) \in says,
         calls' \subseteq calls \cup {Call(kind, t, what, go, says)}
  PROVE  \A x \in calls' : CallFit(x, made, browser.home)
<1>1. PICK new : new = Call(kind, t, what, go, says)
  OBVIOUS
<1>2. new.kind = kind /\ new.what = what /\ new.says = says
  BY <1>1 DEF Call
<1>3. CallFit(new, made, browser.home)
  BY <1>2 DEF CallFit
<1> QED
  BY <1>1, <1>3 DEF Fitted

LEMMA FittedInit ==
  ASSUME Init PROVE Fitted
<1>1. World
  BY RoutingAssumption, SessionAssumption DEF Init, World, Browser, OrNone
<1>2. ASSUME NEW t \in Tab PROVE Fit(tab[t], made, Named(browser))
  BY DEF Init, Fit, Headed, Ends, OrNone, Path
<1>3. WizardFit
  BY ShutStep DEF Init, WizardFit
<1> QED
  BY <1>1, <1>2, <1>3 DEF Fitted, Init

LEMMA FittedStep ==
  ASSUME SessionInv, WizardRight, Fitted, [Next]_vars PROVE Fitted'
<1>0. /\ Shaped /\ World /\ WizardFit /\ WizardInv /\ WizardRight
      /\ \A t \in Tab : Fit(tab[t], made, Named(browser)) /\ TabInv(t)
      /\ \A c \in calls : CallFit(c, made, browser.home)
  BY DEF SessionInv, Fitted
<1>k. browser \in {browser, SignedIn(browser), SignedOut(browser)}
  OBVIOUS
<1>t. \A t \in Tab : /\ DOMAIN tab[t] = TabField /\ tab[t].at \in Path
                    /\ tab[t].next \in OrNone(Path \ {"login"}) /\ Headed(tab[t])
  BY <1>0 DEF Shaped, Fit
<1>1. ASSUME NEW t \in Tab, Visit(t) \/ Reload(t) \/ Callback(t) \/ SignOut(t)
      PROVE  Fitted'
  <2>1. /\ browser' \in {browser, SignedIn(browser), SignedOut(browser)}
        /\ made' = made /\ expired' = expired
    BY <1>1 DEF Visit, Reload, Callback, SignOut
  <2>2. PICK p \in Path : \E r \in {Asked(tab[t], p), Again(tab[t]), RefusedLink(tab[t], p)} :
                             Load(t, r, calls)
    BY <1>1 DEF Visit, Reload, Callback, SignOut, RefusedLink, Path
  <2>3. PICK r \in {Asked(tab[t], p), Again(tab[t]), RefusedLink(tab[t], p)} :
               Load(t, r, calls)
    BY <2>2
  <2>4. Sent(tab[t], r)
    BY <1>t, <2>3, SentAsked, SentAgain, SentRefused
  <2> QED
    BY <1>0, <2>1, <2>3, <2>4, LoadFits
<1>2. ASSUME NEW t \in Tab, Follow(t) \/ SignUp(t) \/ SignIn(t) PROVE Fitted'
  <2>1. /\ browser' \in {browser, SignedIn(browser), SignedOut(browser)}
        /\ made' = made /\ expired' = expired /\ wizard' = wizard /\ calls' = calls
    BY <1>2 DEF Follow, SignUp, SignIn
  <2>2. PICK h : tab' = [tab EXCEPT ![t] = h] /\ Sent(tab[t], h)
    <3>1. CASE Follow(t) \/ SignUp(t)
      <4>1. PICK p \in Path \ {"login"} : tab' = [tab EXCEPT ![t] = Heading(tab[t], p)]
        BY <3>1 DEF Follow, SignUp, InApp, Path
      <4> QED
        BY <1>t, <4>1, SentTo
    <3>2. CASE SignIn(t)
      <4>1. PICK p : p = IF tab[t].next = None THEN "dashboard" ELSE tab[t].next
        OBVIOUS
      <4>2. tab[t].at = "login" /\ tab' = [tab EXCEPT ![t] = StillTo(Heading(tab[t], p), tab[t])]
        BY <3>2, <4>1 DEF SignIn
      <4>3. p \in Path \ {"login"}
        BY <1>t, <4>1 DEF OrNone, Path
      <4>4. Ends(tab[t], p)
        BY <1>t, <4>1, <4>2 DEF Headed
      <4> QED
        BY <1>t, <4>2, <4>3, <4>4, SentStill
    <3> QED
      BY <1>2, <3>1, <3>2
  <2>3. tab'[t] = h /\ \A u \in Tab \ {t} : tab'[u] = tab[u]
    BY <1>0, <2>2 DEF Shaped
  <2>4. Fit(tab'[t], made, Named(browser))
    BY <1>0, <2>2, <2>3, SentFits
  <2> QED
    BY <1>0, <2>1, <2>3, <2>4, TabStepFits
<1>4. ASSUME NEW t \in Tab, Route(t) PROVE Fitted'
  <2>1. PICK to : to = Middleware(browser, tab[t].at)
    OBVIOUS
  <2>2. /\ to.at \in Path
        /\ to.at = "login" => to.next \in OrNone({tab[t].at} \ {"login"})
        /\ to.at = "login" /\ tab[t].at # "login" => to.next = tab[t].at
        /\ to.at # tab[t].at /\ to.at # "login" => to.at = "dashboard"
        /\ to.next \in OrNone(Path \ {"login"})
    BY <1>0, <2>1 DEF Middleware, Stay, Fit, OrNone, Path
  <2>3. /\ browser' = browser /\ made' = made /\ expired' = expired
        /\ wizard' = wizard /\ calls' = calls
    BY <1>4 DEF Route
  <2>4. Fit(tab[t], made, Named(browser)) /\ DOMAIN tab[t] = TabField
    BY <1>0 DEF Shaped
  <2>5. CASE /\ to.at # tab[t].at
             /\ tab' = [tab EXCEPT ![t] =
                  [tab[t] EXCEPT !.at = to.at, !.next = to.next,
                     !.lost = tab[t].lost \/ tab[t].at = "login"]]
    <3>1. PICK lost : lost = (tab[t].lost \/ tab[t].at = "login")
      OBVIOUS
    <3>2. /\ tab'[t] = [tab[t] EXCEPT !.at = to.at, !.next = to.next, !.lost = lost]
          /\ \A u \in Tab \ {t} : tab'[u] = tab[u]
      BY <1>0, <2>5, <3>1 DEF Shaped
    <3>3. /\ tab'[t].at = to.at /\ tab'[t].next = to.next /\ tab'[t].lost = lost
          /\ tab'[t].phase = tab[t].phase /\ tab'[t].header = tab[t].header
          /\ tab'[t].content = tab[t].content /\ tab'[t].who = tab[t].who
          /\ tab'[t].meant = tab[t].meant /\ tab'[t].wanted = tab[t].wanted
      BY <2>4, <3>2 DEF TabField
    <3>4. Headed(tab'[t])
      <4>1. CASE to.at = "login"
        <5>1. to.next = tab[t].at /\ tab[t].at # "login"
          BY <2>2, <2>5, <4>1
        <5>2. Ends(tab[t], tab[t].at)
          BY <2>4, <5>1 DEF Fit, Headed
        <5>3. tab[t].at # None
          BY <2>4, <5>1, RoutingAssumption DEF Fit
        <5>4. Ends(tab'[t], to.next)
          BY <3>1, <3>3, <5>1, <5>2 DEF Ends
        <5> QED
          BY <3>3, <4>1, <5>1, <5>3, <5>4 DEF Headed
      <4>2. CASE to.at # "login"
        <5>1. to.at = "dashboard" /\ tab[t].at = "login"
          BY <2>1, <2>2, <2>5, <4>2 DEF Middleware, Stay
        <5>2. lost
          BY <3>1, <5>1
        <5> QED
          BY <3>3, <4>2, <5>1, <5>2 DEF Headed, Ends
      <4> QED
        BY <4>1, <4>2
    <3>5. Fit(tab'[t], made, Named(browser))
      BY <2>2, <2>4, <3>3, <3>4 DEF Fit
    <3> QED
      BY <1>0, <1>k, <2>3, <3>2, <3>5, TabStepFits
  <2>6. ASSUME tab' = [tab EXCEPT ![t] = [tab[t] EXCEPT !.phase = "passed"]]
               \/ tab' = [tab EXCEPT ![t] = [tab[t] EXCEPT !.phase = "shown",
                                               !.header = None, !.content = None]]
        PROVE  Fitted'
    <3>1. \A u \in Tab \ {t} : tab'[u] = tab[u]
      BY <1>0, <2>6 DEF Shaped
    <3>2. \/ tab'[t] = [tab[t] EXCEPT !.phase = "passed"]
          \/ tab'[t] = [tab[t] EXCEPT !.phase = "shown", !.header = None,
                                      !.content = None]
      BY <1>0, <2>6 DEF Shaped
    <3>3. /\ tab'[t].at = tab[t].at /\ tab'[t].next = tab[t].next
          /\ tab'[t].wanted = tab[t].wanted /\ tab'[t].lost = tab[t].lost
          /\ tab'[t].phase \in {"passed", "shown"}
          /\ tab'[t].header \in {tab[t].header, None}
          /\ tab'[t].content \in {tab[t].content, None} /\ tab'[t].who = tab[t].who
          /\ tab'[t].meant = tab[t].meant
      BY <2>4, <3>2 DEF TabField
    <3>4. Fit(tab'[t], made, Named(browser))
      BY <2>4, <3>3 DEF Fit, Headed, Ends, OrNone
    <3> QED
      BY <1>0, <1>k, <2>3, <3>1, <3>4, TabStepFits
  <2> QED
    BY <1>4, <2>1, <2>5, <2>6 DEF Route
<1>5. ASSUME NEW t \in Tab, Render(t) PROVE Fitted'
  <2>1. /\ browser' = browser /\ made' = made /\ expired' = expired
        /\ wizard' = wizard /\ calls' = calls
    BY <1>5 DEF Render
  <2>2. PICK who \in OrNone(made) :
          tab' = [tab EXCEPT ![t] =
            IF tab[t].header = None THEN Layout(tab[t], who)
            ELSE [tab[t] EXCEPT !.phase = "shown", !.content = who]]
    BY <1>5 DEF Render
  <2>3. Fit(tab[t], made, Named(browser)) /\ DOMAIN tab[t] = TabField
    BY <1>0 DEF Shaped
  <2>4. \A u \in Tab \ {t} : tab'[u] = tab[u]
    BY <1>0, <2>2 DEF Shaped
  <2>5. CASE tab[t].header # None \/ who # None
    <3>1. \/ tab'[t] = [tab[t] EXCEPT !.phase = "shown", !.content = who]
          \/ tab'[t] = [tab[t] EXCEPT !.phase = "shown", !.header = who,
                                      !.content = who, !.behind = FALSE]
      BY <1>0, <2>2, <2>5 DEF Layout, Shaped
    <3>2. /\ tab'[t].at = tab[t].at /\ tab'[t].next = tab[t].next
          /\ tab'[t].wanted = tab[t].wanted /\ tab'[t].phase = "shown"
          /\ tab'[t].header \in {tab[t].header, who}
          /\ tab'[t].content = who /\ tab'[t].who = tab[t].who
          /\ tab'[t].meant = tab[t].meant /\ tab'[t].lost = tab[t].lost
      BY <2>3, <3>1 DEF TabField
    <3>3. Fit(tab'[t], made, Named(browser))
      BY <2>3, <3>2 DEF Fit, Headed, Ends
    <3> QED
      BY <1>0, <1>k, <2>1, <2>4, <3>3, TabStepFits
  <2>6. CASE tab[t].header = None /\ who = None
    <3>1. tab'[t] = StillTo(Heading(tab[t], "onboarding"), tab[t])
      BY <1>0, <2>2, <2>6 DEF Layout, Shaped
    <3>2. "onboarding" \in Path \ {"login"} /\ Ends(tab[t], "onboarding")
      BY DEF Path, Ends
    <3>3. Sent(tab[t], tab'[t])
      BY <2>3, <3>1, <3>2, SentStill
    <3>5. Fit(tab'[t], made, Named(browser))
      BY <2>3, <3>3, SentFits
    <3> QED
      BY <1>0, <1>k, <2>1, <2>4, <3>5, TabStepFits
  <2> QED
    BY <2>5, <2>6
<1>6. CASE Lapse \/ Expire
  <2>1. /\ browser' \in {browser, SignedOut(browser)} /\ made' = made
        /\ expired' \subseteq made
        /\ tab' = tab /\ wizard' = wizard /\ calls' = calls
    BY <1>0, <1>6 DEF Lapse, Expire, World
  <2>2. /\ browser' \in Browser /\ browser'.kept = browser.kept
        /\ browser'.cookie = browser.cookie /\ browser'.home = browser.home
        /\ Named(browser') = Named(browser)
    BY <1>0, <2>1, SameBrowser DEF World
  <2> QED
    BY <1>0, <2>1, <2>2 DEF Fitted, World, WizardFit
<1>7. CASE CookieGone
  <2>1. /\ browser' = [browser EXCEPT !.cookie = None]
        /\ tab' = [t \in Tab |-> [tab[t] EXCEPT !.behind = TRUE, !.meant = {}]]
        /\ made' = made /\ expired' = expired /\ wizard' = wizard /\ calls' = calls
    BY <1>7 DEF CookieGone
  <2>2. /\ browser' \in Browser /\ browser'.kept = browser.kept
        /\ browser'.cookie = None /\ browser'.home = browser.home
    BY <1>0, <2>1 DEF World, Browser
  <2>3. ASSUME NEW t \in Tab PROVE Fit(tab'[t], made, Named(browser'))
    <3>1. tab'[t] = [tab[t] EXCEPT !.behind = TRUE, !.meant = {}]
      BY <2>1
    <3>2. /\ tab'[t].at = tab[t].at /\ tab'[t].next = tab[t].next
          /\ tab'[t].wanted = tab[t].wanted /\ tab'[t].phase = tab[t].phase
          /\ tab'[t].header = tab[t].header /\ tab'[t].content = tab[t].content
          /\ tab'[t].who = tab[t].who /\ tab'[t].lost = tab[t].lost
          /\ tab'[t].meant = {}
      BY <1>0, <3>1 DEF Shaped, TabField
    <3> QED
      BY <1>0, <3>2 DEF Fit, Headed, Ends
  <2> QED
    BY <1>0, <2>1, <2>2, <2>3 DEF Fitted, World, WizardFit, OrNone
<1>8. ASSUME NEW t \in Tab, OpenDrawer(t) PROVE Fitted'
  <2>1. /\ tab' = [tab EXCEPT ![t] = [tab[t] EXCEPT !.who = Reached]]
        /\ browser' = browser /\ made' = made /\ expired' = expired
        /\ wizard' = wizard /\ calls' = calls
    BY <1>8 DEF OpenDrawer
  <2>2. Reached \in OrNone(made)
    BY <1>0 DEF Reached, TenantOf, Bearer, Fallback, World, OrNone
  <2>3. /\ tab'[t] = [tab[t] EXCEPT !.who = Reached]
        /\ \A u \in Tab \ {t} : tab'[u] = tab[u]
    BY <1>0, <2>1 DEF Shaped
  <2>4. /\ tab'[t].at = tab[t].at /\ tab'[t].next = tab[t].next
        /\ tab'[t].wanted = tab[t].wanted /\ tab'[t].phase = tab[t].phase
        /\ tab'[t].header = tab[t].header /\ tab'[t].content = tab[t].content
        /\ tab'[t].who = Reached /\ tab'[t].meant = tab[t].meant
        /\ tab'[t].lost = tab[t].lost
    BY <1>0, <2>3 DEF Shaped, TabField
  <2>5. Fit(tab'[t], made, Named(browser))
    BY <1>0, <2>2, <2>4 DEF Fit, Headed, Ends
  <2> QED
    BY <1>0, <1>k, <2>1, <2>3, <2>5, TabStepFits
<1>9. ASSUME NEW t \in Tab, NEW w \in Workspace,
             (\E label \in {"open", "default"} : SwitchTo(t, w, label)) \/ OpenRow(t, w)
      PROVE  Fitted'
  <2>1. /\ tab' = [tab EXCEPT ![t] = [tab[t] EXCEPT !.busy = w]]
           \/ tab' = [tab EXCEPT ![t] = [tab[t] EXCEPT !.opening = w]]
        /\ w \in made
        /\ browser' = browser /\ made' = made /\ expired' = expired
        /\ wizard' = wizard
    BY <1>9 DEF SwitchTo, Offers, OpenRow
  <2>2. PICK to, go, says :
          /\ to \in made \cup {Own}
          /\ (IF to = Own THEN browser.home ELSE to) \in says
          /\ calls' = calls \cup {Call("switch", t, to, go, says)}
    <3>1. ASSUME NEW label \in {"open", "default"}, SwitchTo(t, w, label)
          PROVE  /\ (IF w \in browser.kept THEN w ELSE browser.home) \in Promise(label, w)
                 /\ calls' = calls \cup
                      {Call("switch", t, IF w \in browser.kept THEN w ELSE Own,
                            "dashboard", Promise(label, w))}
      BY <3>1 DEF SwitchTo, Promise
    <3>2. CASE \E label \in {"open", "default"} : SwitchTo(t, w, label)
      <4>1. PICK label \in {"open", "default"} : SwitchTo(t, w, label)
        BY <3>2
      <4>2. CASE w \in browser.kept
        BY <2>1, <3>1, <4>1, <4>2, RoutingAssumption DEF SwitchTo, Offers
      <4>3. CASE w \notin browser.kept
        BY <3>1, <4>1, <4>3
      <4> QED
        BY <4>2, <4>3
    <3>3. CASE OpenRow(t, w)
      <4>1. calls' = calls \cup {Call("switch", t, Own, "here", {browser.home})}
        BY <3>3 DEF OpenRow, Promise
      <4> QED
        BY <4>1
    <3> QED
      BY <1>9, <3>2, <3>3
  <2>3. /\ tab'[t] \in {[tab[t] EXCEPT !.busy = w], [tab[t] EXCEPT !.opening = w]}
        /\ \A u \in Tab \ {t} : tab'[u] = tab[u]
    BY <1>0, <2>1 DEF Shaped
  <2>4. /\ tab'[t].at = tab[t].at /\ tab'[t].next = tab[t].next
        /\ tab'[t].wanted = tab[t].wanted /\ tab'[t].phase = tab[t].phase
        /\ tab'[t].header = tab[t].header /\ tab'[t].content = tab[t].content
        /\ tab'[t].who = tab[t].who /\ tab'[t].meant = tab[t].meant
        /\ tab'[t].lost = tab[t].lost
    BY <1>t, <2>3 DEF TabField
  <2>5. Fit(tab'[t], made, Named(browser))
    BY <1>0, <2>4 DEF Fit, Headed, Ends
  <2>7. \A x \in calls' : CallFit(x, made, browser.home)
    BY <1>0, <2>2, NewCallFits
  <2> QED
    BY <1>0, <1>k, <2>1, <2>3, <2>5, <2>7, TabStepFits
<1>10. ASSUME NEW t \in Tab, ToDefault(t) PROVE Fitted'
  <2>1. PICK go : calls' = calls \cup {Call("switch", t, Own, go, {browser.home})}
    BY <1>10 DEF ToDefault, Promise
  <2>2. /\ tab' = tab /\ browser' = browser /\ made' = made /\ expired' = expired
        /\ wizard' = wizard
    BY <1>10 DEF ToDefault
  <2>3. \A x \in calls' : CallFit(x, made, browser.home)
    BY <1>0, <2>1, NewCallFits
  <2> QED
    BY <1>0, <2>2, <2>3, CallStepFits DEF WizardFit
<1>11. ASSUME NEW t \in Tab, OpenWizard(t) PROVE Fitted'
  <2>1. /\ tab' = tab /\ browser' = browser /\ made' = made /\ expired' = expired
        /\ calls' = calls
        /\ wizard' = [Shut EXCEPT !.tab = t, !.first = tab[t].at = "onboarding"]
    BY <1>11 DEF OpenWizard
  <2>2. wizard'.step = 0 /\ wizard'.tab = t
    BY <2>1 DEF Shut
  <2>3. WizardFit'
    BY <2>2, ShutStep DEF WizardFit
  <2> QED
    BY <1>0, <2>1, <2>3, CallStepFits
<1>12. CASE CloseWizard
  <2>1. PICK t : t = wizard.tab
    OBVIOUS
  <2>2. /\ t \in Tab /\ browser' = browser /\ made' = made /\ expired' = expired
        /\ wizard' = Shut /\ calls' = Unmount(t, t, calls)
        /\ tab' = IF wizard.first THEN [tab EXCEPT ![t] = Heading(tab[t], "dashboard")]
                  ELSE tab
    BY <1>0, <1>12, <2>1 DEF CloseWizard, Shaped
  <2>3. \A x \in calls' : CallFit(x, made, browser.home)
    BY <1>0, <2>2, UnmountFits DEF Shaped
  <2>4. CASE wizard.first
    <3>1. "dashboard" \in Path \ {"login"}
      BY DEF Path
    <3>2. Sent(tab[t], Heading(tab[t], "dashboard"))
      BY <1>t, <2>2, <3>1, SentTo
    <3>3. tab'[t] = Heading(tab[t], "dashboard") /\ \A u \in Tab \ {t} : tab'[u] = tab[u]
      BY <1>0, <2>2, <2>4 DEF Shaped
    <3>4. Fit(tab'[t], made, Named(browser))
      BY <1>0, <2>2, <3>2, <3>3, SentFits
    <3> QED
      BY <1>0, <1>k, <2>2, <2>3, <3>3, <3>4, TabStepFits
  <2>5. CASE ~wizard.first
    BY <1>0, <1>k, <2>2, <2>3, <2>5, TabStepFits
  <2> QED
    BY <2>4, <2>5
<1>13. CASE Turn \/ TypeUrl \/ TypeCredentials
  <2>1. /\ tab' = tab /\ browser' = browser /\ made' = made /\ expired' = expired
        /\ calls' = calls
    BY <1>13 DEF Turn, TypeUrl, TypeCredentials
  <2>2. WizardFit'
    <3>1. CASE Turn
      <4>1. wizard.step # 2 /\ wizard' = [wizard EXCEPT !.step = 1 - wizard.step]
        BY <1>0, <3>1 DEF Turn
      <4>2. wizard'.step = 1 - wizard.step
        BY <1>0, <4>1 DEF Shaped, WizardField
      <4>3. wizard.step \in 0 .. 2
        BY <1>0 DEF WizardRight, Provisioning
      <4> QED
        BY <4>1, <4>2, <4>3 DEF WizardFit
    <3>2. CASE TypeUrl \/ TypeCredentials
      <4>1. wizard'.step = wizard.step /\ wizard'.result = wizard.result
        BY <1>0, <3>2 DEF TypeUrl, TypeCredentials, Shaped, WizardField
      <4> QED
        BY <1>0, <2>1, <4>1 DEF WizardFit
    <3> QED
      BY <1>13, <3>1, <3>2
  <2> QED
    BY <1>0, <2>1, <2>2, CallStepFits
<1>14. CASE Test \/ Provision \/ SwitchIn
  <2>1. /\ tab' = tab /\ browser' = browser /\ made' = made /\ expired' = expired
    BY <1>14 DEF Test, Provision, SwitchIn
  <2>2. /\ wizard'.step = wizard.step /\ wizard'.tab = wizard.tab
        /\ wizard'.result = wizard.result
    BY <1>0, <1>14 DEF Test, Provision, SwitchIn, Shaped, WizardField
  <2>3. PICK kind, what, go, says :
          /\ kind \notin {"made", "activate"}
          /\ kind = "switch" => /\ what \in made \cup {Own}
                               /\ (IF what = Own THEN browser.home ELSE what) \in says
          /\ calls' = calls \cup {Call(kind, wizard.tab, what, go, says)}
    <3>1. CASE Test \/ Provision
      <4>1. \E kind \in {"test", "create"} :
              calls' = calls \cup {Call(kind, wizard.tab, None, "", {})}
        BY <3>1 DEF Test, Provision
      <4> QED
        BY <4>1
    <3>2. CASE SwitchIn
      <4>1. wizard.result \in made /\ wizard.result # Own
        BY <1>0, <3>2, RoutingAssumption DEF SwitchIn, WizardFit, World
      <4>2. calls' = calls \cup
              {Call("switch", wizard.tab, wizard.result, "dashboard", {wizard.result})}
        BY <3>2 DEF SwitchIn
      <4> QED
        BY <4>1, <4>2
    <3> QED
      BY <1>14, <3>1, <3>2
  <2>4. \A x \in calls' : CallFit(x, made, browser.home)
    <3>1. PICK t : t = wizard.tab
      OBVIOUS
    <3> QED
      BY <2>3, <3>1, NewCallFits
  <2>5. WizardFit'
    BY <1>0, <2>1, <2>2 DEF WizardFit
  <2> QED
    BY <2>1, <2>4, <2>5, CallStepFits
<1>15. ASSUME NEW c \in calls, NEW k, k \notin {"switch", "made", "activate"}
       PROVE  CallFit([c EXCEPT !.kind = k], made, browser.home)
  <2>1. PICK x : x = [c EXCEPT !.kind = k]
    OBVIOUS
  <2>2. x.kind = k
    BY <1>0, <2>1 DEF Shaped, CallShape, CallField
  <2> QED
    BY <1>15, <2>1, <2>2 DEF CallFit
<1>16. ASSUME NEW c \in calls,
              SwitchFails(c) \/ Tested(c) \/ Refused(c) \/ Apologise(c)
       PROVE  Fitted'
  <2>1. /\ tab' = tab /\ browser' = browser /\ made' = made /\ expired' = expired
    BY <1>16 DEF SwitchFails, Tested, Refused, Apologise
  <2>2. /\ wizard'.step = wizard.step /\ wizard'.tab = wizard.tab
        /\ wizard'.result = wizard.result
    BY <1>0, <1>16 DEF SwitchFails, Tested, Refused, Apologise, Shaped, WizardField
  <2>3. calls' \subseteq calls \cup {[c EXCEPT !.kind = "failed"]}
    BY <1>16 DEF SwitchFails, Tested, Refused, Apologise
  <2>4. \A x \in calls' : CallFit(x, made, browser.home)
    BY <1>0, <1>15, <2>3
  <2>5. WizardFit'
    BY <1>0, <2>1, <2>2 DEF WizardFit
  <2> QED
    BY <2>1, <2>4, <2>5, CallStepFits
<1>17. ASSUME NEW c \in calls, Created(c) PROVE Fitted'
  <2>1. /\ tab' = tab /\ browser' = browser /\ expired' = expired
        /\ made' = made \cup {Fresh} /\ Fresh \in Workspace
    BY <1>0, <1>17 DEF Created, Fresh, World
  <2>2. PICK w : w = Fresh
    OBVIOUS
  <2>3. /\ wizard'.step = wizard.step /\ wizard'.tab = wizard.tab
        /\ wizard'.result = wizard.result
    BY <1>0, <1>17 DEF Created, Counted, Shaped, WizardField
  <2>4. calls' \subseteq calls \cup {[c EXCEPT !.kind = "failed"],
                                     [c EXCEPT !.kind = "made", !.what = w]}
    BY <1>17, <2>2 DEF Created
  <2>5. PICK new : new = [c EXCEPT !.kind = "made", !.what = w]
    OBVIOUS
  <2>6. new.kind = "made" /\ new.what = w
    BY <1>0, <2>5 DEF Shaped, CallShape, CallField
  <2>7. CallFit(new, made', browser.home)
    BY <2>1, <2>2, <2>6 DEF CallFit
  <2>8. made \subseteq made'
    BY <2>1
  <2>9. \A x : CallFit(x, made, browser.home) => CallFit(x, made', browser.home)
    BY <2>8, FitGrows
  <2>10. \A x \in calls' : CallFit(x, made', browser.home)
    BY <1>0, <1>15, <2>4, <2>5, <2>7, <2>9
  <2>11. \A t \in Tab : Fit(tab[t], made', Named(browser))
    BY <1>0, <2>8, FitGrows
  <2>12. World' /\ WizardFit'
    BY <1>0, <2>1, <2>3 DEF World, WizardFit, OrNone
  <2> QED
    BY <2>1, <2>10, <2>11, <2>12 DEF Fitted
<1>18. ASSUME NEW c \in calls, c.kind = "switch" \/ c.kind = "activate",
              Effective(c.what) \/ browser' = browser
       PROVE  /\ browser' \in Browser /\ browser'.kept = browser.kept
              /\ browser'.home = browser.home /\ browser'.cookie \in OrNone(made)
              /\ Effective(c.what) => Named(browser') =
                                         IF c.what = Own THEN browser.home ELSE c.what
  <2>1. c.what \in made \cup {Own} /\ c.what \in Workspace \cup {Own}
    BY <1>0, <1>18 DEF CallFit, World
  <2>2. CASE browser' = browser /\ ~Effective(c.what)
    BY <1>0, <2>2 DEF World
  <2>3. CASE Effective(c.what)
    <3>1. PICK to : to = c.what
      OBVIOUS
    <3>2. browser' = Switched(browser, to)
      BY <2>3, <3>1 DEF Effective
    <3>3. PICK b : b = browser
      OBVIOUS
    <3>4. b \in Browser /\ to \in Workspace \cup {Own} /\ browser' = Switched(b, to)
      BY <1>0, <2>1, <3>1, <3>2, <3>3 DEF World
    <3>5. /\ browser' \in Browser /\ browser'.kept = b.kept /\ browser'.home = b.home
          /\ browser'.cookie = IF to = Own THEN None ELSE to
          /\ Named(browser') = IF to = Own THEN b.home ELSE to
      BY <3>4, SwitchedTo
    <3> QED
      BY <2>1, <3>1, <3>3, <3>5 DEF OrNone
  <2> QED
    BY <1>18, <2>2, <2>3
<1>19. ASSUME NEW c \in calls, Switch(c) PROVE Fitted'
  <2>1. PICK t \in Tab : t = c.tab
    BY <1>0, <1>19 DEF Switch, Shaped, CallShape
  <2>4. PICK m : m = IF CallPasses(browser) THEN c.says ELSE {}
    OBVIOUS
  <2>5. /\ browser' \in Browser /\ browser'.kept = browser.kept
        /\ browser'.home = browser.home /\ browser'.cookie \in OrNone(made)
        /\ Effective(c.what) => Named(browser') =
                                  IF c.what = Own THEN browser.home ELSE c.what
    BY <1>18, <1>19 DEF Switch, Ineffective
  <2>6. m # {} => Named(browser') \in m
    BY <1>0, <1>19, <2>4, <2>5 DEF Switch, Ineffective, CallFit
  <2>7. /\ made' = made /\ expired' = expired
        /\ wizard' = wizard \/ wizard' = Shut
        /\ calls' = Unmount(t, None, calls \ {c})
    BY <1>19, <2>1 DEF Switch, Unmounted
  <2>8. PICK page \in {Again(tab[t]), Loading(tab[t], "dashboard")} :
          tab' = [u \in Tab |-> IF u = t THEN [page EXCEPT !.meant = m] ELSE Elsewhere(u)]
    <3>1. PICK page : page = IF c.go = "here" THEN Again(tab[t])
                             ELSE Loading(tab[t], "dashboard")
      OBVIOUS
    <3>2. tab' = [u \in Tab |-> IF u = t THEN [page EXCEPT !.meant = m] ELSE Elsewhere(u)]
      BY <1>19, <2>1, <2>4, <3>1 DEF Switch
    <3> QED
      BY <3>1, <3>2
  <2>9. Sent(tab[t], page)
    <3>1. "dashboard" \in Path \ {"login"}
      BY DEF Path
    <3> QED
      BY <1>t, <2>8, <3>1, SentAgain, SentTo
  <2>10. Fit(page, made, Named(browser))
    BY <1>0, <2>9, SentFits
  <2>11. tab'[t] = [page EXCEPT !.meant = m]
    BY <2>8
  <2>12. /\ tab'[t].at = page.at /\ tab'[t].next = page.next
         /\ tab'[t].wanted = page.wanted /\ tab'[t].phase = page.phase
         /\ tab'[t].header = page.header /\ tab'[t].content = page.content
         /\ tab'[t].who = page.who /\ tab'[t].lost = page.lost /\ tab'[t].meant = m
    BY <2>9, <2>11 DEF TabField, Sent
  <2>13. Fit(tab'[t], made, Named(browser'))
    BY <2>6, <2>10, <2>12 DEF Fit, Headed, Ends
  <2>14. ASSUME NEW u \in Tab, u # t PROVE Fit(tab'[u], made, Named(browser'))
    <3>1. tab'[u] = Elsewhere(u)
      BY <2>8, <2>14
    <3> QED
      BY <1>0, <3>1, ElsewhereFits DEF Shaped
  <2>15. \A x \in calls' : CallFit(x, made, browser.home)
    BY <1>0, <2>7, UnmountFits DEF Shaped
  <2>16. World'
    BY <1>0, <2>5, <2>7 DEF World
  <2>17. WizardFit'
    BY <1>0, <2>5, <2>7, ShutStep DEF WizardFit
  <2> QED
    BY <2>5, <2>7, <2>13, <2>14, <2>15, <2>16, <2>17 DEF Fitted
<1>20. ASSUME NEW c \in calls, LateSwitch(c) PROVE Fitted'
  <2>1. /\ browser' \in Browser /\ browser'.kept = browser.kept
        /\ browser'.home = browser.home /\ browser'.cookie \in OrNone(made)
    BY <1>18, <1>20 DEF LateSwitch
  <2>2. /\ made' = made /\ expired' = expired /\ wizard' = wizard
        /\ calls' = calls \ {c} /\ tab' = [u \in Tab |-> Elsewhere(u)]
    BY <1>20 DEF LateSwitch
  <2>3. ASSUME NEW u \in Tab PROVE Fit(tab'[u], made, Named(browser'))
    <3>1. tab'[u] = Elsewhere(u)
      BY <2>2
    <3> QED
      BY <1>0, <3>1, ElsewhereFits DEF Shaped
  <2> QED
    BY <1>0, <2>1, <2>2, <2>3 DEF Fitted, World, WizardFit
<1>21. ASSUME NEW c \in calls, c.what \in made, made' = made,
              wizard' = wizard \/ wizard' = Live(c.what)
       PROVE  WizardFit'
  <2>1. Live(c.what).result = c.what
    BY <1>0 DEF Live, Shaped, WizardField
  <2> QED
    BY <1>0, <1>21, <2>1 DEF WizardFit
<1>22. ASSUME NEW c \in calls, Keep(c) PROVE Fitted'
  <2>1. PICK w : w = c.what
    OBVIOUS
  <2>2. /\ browser' \in {browser, [browser EXCEPT !.kept = browser.kept \cup {w}]}
        /\ tab' = tab /\ made' = made /\ expired' = expired
        /\ wizard' = wizard \/ wizard' = Live(w)
        /\ calls' \subseteq calls \cup {[c EXCEPT !.kind = "activate"]}
        /\ c.kind = "made"
    BY <1>22, <2>1 DEF Keep
  <2>3. w \in made
    BY <1>0, <2>1, <2>2 DEF CallFit
  <2>4. /\ browser' \in Browser /\ browser'.kept \subseteq browser.kept \cup {w}
        /\ browser'.home = browser.home /\ browser'.cookie = browser.cookie
        /\ Named(browser') = Named(browser)
    BY <1>0, <2>2, <2>3 DEF World, Browser, Named
  <2>5. PICK new : new = [c EXCEPT !.kind = "activate"]
    OBVIOUS
  <2>6. new.kind = "activate" /\ new.what = w
    BY <1>0, <2>1, <2>5 DEF Shaped, CallShape, CallField
  <2>7. CallFit(new, made, browser.home)
    BY <2>3, <2>6 DEF CallFit
  <2>9. \A x \in calls' : CallFit(x, made, browser.home)
    BY <1>0, <2>2, <2>5, <2>7
  <2>10. WizardFit'
    BY <1>21, <2>1, <2>2, <2>3
  <2>11. World'
    BY <1>0, <2>2, <2>3, <2>4 DEF World
  <2>12. \A t \in Tab : Fit(tab'[t], made', Named(browser'))
    BY <1>0, <2>2, <2>4
  <2>13. \A x \in calls' : CallFit(x, made', browser'.home)
    BY <2>2, <2>4, <2>9
  <2> QED
    BY <2>10, <2>11, <2>12, <2>13 DEF Fitted
<1>23. ASSUME NEW c \in calls, Activate(c) PROVE Fitted'
  <2>1. PICK t \in Tab : t = c.tab
    BY <1>0, <1>23 DEF Activate, Shaped, CallShape
  <2>2. /\ c.kind = "activate" /\ c.what \in made
        /\ c.what \in Workspace /\ c.what # Own
    BY <1>0, <1>23, RoutingAssumption DEF Activate, CallFit, World
  <2>3. /\ browser' \in Browser /\ browser'.kept = browser.kept
        /\ browser'.home = browser.home /\ browser'.cookie \in OrNone(made)
        /\ Effective(c.what) => Named(browser') = c.what
    BY <1>18, <1>23, <2>2 DEF Activate, Ineffective
  <2>4. PICK m : m = IF CallPasses(browser) THEN {c.what} ELSE tab[t].meant
    OBVIOUS
  <2>5. m # {} => Named(browser') \in m
    <3>1. CASE Effective(c.what)
      BY <2>3, <2>4, <3>1 DEF Effective
    <3>2. CASE Ineffective
      BY <1>0, <2>4, <3>2 DEF Ineffective, Fit
    <3> QED
      BY <1>23, <3>1, <3>2 DEF Activate
  <2>6. /\ made' = made /\ expired' = expired /\ calls' = calls \ {c}
        /\ wizard' = wizard \/ wizard' = Live(c.what)
        /\ tab' = [u \in Tab |-> IF u = t /\ c.mounted
                                 THEN [tab[u] EXCEPT !.meant = m]
                                 ELSE Elsewhere(u)]
    BY <1>23, <2>1, <2>4 DEF Activate
  <2>7. ASSUME NEW u \in Tab PROVE Fit(tab'[u], made, Named(browser'))
    <3>1. CASE u = t /\ c.mounted
      <4>1. tab'[u] = [tab[u] EXCEPT !.meant = m]
        BY <2>6, <3>1
      <4>2. /\ tab'[u].at = tab[u].at /\ tab'[u].next = tab[u].next
            /\ tab'[u].wanted = tab[u].wanted /\ tab'[u].phase = tab[u].phase
            /\ tab'[u].header = tab[u].header /\ tab'[u].content = tab[u].content
            /\ tab'[u].who = tab[u].who /\ tab'[u].lost = tab[u].lost
            /\ tab'[u].meant = m
        BY <1>0, <4>1 DEF Shaped, TabField
      <4> QED
        BY <1>0, <2>5, <4>2 DEF Fit, Headed, Ends
    <3>2. CASE ~(u = t /\ c.mounted)
      <4>1. tab'[u] = Elsewhere(u)
        BY <2>6, <3>2
      <4> QED
        BY <1>0, <4>1, ElsewhereFits DEF Shaped
    <3> QED
      BY <3>1, <3>2
  <2>8. WizardFit'
    BY <1>21, <2>2, <2>3, <2>6
  <2> QED
    BY <1>0, <2>3, <2>6, <2>7, <2>8 DEF Fitted, World
<1>24. CASE UNCHANGED vars
  BY <1>24 DEF vars, Fitted, World, WizardFit
<1> QED
  BY <1>1, <1>2, <1>4, <1>5, <1>6, <1>7, <1>8, <1>9, <1>10, <1>11, <1>12,
     <1>13, <1>14, <1>16, <1>17, <1>19, <1>20, <1>22, <1>23, <1>24 DEF Next

LEMMA FittedInvariant == Spec => [](SessionInv /\ WizardRight /\ Fitted)
<1>1. Init => WizardRight /\ Fitted
  BY WizardRightInit, FittedInit
<1>2. SessionInv /\ WizardRight /\ Fitted /\ [Next]_vars => WizardRight' /\ Fitted'
  BY WizardRightStep, FittedStep
<1> QED
  BY <1>1, <1>2, SessionInvariant, PTL DEF Spec

-----------------------------------------------------------------------------
(* Whatever is done in whatever tabs and whatever fails, pages show and      *)
(* switch to workspaces that exist, tokens are kept of such only, a wizard    *)
(* that is done has made one, its token kept or not, and headers are in the   *)
(* app only.                                                                 *)
THEOREM TypeCorrect == Spec => []TypeOK
<1>1. SessionInv /\ WizardRight /\ Fitted => TypeOK
  <2> SUFFICES ASSUME SessionInv, WizardRight, Fitted PROVE TypeOK
    OBVIOUS
  <2>1. World
    BY DEF Fitted
  <2>2. ASSUME NEW t \in Tab
        PROVE  /\ tab[t].at \in Path /\ tab[t].next \in OrNone(Path)
               /\ tab[t].phase \in {"asked", "passed", "shown"}
               /\ tab[t].header \in OrNone(made) /\ tab[t].content \in OrNone(made)
               /\ tab[t].header # None => InApp(tab[t].at) \/ tab[t].phase # "shown"
               /\ tab[t].who \in OrNone(made)
    <3>1. Fit(tab[t], made, Named(browser)) /\ TabInv(t)
      BY DEF Fitted, SessionInv
    <3> QED
      BY <3>1 DEF Fit, TabInv, Shown, OrNone
  <2>3. /\ wizard.tab \in OrNone(Tab) /\ wizard.step \in 0 .. 2
        /\ wizard.step = 2 => wizard.result \in made
    BY DEF SessionInv, Shaped, WizardRight, Provisioning, Fitted, WizardFit, OrNone
  <2>4. \A c \in calls : c.tab \in OrNone(Tab)
    BY DEF SessionInv, Shaped, CallShape, OrNone
  <2> QED
    BY <2>1, <2>2, <2>3, <2>4 DEF TypeOK, World
<1> QED
  BY <1>1, FittedInvariant, PTL

(* A tab that has switched, however calls to the switch route cross, shows   *)
(* what its button had promised, if the cookie was not changed since: the     *)
(* workspace of a row of the drawer that said Open, the default one or, if    *)
(* its token was kept after all, its own of a row that said Default, and the  *)
(* default one of a return and of every row of the integrations page.        *)
THEOREM SwitchesOpenWhatTheySay == Spec => []OpensWhatItSays
<1>1. SessionInv /\ WizardRight /\ Fitted => OpensWhatItSays
  <2> SUFFICES ASSUME SessionInv, Fitted, NEW t \in Tab, Shown(t), InApp(tab[t].at),
                      ~tab[t].behind, tab[t].meant # {}
               PROVE  tab[t].header \in tab[t].meant
    BY DEF OpensWhatItSays
  <2>1. tab[t].header = Named(browser)
    BY DEF SessionInv, TabInv
  <2>2. Named(browser) \in tab[t].meant
    BY DEF Fitted, Fit
  <2> QED
    BY <2>1, <2>2
<1> QED
  BY <1>1, FittedInvariant, PTL

(* A tab ends where its user asked it to go, at the login or in onboarding,  *)
(* however many redirects, sign-ins and lapses of the session are between;    *)
(* on the dashboard only if the code forgot where: it met the middleware at   *)
(* the login when signed in elsewhere, or its mailed link was refused.        *)
THEOREM TabsEndWhereAsked == Spec => []GoesWhereAsked
<1>1. SessionInv /\ WizardRight /\ Fitted => GoesWhereAsked
  <2> SUFFICES ASSUME Fitted, NEW t \in Tab
               PROVE  \/ tab[t].at \in {tab[t].wanted, "login", "onboarding"}
                      \/ tab[t].lost /\ tab[t].at = "dashboard"
    BY DEF GoesWhereAsked
  <2> QED
    BY DEF Fitted, Fit, Headed, Ends
<1> QED
  BY <1>1, FittedInvariant, PTL

(* A wizard provisions one workspace, and one more for each apology at most; *)
(* and a verdict it shows is about what is typed in, if nothing was changed  *)
(* under the test: for any number of tests, edits, tabs and wizards.         *)
THEOREM WizardsProvisionOnceAsTested == Spec => []ProvisionsOnceAsTested
<1>1. SessionInv /\ WizardRight /\ Fitted => ProvisionsOnceAsTested
  BY DEF WizardRight, Provisioning, Testing, ProvisionsOnceAsTested
<1> QED
  BY <1>1, FittedInvariant, PTL
=============================================================================
