----------------------------- MODULE WebRouting -----------------------------
(***************************************************************************)
(* Who a browser is to the console.  The web app keeps nothing itself: a    *)
(* browser carries a session (Supabase, or the cookie of the development    *)
(* login), and possibly the token of a workspace in the aegis_token cookie. *)
(* The middleware looks at the session only; what is rendered and what is   *)
(* forwarded to the API look at the cookie first.                           *)
(*                                                                         *)
(* A token is named by its workspace, the session's own token is Own and    *)
(* speaks for the user's home workspace, if there is one.                   *)
(***************************************************************************)
CONSTANTS Workspace, None, Own

Path == {"login", "onboarding", "dashboard", "other"}

ASSUME RoutingAssumption ==
  None \notin Workspace \cup Path /\ Own \notin Workspace /\ None # Own

InApp(p) == p \in {"dashboard", "other"}

Browser == [mode : {"supabase", "dev"}, home : Workspace \cup {None},
            session : BOOLEAN, cookie : Workspace \cup {None},
            kept : SUBSET Workspace]

Stay(p) == [at |-> p, next |-> None]

(* middleware.ts: everything but the login asks for a session, and a        *)
(* signed-in user is sent on from the login.                                *)
(* mutant: the page asked for is not remembered.                            *)
MF_Forgets(b, p) ==
  CASE ~b.session /\ p # "login" -> Stay("login")
    [] b.session /\ p = "login"  -> Stay("dashboard")
    [] OTHER                     -> Stay(p)

(* mutant: a user without a session is sent on from the login, too.         *)
MF_LoginNotPublic(b, p) ==
  CASE ~b.session /\ p # "login" -> [at |-> "login", next |-> p]
    [] p = "login"               -> Stay("dashboard")
    [] OTHER                     -> Stay(p)

Middleware(b, p) ==
  CASE ~b.session /\ p # "login" -> [at |-> "login", next |-> p]
    [] b.session /\ p = "login"  -> Stay("dashboard")
    [] OTHER                     -> Stay(p)

(* The development login, and the sign-out, which leaves aegis_token.       *)
SignedIn(b) == [b EXCEPT !.session = TRUE]

SignedOut(b) == [b EXCEPT !.session = FALSE]

(* The routes under /api are public in development only: without a session  *)
(* a call of a page is answered with the login page, which is no success.   *)
CallPasses(b) == b.mode = "dev" \/ b.session

(* The token of the session or, in development, of the environment.         *)
Fallback(b) == IF b.session \/ b.mode = "dev" THEN Own ELSE None

(* lib/api.ts, for what the server renders.                                 *)
AuthHeaders(b) == IF b.cookie # None THEN b.cookie ELSE Fallback(b)

(* The backend proxy, for what a page sends.                                *)
(* mutant: the session is preferred to the workspace's token.               *)
MF_SessionFirst(b) == IF Fallback(b) # None THEN Fallback(b) ELSE b.cookie

Bearer(b) == IF b.cookie # None THEN b.cookie ELSE Fallback(b)

(* deps.py: who a token is verified as, and for which workspace.            *)
IsUser(token, expired) == token # None /\ token \notin expired

TenantOf(token, home, expired) ==
  CASE ~IsUser(token, expired) -> None
    [] token = Own             -> home
    [] OTHER                   -> token

(* api/tenant/switch: POST sets the cookie, DELETE removes it.              *)
(* mutant: DELETE leaves the cookie.                                        *)
MF_KeepsCookie(b, to) == [b EXCEPT !.cookie = IF to = Own THEN @ ELSE to]

Switched(b, to) == [b EXCEPT !.cookie = IF to = Own THEN None ELSE to]
=============================================================================
