------------------------------ MODULE Dashboard ------------------------------
(***************************************************************************)
(* apps/web as one browser sees it: its tabs, the cookies they share, and  *)
(* the pages, route handlers and server actions that read and set them.    *)
(*                                                                         *)
(* A request carries the cookies of the moment it is sent.  The server     *)
(* decides on those, asks the API, and answers with changes of cookies;    *)
(* the browser applies them when the answer comes, whatever other answers  *)
(* came in between, and follows a redirect at once.                        *)
(*                                                                         *)
(*   request:  idle -> sent -> served -> idle, or -> sent for a redirect   *)
(*                                                                         *)
(* A tab at "login" shows login, forgot-password or signup, whose forms    *)
(* sign in and whose links lead to a provider; at "finish" it shows the    *)
(* signup page as it is with a provider's candidate, which offers to       *)
(* finish that and nothing else.  What the pages show of the workspace is  *)
(* left out.                                                               *)
(***************************************************************************)
EXTENDS Naturals, FiniteSets

CONSTANTS
  Tabs,
  Sessions,      \* the sessions the API may make
  Flows,         \* sign-ins with a provider: the state, the code and the candidate
  Tokens,        \* the form tokens proxy.ts may make
  Nothing,       \* a field or a cookie that holds nothing
  MaxInFlight,   \* bound on the requests that run at the same time
  MaxOps         \* bound on what the user does; one fewer if requests overlap

ASSUME DashboardAssumption ==
  /\ IsFiniteSet(Tabs)
  /\ {Nothing, "keep"} \cap (Sessions \cup Flows \cup Tokens) = {}
  /\ Nothing # "keep"
  /\ MaxInFlight \in Nat \ {0}
  /\ MaxOps \in Nat

VARIABLES
  jar,        \* the browser's cookies
  tab,        \* tab[t]: the page it shows, its form token, and its last flow
  req,        \* req[t]: the request that tab t waits for
  sessions,   \* sessions[s]: user_sessions, as the API has them
  flows,      \* flows[f]: what became of a sign-in with a provider
  left,       \* the sessions the user was told to have logged out of
  invited,    \* an invite was accepted
  issued,     \* the form tokens made so far
  width,      \* how many requests this behaviour lets run at once
  ops

dashboardVars == <<jar, tab, req, sessions, flows, left, invited, issued, width, ops>>
browserVars == <<jar, tab, left, width, ops>>

Jar == [session : Sessions \cup {Nothing}, state : Flows \cup {Nothing},
        pending : Flows \cup {Nothing}, csrf : Tokens \cup {Nothing}]
\* What a response does to the cookies.
Change == [session : Sessions \cup {Nothing, "keep"}, state : Flows \cup {Nothing, "keep"},
           pending : Flows \cup {Nothing, "keep"}, csrf : Tokens \cup {"keep"}]
NoCookies == [session |-> Nothing, state |-> Nothing, pending |-> Nothing, csrf |-> Nothing]
Keeps == [session |-> "keep", state |-> "keep", pending |-> "keep", csrf |-> "keep"]

Page == {"app", "login", "signup", "invite", "verify"}
Shown == {"app", "login", "finish", "invite", "verify", "blank", "provider", "error"}
Action == {"signin", "finish", "accept", "confirm", "logout", "settings", "profile", "billing",
           "switch"}
Tab == [page : Shown, form : Tokens \cup {Nothing}, flow : Flows \cup {Nothing}]
\* loads: a full page load, which makes the root layout anew.
Request == [at : {"idle", "sent", "served"}, what : Page \cup Action \cup {"start", "callback"},
            sent : Jar, form : Tokens \cup {Nothing}, flow : Flows \cup {Nothing},
            loads : BOOLEAN, sets : Change, show : Shown, go : Page \cup {Nothing}]
Flow == [at : {"new", "begun", "consented", "candidate", "used"},
         redeemed : BOOLEAN, spoilt : BOOLEAN, turned : BOOLEAN]

DashboardTypeOK ==
  /\ jar \in Jar
  /\ tab \in [Tabs -> Tab]
  /\ req \in [Tabs -> Request]
  /\ sessions \in [Sessions -> {"none", "live", "ended"}]
  /\ flows \in [Flows -> Flow]
  /\ left \subseteq Sessions
  /\ invited \in BOOLEAN
  /\ issued \subseteq Tokens
  /\ width \in 1..MaxInFlight
  /\ ops \in 0..MaxOps

Asks(what, cookies, form, flow, loads) ==
  [at |-> "sent", what |-> what, sent |-> cookies, form |-> form, flow |-> flow,
   loads |-> loads, sets |-> Keeps, show |-> "blank", go |-> Nothing]
NoRequest == [Asks("app", NoCookies, Nothing, Nothing, FALSE) EXCEPT !.at = "idle"]

DashboardInit ==
  /\ jar = NoCookies
  /\ tab = [t \in Tabs |-> [page |-> "blank", form |-> Nothing, flow |-> Nothing]]
  /\ req = [t \in Tabs |-> NoRequest]
  /\ sessions = [s \in Sessions |-> "none"]
  /\ flows = [f \in Flows |->
       [at |-> "new", redeemed |-> FALSE, spoilt |-> FALSE, turned |-> FALSE]]
  /\ left = {}
  /\ invited = FALSE
  /\ issued = {}
  /\ width \in 1..MaxInFlight
  /\ ops = 0

\* Which of the new ones it is does not matter.
Fresh(S) == IF S = {} THEN {} ELSE {CHOOSE x \in S : TRUE}

-----------------------------------------------------------------------------
(* The user                                                                *)

Waiting == {t \in Tabs : req[t].at # "idle"}
Does(t, r) ==
  /\ t \notin Waiting /\ Cardinality(Waiting) < width /\ ops + width <= MaxOps
  /\ ops' = ops + 1
  /\ req' = [req EXCEPT ![t] = r]
  /\ UNCHANGED <<jar, tab, sessions, left, invited, issued, width>>

Visit(t) ==
  /\ tab[t].page = "blank" => t \in Fresh({b \in Tabs \ Waiting : tab[b].page = "blank"})
  /\ \E p \in Page : Does(t, Asks(p, jar, Nothing, Nothing, TRUE))
  /\ UNCHANGED flows

\* The forms a page has.
Offers(page) ==
  CASE page = "login" -> {"signin"}
    [] page = "finish" -> {"finish"}
    [] page = "invite" -> {"accept", "confirm"}
    [] page = "verify" -> {"confirm", "switch"}
    [] page = "app" -> {"logout", "settings", "profile", "billing", "switch"}
    [] OTHER -> {}

Submit(t) ==
  /\ \E a \in Offers(tab[t].page) : Does(t, Asks(a, jar, tab[t].form, Nothing, FALSE))
  /\ UNCHANGED flows

ChooseProvider(t) ==
  /\ tab[t].page = "login"
  /\ Does(t, Asks("start", jar, Nothing, Nothing, TRUE))
  /\ UNCHANGED flows

\* The provider sends the user back, with a code or without.
Consent(t) ==
  LET f == tab[t].flow IN
  /\ tab[t].page = "provider" /\ f # Nothing
  /\ Does(t, Asks("callback", jar, Nothing, f, TRUE))
  /\ flows' = [flows EXCEPT ![f].at = IF @ = "begun" THEN "consented" ELSE @]

Refuse(t) ==
  /\ tab[t].page = "provider"
  /\ Does(t, Asks("callback", jar, Nothing, Nothing, TRUE))
  /\ UNCHANGED flows

\* The callback's address is loaded again, from the history.
ComeBack(t) ==
  LET f == tab[t].flow IN
  /\ f # Nothing /\ tab[t].page # "provider"
  /\ flows[f].at \notin {"new", "begun"}
  /\ Does(t, Asks("callback", jar, Nothing, f, TRUE))
  /\ UNCHANGED flows

\* The user leaves before the answer is there; what the server did is done.
Leave(t) ==
  /\ req[t].at = "served"
  /\ req' = [req EXCEPT ![t] = NoRequest]
  /\ UNCHANGED <<browserVars, sessions, flows, invited, issued>>

-----------------------------------------------------------------------------
(* The web server: proxy.ts and what every handler does                    *)

\* Bug: every request gets a token of its own.
ProxyTokensAlways(cookies) == Fresh(Tokens \ issued)

\* proxy: a request without a form token is given one.
ProxyTokens(cookies) ==
  IF cookies.csrf = Nothing THEN Fresh(Tokens \ issued) ELSE {"keep"}

Answers(t, change, show, go) ==
  /\ req[t].at = "sent"
  /\ \E k \in ProxyTokens(req[t].sent) :
       /\ req' = [req EXCEPT ![t] =
            [@ EXCEPT !.at = "served", !.sets = [change EXCEPT !.csrf = k],
                      !.show = show, !.go = go]]
       /\ issued' = issued \cup ({k} \cap Tokens)
  /\ UNCHANGED browserVars
Stays(t) == Answers(t, Keeps, tab[t].page, Nothing)
Redirects(t, change, page) == Answers(t, change, "blank", page)
Renders(t, page) == Answers(t, Keeps, page, Nothing)

\* getCurrentSession on the cookies of the request, and what the API says.
SignedOut(t) == req[t].sent.session = Nothing
SignedIn(t) == ~SignedOut(t) /\ sessions[req[t].sent.session] = "live"
Expelled(t) == ~SignedOut(t) /\ sessions[req[t].sent.session] # "live"

\* The API makes a session; setDashboardSessionCookie.
Admits(t, change) ==
  \E s \in Fresh({s \in Sessions : sessions[s] = "none"}) :
    /\ sessions' = [sessions EXCEPT ![s] = "live"]
    /\ Redirects(t, [change EXCEPT !.session = s], "app")

-----------------------------------------------------------------------------
(* Pages.  A page cannot set cookies: where getCurrentSession would delete *)
(* that of an ended session, or the API fails, the error page is shown.    *)

\* Bug: the guard of redirectIfAuthenticated is inverted.
EntranceSwapped(t) ==
  \/ SignedOut(t) /\ Redirects(t, Keeps, "app")
  \/ SignedIn(t) /\ Renders(t, "login")
  \/ ~SignedOut(t) /\ Renders(t, "error")

RedirectIfAuthenticated(t) == SignedIn(t) /\ Redirects(t, Keeps, "app")

Unfinished(t) == req[t].what = "signup" /\ req[t].sent.pending # Nothing

Entrance(t) ==
  \/ RedirectIfAuthenticated(t)
  \/ SignedOut(t) /\ Renders(t, IF Unfinished(t) THEN "finish" ELSE "login")
  \/ ~SignedOut(t) /\ Renders(t, "error")

\* getWorkspaceSnapshot: six calls of the API, any of which may fail.
Snapshot(t) == Renders(t, "app") \/ Renders(t, "error")

ProductLayout(t) ==
  \/ SignedOut(t) /\ Redirects(t, Keeps, "login")
  \/ SignedIn(t) /\ Snapshot(t)
  \/ ~SignedOut(t) /\ Renders(t, "error")

VerifyEmail(t) ==
  \/ ~Expelled(t) /\ Renders(t, "verify")
  \/ ~SignedOut(t) /\ Renders(t, "error")

ServePage(t) ==
  /\ \/ req[t].what \in {"login", "signup"} /\ Entrance(t)
     \/ req[t].what = "app" /\ ProductLayout(t)
     \/ req[t].what = "verify" /\ VerifyEmail(t)
     \/ req[t].what = "invite" /\ Renders(t, "invite")
  /\ UNCHANGED <<sessions, flows, invited>>

-----------------------------------------------------------------------------
(* Server actions                                                          *)

\* assertValidCsrfToken; some actions catch its error and some do not.
FormFits(t) == req[t].sent.csrf # Nothing /\ req[t].form = req[t].sent.csrf
RefuseForm(t) ==
  /\ req[t].what \in Action /\ ~FormFits(t)
  /\ \/ req[t].what \notin {"logout", "billing", "switch"} /\ Stays(t)
     \/ req[t].what \in {"logout", "billing", "switch", "confirm"} /\ Renders(t, "error")
  /\ UNCHANGED <<sessions, flows, invited>>
Accepts(t, what) == req[t].what = what /\ FormFits(t)

\* Bug: an unfinished sign-up with a provider is not forgotten.
SignInOnly(t) ==
  /\ Accepts(t, "signin")
  /\ \/ Admits(t, Keeps)
     \/ Stays(t) /\ UNCHANGED sessions
  /\ UNCHANGED <<flows, invited>>

\* loginAction and signupAction.
SignIn(t) ==
  /\ Accepts(t, "signin")
  /\ \/ Admits(t, [Keeps EXCEPT !.pending = Nothing])
     \/ Stays(t) /\ UNCHANGED sessions
  /\ UNCHANGED <<flows, invited>>

FinishSignup(t) ==
  LET f == req[t].sent.pending IN
  /\ Accepts(t, "finish")
  /\ \/ /\ f # Nothing /\ flows[f].at = "candidate"
        /\ flows' = [flows EXCEPT ![f].at = "used"]
        /\ Admits(t, [Keeps EXCEPT !.pending = Nothing])
     \/ Stays(t) /\ UNCHANGED <<sessions, flows>>
  /\ UNCHANGED invited

AcceptInvite(t) ==
  /\ Accepts(t, "accept")
  /\ \/ Admits(t, Keeps) /\ invited' = TRUE
     \/ Stays(t) /\ UNCHANGED <<sessions, invited>>
  /\ UNCHANGED flows

\* A new password or a verified address; the sessions it ends are SessionEnds.
Confirm(t) ==
  /\ Accepts(t, "confirm")
  /\ Stays(t) \/ Redirects(t, Keeps, "login") \/ Redirects(t, Keeps, "app")
  /\ UNCHANGED <<sessions, flows, invited>>

\* Bug: the cookie is only deleted when the API answers.
LogoutIfTold(t) ==
  /\ Accepts(t, "logout")
  /\ \/ /\ ~SignedOut(t)
        /\ sessions' = [sessions EXCEPT ![req[t].sent.session] = "ended"]
        /\ Redirects(t, [Keeps EXCEPT !.session = Nothing], "login")
     \/ UNCHANGED sessions /\ Redirects(t, Keeps, "login")
  /\ UNCHANGED <<flows, invited>>

Logout(t) ==
  /\ Accepts(t, "logout")
  /\ \/ /\ ~SignedOut(t)
        /\ sessions' = [sessions EXCEPT ![req[t].sent.session] = "ended"]
     \/ UNCHANGED sessions
  /\ Redirects(t, [Keeps EXCEPT !.session = Nothing], "login")
  /\ UNCHANGED <<flows, invited>>

\* requireCurrentSession, on its way to the login page.
Dismissed(t) == Redirects(t, IF Expelled(t) THEN [Keeps EXCEPT !.session = Nothing] ELSE Keeps, "login")

\* A change of the workspace, which its page shows when it is loaded again.
Changed(t) == Redirects(t, Keeps, "app") \/ Renders(t, "error")

\* The actions on settings and on the billing profile catch every error, the
\* redirect of requireCurrentSession included; but a change of cookies, or a
\* success, has the page rendered again, which redirects by itself.
Caught(t) ==
  \/ Stays(t)
  \/ SignedIn(t) /\ Changed(t)
  \/ Expelled(t) /\ Dismissed(t)

Settings(t) ==
  /\ Accepts(t, "settings")
  /\ Caught(t)
  /\ UNCHANGED <<sessions, flows, invited>>

BillingProfile(t) ==
  /\ Accepts(t, "profile")
  /\ Caught(t)
  /\ UNCHANGED <<sessions, flows, invited>>

\* Checkout, which leaves for the provider's page, and cancellation.
Billing(t) ==
  /\ Accepts(t, "billing")
  /\ \/ ~SignedIn(t) /\ Dismissed(t)
     \/ SignedIn(t) /\ (Renders(t, "blank") \/ Changed(t))
     \/ Expelled(t) /\ Renders(t, "error")
  /\ UNCHANGED <<sessions, flows, invited>>

\* Whether the API agrees or not.
SwitchWorkspace(t) ==
  /\ Accepts(t, "switch")
  /\ Redirects(t, Keeps, "app")
  /\ UNCHANGED <<sessions, flows, invited>>

ServeAction(t) ==
  \/ RefuseForm(t) \/ SignIn(t) \/ FinishSignup(t) \/ AcceptInvite(t) \/ Confirm(t)
  \/ Logout(t) \/ Settings(t) \/ BillingProfile(t) \/ Billing(t) \/ SwitchWorkspace(t)

-----------------------------------------------------------------------------
(* Sign-in with a provider                                                 *)

\* Where the sign-in began, as the state says; without a state, at login.
Fallback(t) ==
  IF req[t].what = "callback" /\ req[t].sent.state = Nothing THEN {"login"} ELSE {"login", "signup"}
FallsBack(t, change) == \E page \in Fallback(t) : Redirects(t, change, page)

\* Bug: a state that is still there is kept.
StateToSetIfNone(t, f) == IF req[t].sent.state = Nothing THEN f ELSE "keep"

\* buildOAuthAuthorizationUrl may have to ask the provider where its page is.
Undiscovered(t) == Renders(t, "error")

\* A new state, whatever the browser had.
StateToSet(t, f) == f

Start(t) ==
  /\ req[t].at = "sent" /\ req[t].what = "start"
  /\ \/ \E f \in Fresh({f \in Flows : flows[f].at = "new"}), k \in ProxyTokens(req[t].sent) :
          /\ flows' = [flows EXCEPT ![f].at = "begun"]
          /\ req' = [req EXCEPT ![t] =
               [@ EXCEPT !.at = "served", !.flow = f, !.show = "provider",
                         !.sets = [Keeps EXCEPT !.state = StateToSet(t, f), !.csrf = k]]]
          /\ issued' = issued \cup ({k} \cap Tokens)
          /\ UNCHANGED browserVars
     \/ (FallsBack(t, Keeps) \/ Undiscovered(t)) /\ UNCHANGED flows
  /\ UNCHANGED <<sessions, invited>>

\* The code comes with a state that is not the browser's, or does not come.
TurnAway(t) ==
  LET f == req[t].flow IN
  /\ f = Nothing \/ req[t].sent.state # f
  /\ flows' = IF f = Nothing THEN flows ELSE [flows EXCEPT ![f].turned = @ \/ ~flows[f].redeemed]
  /\ FallsBack(t, [Keeps EXCEPT !.state = Nothing])
  /\ UNCHANGED sessions

\* exchangeOauthCodeForProfile: a provider accepts its code once, and an answer
\* without a usable identity is an error like any other.
Exchange(f, to) ==
  flows' = [flows EXCEPT ![f].redeemed = TRUE, ![f].at = IF to = Nothing THEN @ ELSE to]

CompleteOauth(t) ==
  LET f == req[t].flow IN
  /\ f # Nothing /\ req[t].sent.state = f
  /\ \/ /\ ~flows[f].redeemed
        /\ Exchange(f, "used")
        /\ Admits(t, [Keeps EXCEPT !.state = Nothing, !.pending = Nothing])
     \/ /\ ~flows[f].redeemed
        /\ Exchange(f, "candidate")
        /\ Redirects(t, [Keeps EXCEPT !.state = Nothing, !.session = Nothing, !.pending = f], "signup")
        /\ UNCHANGED sessions
     \/ /\ Exchange(f, Nothing)
        /\ FallsBack(t, [Keeps EXCEPT !.state = Nothing])
        /\ UNCHANGED sessions

Callback(t) ==
  /\ req[t].what = "callback"
  /\ TurnAway(t) \/ CompleteOauth(t)
  /\ UNCHANGED invited

Serve(t) == ServePage(t) \/ ServeAction(t) \/ Start(t) \/ Callback(t)

-----------------------------------------------------------------------------
(* The answer comes                                                        *)

After(old, new) == IF new = "keep" THEN old ELSE new
Applied(c) ==
  [session |-> After(jar.session, c.session), state |-> After(jar.state, c.state),
   pending |-> After(jar.pending, c.pending), csrf |-> After(jar.csrf, c.csrf)]

\* CsrfProvider: the token of the request, or else what the browser holds now;
\* kept as long as the page is not loaded anew.
FormToken(t, cookies) ==
  CASE req[t].show \in {"provider", "blank"} -> Nothing
    [] ~req[t].loads -> tab[t].form
    [] req[t].loads /\ req[t].sent.csrf # Nothing -> req[t].sent.csrf
    [] OTHER -> cookies.csrf

\* A flow whose state the browser holds no more.
Spoil(state) ==
  [f \in Flows |-> IF flows[f].at # "new" /\ state \notin {f, "keep"}
                     THEN [flows[f] EXCEPT !.spoilt = TRUE] ELSE flows[f]]

Arrive(t) ==
  LET r == req[t]  cookies == Applied(r.sets) IN
  /\ r.at = "served"
  /\ jar' = cookies
  /\ flows' = Spoil(r.sets.state)
  /\ left' = IF r.what = "logout" /\ r.go # Nothing THEN left \cup ({r.sent.session} \cap Sessions) ELSE left
  /\ \/ /\ r.go # Nothing
        /\ req' = [req EXCEPT ![t] = Asks(r.go, cookies, Nothing, Nothing, r.loads)]
        /\ UNCHANGED tab
     \/ /\ r.go = Nothing
        /\ req' = [req EXCEPT ![t] = NoRequest]
        /\ tab' = [tab EXCEPT ![t] =
             [page |-> r.show, form |-> FormToken(t, cookies),
              flow |-> IF r.what = "start" /\ r.flow # Nothing THEN r.flow ELSE tab[t].flow]]
  /\ UNCHANGED <<sessions, invited, issued, width, ops>>

\* A cookie reaches its age; the form token's lasts.
CookieExpires ==
  /\ \/ jar' = [jar EXCEPT !.session = Nothing] /\ UNCHANGED flows
     \/ jar' = [jar EXCEPT !.pending = Nothing] /\ UNCHANGED flows
     \/ jar' = [jar EXCEPT !.state = Nothing] /\ flows' = Spoil(Nothing)
  /\ jar' # jar
  /\ UNCHANGED <<tab, req, sessions, left, invited, issued, width, ops>>

\* The API ends a session by itself: it expired, or the member was disabled.
SessionEnds ==
  /\ \E s \in Sessions :
       sessions[s] = "live" /\ sessions' = [sessions EXCEPT ![s] = "ended"]
  /\ UNCHANGED <<browserVars, req, flows, invited, issued>>

DashboardNext ==
  \/ \E t \in Tabs :
       \/ Visit(t) \/ Submit(t) \/ ChooseProvider(t) \/ Consent(t) \/ Refuse(t) \/ ComeBack(t)
       \/ Leave(t) \/ Serve(t) \/ Arrive(t)
  \/ CookieExpires \/ SessionEnds

\* As long as requests are under way some answer is made or taken; users need
\* do nothing, and no request is promised to be quick.
DashboardSpec ==
  /\ DashboardInit
  /\ [][DashboardNext]_dashboardVars
  /\ WF_dashboardVars(\E t \in Tabs : Serve(t) \/ Arrive(t))

-----------------------------------------------------------------------------
(* Properties                                                              *)

\* A session that the user has logged out of does not come back into the cookie,
\* whichever answers were still under way, and whether or not the API was told.
SignedOutStaysOut == jar.session \notin left

\* A provider's user is turned away only if the browser had lost the state: by
\* age, or because another flow was started or ended in the meantime.
TurnedAwayForCause == \A f \in Flows : flows[f].turned => flows[f].spoilt

\* With requests one at a time every form has the token of the cookie, in all
\* tabs; so no form is refused.
FormsFit ==
  width = 1 =>
    \A t \in Tabs : tab[t].page \notin {"blank", "provider"} => tab[t].form = jar.csrf

\* Without invites the browser is not signed in while it holds a provider's
\* unfinished sign-up, whichever answers overlap.
OneIdentity ==
  ~invited => jar.session = Nothing \/ jar.pending = Nothing

\* Whatever the cookies hold, redirects come to an end: when the user rests, so
\* does the browser.
VisitsSettle == []<>(Waiting = {})
=============================================================================
