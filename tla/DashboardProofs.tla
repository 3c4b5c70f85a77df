--------------------------- MODULE DashboardProofs ---------------------------
(***************************************************************************)
(* Theorems about Dashboard, for any number of tabs, sessions, flows and   *)
(* requests under way.  They rest on what an answer may do to the cookies  *)
(* (ServeIs), and on how the cookies, the requests and what the user was   *)
(* told agree until the answer comes.                                      *)
(***************************************************************************)
EXTENDS Dashboard, FiniteSetTheorems, TLAPS

SessionsOnce ==
  /\ \A t \in Tabs : req[t].at # "served" => req[t].sets = Keeps
  /\ \A t \in Tabs : req[t].sets.session \in Sessions =>
       LET s == req[t].sets.session IN
       /\ sessions[s] # "none" /\ s # jar.session /\ s \notin left
       /\ \A u \in Tabs : /\ req[u].sent.session # s
                          /\ u # t => req[u].sets.session # s
  /\ jar.session \in Sessions => sessions[jar.session] # "none"
  /\ \A t \in Tabs : req[t].sent.session \in Sessions => sessions[req[t].sent.session] # "none"
  /\ \A s \in left : sessions[s] # "none"
  /\ \A t \in Tabs : req[t].at = "served" /\ req[t].what = "logout" /\ req[t].go # Nothing =>
       req[t].sets.session = Nothing
  /\ SignedOutStaysOut

FlowsHeld ==
  /\ \A t \in Tabs : tab[t].flow # Nothing =>
       flows[tab[t].flow].at # "new" /\ (jar.state = tab[t].flow \/ flows[tab[t].flow].spoilt)
  /\ \A t \in Tabs : req[t].what = "callback" /\ req[t].flow # Nothing =>
       flows[req[t].flow].at # "new" /\ (req[t].sent.state = req[t].flow \/ flows[req[t].flow].spoilt)
  /\ \A t \in Tabs : req[t].what = "start" /\ req[t].flow # Nothing =>
       flows[req[t].flow].at # "new" /\ req[t].sets.state = req[t].flow
  /\ TurnedAwayForCause

OneToken ==
  /\ \A t, u \in Waiting : t = u
  /\ \A t \in Waiting :
       /\ req[t].sent.csrf = jar.csrf
       /\ req[t].at = "served" => (req[t].sets.csrf = "keep") = (jar.csrf # Nothing)
       /\ ~req[t].loads => tab[t].page \notin {"blank", "provider"}
  /\ \A t \in Tabs : tab[t].page \notin {"blank", "provider"} =>
       tab[t].form = jar.csrf /\ jar.csrf # Nothing

OneOrOther ==
  /\ \A t \in Tabs : /\ req[t].sets.session \in Sessions => req[t].sets.pending = Nothing
                     /\ req[t].sets.pending \in Flows => req[t].sets.session = Nothing
  /\ jar.session = Nothing \/ jar.pending = Nothing

IInv ==
  /\ DashboardTypeOK /\ SessionsOnce /\ FlowsHeld
  /\ width = 1 => OneToken
  /\ ~invited => OneOrOther

-----------------------------------------------------------------------------
(* Cookies, requests and answers                                           *)

What == Page \cup Action \cup {"start", "callback"}

LEMMA CookiesTyped ==
  /\ NoCookies \in Jar /\ Keeps \in Change
  /\ \A c \in Change :
       /\ [c EXCEPT !.session = Nothing] \in Change
       /\ [c EXCEPT !.state = Nothing] \in Change
       /\ [c EXCEPT !.pending = Nothing] \in Change
       /\ \A s \in Sessions : [c EXCEPT !.session = s] \in Change
       /\ \A f \in Flows : /\ [c EXCEPT !.state = f] \in Change
                           /\ [c EXCEPT !.pending = f] \in Change
       /\ \A k \in Tokens \cup {"keep"} : [c EXCEPT !.csrf = k] \in Change
BY DEF NoCookies, Jar, Keeps, Change

LEMMA AsksTyped ==
  ASSUME NEW what \in What, NEW cookies \in Jar, NEW form \in Tokens \cup {Nothing},
         NEW flow \in Flows \cup {Nothing}, NEW loads \in BOOLEAN
  PROVE  /\ Asks(what, cookies, form, flow, loads) \in Request
         /\ NoRequest \in Request
<1>1. Keeps \in Change /\ NoCookies \in Jar
  BY CookiesTyped
<1>2. Asks(what, cookies, form, flow, loads) \in Request
  BY <1>1 DEF Asks, Request, What, Shown
<1>3. NoRequest = [at |-> "idle", what |-> "app", sent |-> NoCookies, form |-> Nothing,
                   flow |-> Nothing, loads |-> FALSE, sets |-> Keeps, show |-> "blank",
                   go |-> Nothing]
  <2> DEFINE a == Asks("app", NoCookies, Nothing, Nothing, FALSE)
  <2>1. a = [at |-> "sent", what |-> "app", sent |-> NoCookies, form |-> Nothing,
             flow |-> Nothing, loads |-> FALSE, sets |-> Keeps, show |-> "blank", go |-> Nothing]
    BY DEF Asks
  <2>2. NoRequest = [a EXCEPT !.at = "idle"]
    BY DEF NoRequest
  <2> HIDE DEF a
  <2> QED
    BY <2>1, <2>2
<1>4. NoRequest \in Request
  BY <1>1, <1>3 DEF Request, Shown, Page
<1> QED
  BY <1>2, <1>4

LEMMA AsksFields ==
  /\ \A what, cookies, form, flow, loads :
       LET r == Asks(what, cookies, form, flow, loads) IN
       /\ r.at = "sent" /\ r.what = what /\ r.sent = cookies /\ r.flow = flow
       /\ r.loads = loads /\ r.sets = Keeps
  /\ NoRequest.at = "idle" /\ NoRequest.what = "app" /\ NoRequest.sent = NoCookies
  /\ NoRequest.flow = Nothing /\ NoRequest.sets = Keeps
BY DEF Asks, NoRequest

LEMMA KeepsFields ==
  /\ Keeps.session = "keep" /\ Keeps.state = "keep" /\ Keeps.pending = "keep"
  /\ Keeps.csrf = "keep"
  /\ NoCookies.session = Nothing /\ NoCookies.state = Nothing /\ NoCookies.pending = Nothing
BY DEF Keeps, NoCookies

LEMMA AppliedTyped ==
  ASSUME jar \in Jar, NEW c \in Change
  PROVE  /\ Applied(c) \in Jar
         /\ Applied(c).session = IF c.session = "keep" THEN jar.session ELSE c.session
         /\ Applied(c).state = IF c.state = "keep" THEN jar.state ELSE c.state
         /\ Applied(c).pending = IF c.pending = "keep" THEN jar.pending ELSE c.pending
         /\ Applied(c).csrf = IF c.csrf = "keep" THEN jar.csrf ELSE c.csrf
BY DEF Applied, After, Jar, Change

\* An answer moves its request alone, and is what the handler said, with the
\* form token of the proxy.
LEMMA AnswerIs ==
  ASSUME DashboardTypeOK, NEW t \in Tabs, NEW c \in Change, NEW show \in Shown,
         NEW go \in Page \cup {Nothing}, Answers(t, c, show, go)
  PROVE  /\ req[t].at = "sent" /\ UNCHANGED browserVars
         /\ req' \in [Tabs -> Request] /\ issued' \subseteq Tokens
         /\ \A u \in Tabs : u # t => req'[u] = req[u]
         /\ req'[t].at = "served" /\ req'[t].show = show /\ req'[t].go = go
         /\ req'[t].what = req[t].what /\ req'[t].sent = req[t].sent
         /\ req'[t].flow = req[t].flow /\ req'[t].loads = req[t].loads
         /\ req'[t].sets.session = c.session /\ req'[t].sets.state = c.state
         /\ req'[t].sets.pending = c.pending
         /\ IF req[t].sent.csrf = Nothing THEN req'[t].sets.csrf \in Tokens
                                          ELSE req'[t].sets.csrf = "keep"
<1>1. PICK k \in ProxyTokens(req[t].sent) :
        /\ req' = [req EXCEPT ![t] =
             [@ EXCEPT !.at = "served", !.sets = [c EXCEPT !.csrf = k],
                       !.show = show, !.go = go]]
        /\ issued' = issued \cup ({k} \cap Tokens)
  BY DEF Answers
<1>2. IF req[t].sent.csrf = Nothing THEN k \in Tokens ELSE k = "keep"
  BY DEF ProxyTokens, Fresh
<1>3. [c EXCEPT !.csrf = k] \in Change
  BY <1>2, CookiesTyped
<1> DEFINE cs == [c EXCEPT !.csrf = k]
           r == req[t]
           n == [r EXCEPT !.at = "served", !.sets = cs, !.show = show, !.go = go]
<1>4. cs.session = c.session /\ cs.state = c.state /\ cs.pending = c.pending /\ cs.csrf = k
  BY DEF Change
<1>5. r \in Request
  BY DEF DashboardTypeOK
<1>6. /\ n \in Request
      /\ n.at = "served" /\ n.show = show /\ n.go = go /\ n.what = r.what /\ n.sent = r.sent
      /\ n.flow = r.flow /\ n.loads = r.loads /\ n.sets = cs
  <2> HIDE DEF r, cs
  <2> QED
    BY <1>3, <1>5 DEF Request, cs
<1>7. req' = [req EXCEPT ![t] = n]
  BY <1>1
<1>8. req'[t] = n /\ req' \in [Tabs -> Request] /\ \A u \in Tabs : u # t => req'[u] = req[u]
  <2> HIDE DEF n
  <2> QED
    BY <1>6, <1>7 DEF DashboardTypeOK
<1>9. req[t].at = "sent" /\ UNCHANGED browserVars /\ issued' \subseteq Tokens
  BY <1>1 DEF Answers, DashboardTypeOK
<1>10. /\ req'[t].at = "served" /\ req'[t].show = show /\ req'[t].go = go
       /\ req'[t].what = r.what /\ req'[t].sent = r.sent /\ req'[t].flow = r.flow
       /\ req'[t].loads = r.loads /\ req'[t].sets = cs
  <2> HIDE DEF n, cs, r
  <2> QED
    BY <1>6, <1>8
<1>11. /\ req'[t].sets.session = c.session /\ req'[t].sets.state = c.state
       /\ req'[t].sets.pending = c.pending /\ req'[t].sets.csrf = k
  <2> HIDE DEF cs
  <2> QED
    BY <1>4, <1>10
<1> QED
  BY <1>2, <1>8, <1>9, <1>10, <1>11
-----------------------------------------------------------------------------
(* What serving a request may do                                           *)

\* To the sessions, when the answer changes the cookies by c.
SessionsMove(c) ==
  /\ sessions' \in [Sessions -> {"none", "live", "ended"}]
  /\ \A s \in Sessions : sessions[s] # "none" => sessions'[s] # "none"
  /\ c.session \in Sessions => /\ sessions[c.session] = "none" /\ sessions'[c.session] # "none"
                               /\ c.pending = Nothing \/ invited'
  /\ c.pending \in Flows => c.session = Nothing
  /\ invited' \in BOOLEAN /\ (invited => invited')

\* To the flows.
FlowsMove(t) ==
  /\ flows' \in [Flows -> Flow]
  /\ \A f \in Flows :
       /\ flows[f].at # "new" => flows'[f].at # "new"
       /\ flows[f].spoilt => flows'[f].spoilt
       /\ flows'[f].turned =>
            flows[f].turned \/ (req[t].what = "callback" /\ req[t].flow = f /\ req[t].sent.state # f)

Serves(t) ==
  /\ req[t].at = "sent" /\ UNCHANGED browserVars
  /\ req' \in [Tabs -> Request] /\ issued' \subseteq Tokens
  /\ \A u \in Tabs : u # t => req'[u] = req[u]
  /\ req'[t].at = "served"
  /\ req'[t].what = req[t].what /\ req'[t].sent = req[t].sent /\ req'[t].loads = req[t].loads
  /\ \/ req'[t].flow = req[t].flow
     \/ /\ req[t].what = "start" /\ req'[t].flow \in Flows
        /\ flows'[req'[t].flow].at # "new" /\ req'[t].sets.state = req'[t].flow
  /\ IF req[t].sent.csrf = Nothing THEN req'[t].sets.csrf \in Tokens
                                  ELSE req'[t].sets.csrf = "keep"
  /\ SessionsMove(req'[t].sets) /\ FlowsMove(t)
  /\ req[t].what = "logout" /\ req'[t].go # Nothing => req'[t].sets.session = Nothing

LEMMA AnswerServes ==
  ASSUME DashboardTypeOK, NEW t \in Tabs, NEW c \in Change, NEW show \in Shown,
         NEW go \in Page \cup {Nothing}, Answers(t, c, show, go),
         SessionsMove(c), FlowsMove(t),
         req[t].what = "logout" /\ go # Nothing => c.session = Nothing
  PROVE  Serves(t)
BY AnswerIs DEF Serves, SessionsMove

\* Of answers that leave the sessions, or all but one of them, and the flows.
LEMMA Unmoved ==
  ASSUME DashboardTypeOK, NEW t \in Tabs, NEW c \in Change
  PROVE  /\ UNCHANGED flows => FlowsMove(t)
         /\ UNCHANGED <<sessions, invited>> /\ c.session \notin Sessions /\ c.pending \notin Flows
              => SessionsMove(c)
         /\ \A s \in Sessions :
              /\ sessions' = [sessions EXCEPT ![s] = "ended"] /\ UNCHANGED invited
              /\ c.session \notin Sessions /\ c.pending \notin Flows
              => SessionsMove(c)
         /\ \A s \in Sessions :
              /\ sessions[s] = "none" /\ sessions' = [sessions EXCEPT ![s] = "live"]
              /\ c.session = s /\ (c.pending = Nothing \/ (c.pending = "keep" /\ invited'))
              /\ invited' \in BOOLEAN /\ (invited => invited')
              => SessionsMove(c)
<1> USE DEF DashboardTypeOK
<1>1. UNCHANGED flows => FlowsMove(t)
  BY DEF FlowsMove
<1>2. UNCHANGED <<sessions, invited>> /\ c.session \notin Sessions /\ c.pending \notin Flows
              => SessionsMove(c)
  BY DEF SessionsMove
<1>3. ASSUME NEW s \in Sessions, sessions' = [sessions EXCEPT ![s] = "ended"], UNCHANGED invited,
             c.session \notin Sessions, c.pending \notin Flows
      PROVE  SessionsMove(c)
  BY <1>3 DEF SessionsMove
<1>4. ASSUME NEW s \in Sessions, sessions[s] = "none", sessions' = [sessions EXCEPT ![s] = "live"],
             c.session = s, c.pending = Nothing \/ (c.pending = "keep" /\ invited'),
             invited' \in BOOLEAN, invited => invited'
      PROVE  SessionsMove(c)
  BY <1>4, DashboardAssumption DEF SessionsMove
<1> QED
  BY <1>1, <1>2, <1>3, <1>4

\* Nothing and "keep" are neither sessions nor flows nor tokens.
LEMMA Apart ==
  /\ Nothing \notin Sessions /\ Nothing \notin Flows /\ Nothing \notin Tokens
  /\ "keep" \notin Sessions /\ "keep" \notin Flows /\ "keep" \notin Tokens
  /\ Nothing # "keep"
BY DashboardAssumption

LEMMA KeepsServes ==
  ASSUME DashboardTypeOK, NEW t \in Tabs, NEW show \in Shown, NEW go \in Page \cup {Nothing},
         Answers(t, Keeps, show, go), UNCHANGED <<sessions, flows, invited>>,
         req[t].what = "logout" => go = Nothing
  PROVE  Serves(t)
BY AnswerServes, Unmoved, Apart, CookiesTyped, KeepsFields

\* An answer without a redirect, and one with, that leaves the cookies.
LEMMA Quiet ==
  ASSUME DashboardTypeOK, NEW t \in Tabs, UNCHANGED <<sessions, flows, invited>>
  PROVE  /\ \A page \in Shown : Renders(t, page) => Serves(t)
         /\ Stays(t) => Serves(t)
         /\ \A page \in Page : req[t].what # "logout" /\ Redirects(t, Keeps, page) => Serves(t)
<1>1. \A page \in Shown : Renders(t, page) => Serves(t)
  BY KeepsServes DEF Renders
<1>2. Stays(t) => Serves(t)
  BY KeepsServes DEF Stays, DashboardTypeOK, Tab
<1>3. \A page \in Page : req[t].what # "logout" /\ Redirects(t, Keeps, page) => Serves(t)
  BY KeepsServes DEF Redirects, Shown
<1> QED
  BY <1>1, <1>2, <1>3

\* An answer that takes the session cookie away.
LEMMA SignsOut ==
  ASSUME DashboardTypeOK, NEW t \in Tabs,
         Redirects(t, [Keeps EXCEPT !.session = Nothing], "login"), UNCHANGED <<flows, invited>>,
         \/ UNCHANGED sessions
         \/ \E s \in Sessions : sessions' = [sessions EXCEPT ![s] = "ended"]
  PROVE  Serves(t)
<1> DEFINE c == [Keeps EXCEPT !.session = Nothing]
<1>1. c \in Change /\ c.session = Nothing /\ c.pending = "keep"
  BY CookiesTyped DEF Keeps
<1>2. Answers(t, c, "blank", "login")
  BY DEF Redirects
<1> HIDE DEF c
<1>3. SessionsMove(c) /\ FlowsMove(t)
  BY <1>1, Unmoved, Apart
<1> QED
  BY <1>1, <1>2, <1>3, AnswerServes DEF Shown, Page

LEMMA AdmitsServes ==
  ASSUME DashboardTypeOK, NEW t \in Tabs, NEW c \in Change, Admits(t, c), FlowsMove(t),
         c.pending = Nothing \/ (c.pending = "keep" /\ invited'),
         invited' \in BOOLEAN, invited => invited', req[t].what # "logout"
  PROVE  Serves(t)
<1>1. PICK s \in Sessions : /\ sessions[s] = "none" /\ sessions' = [sessions EXCEPT ![s] = "live"]
                            /\ Redirects(t, [c EXCEPT !.session = s], "app")
  BY DEF Admits, Fresh
<1> DEFINE d == [c EXCEPT !.session = s]
<1>2. d \in Change /\ d.session = s /\ d.pending = c.pending
  BY CookiesTyped DEF Change
<1>3. Answers(t, d, "blank", "app")
  BY <1>1 DEF Redirects
<1> HIDE DEF d
<1>4. SessionsMove(d)
  BY <1>1, <1>2, Unmoved
<1> QED
  BY <1>2, <1>3, <1>4, AnswerServes DEF Shown, Page
\* A handler that writes one flow.
LEMMA FlowWritten ==
  ASSUME DashboardTypeOK, NEW t \in Tabs, NEW f \in Flows, NEW n \in Flow,
         flows' = [flows EXCEPT ![f] = n],
         flows[f].at # "new" => n.at # "new",
         flows[f].spoilt => n.spoilt,
         n.turned => flows[f].turned
                       \/ (req[t].what = "callback" /\ req[t].flow = f /\ req[t].sent.state # f)
  PROVE  FlowsMove(t)
<1>1. flows' \in [Flows -> Flow] /\ flows'[f] = n /\ \A g \in Flows : g # f => flows'[g] = flows[g]
  BY DEF DashboardTypeOK
<1> QED
  BY <1>1 DEF FlowsMove

LEMMA FlowUpdates ==
  ASSUME DashboardTypeOK, NEW f \in Flows
  PROVE  /\ flows[f] \in Flow
         /\ \A a \in {"begun", "consented", "candidate", "used"} :
              LET n == [flows[f] EXCEPT !.at = a] IN
              n \in Flow /\ n.at = a /\ n.spoilt = flows[f].spoilt /\ n.turned = flows[f].turned
         /\ \A a \in {"begun", "consented", "candidate", "used"} :
              LET n == [flows[f] EXCEPT !.redeemed = TRUE, !.at = a] IN
              n \in Flow /\ n.at = a /\ n.spoilt = flows[f].spoilt /\ n.turned = flows[f].turned
         /\ LET n == [flows[f] EXCEPT !.redeemed = TRUE, !.at = flows[f].at] IN
            n \in Flow /\ n.at = flows[f].at /\ n.spoilt = flows[f].spoilt
              /\ n.turned = flows[f].turned
         /\ \A b \in BOOLEAN :
              LET n == [flows[f] EXCEPT !.turned = b] IN
              n \in Flow /\ n.at = flows[f].at /\ n.spoilt = flows[f].spoilt /\ n.turned = b
         /\ LET n == [flows[f] EXCEPT !.spoilt = TRUE] IN
            n \in Flow /\ n.at = flows[f].at /\ n.spoilt = TRUE /\ n.turned = flows[f].turned
<1>1. flows[f] \in Flow
  BY DEF DashboardTypeOK
<1> DEFINE w == flows[f]
<1> HIDE DEF w
<1>2. w \in Flow
  BY <1>1 DEF w
<1>3. /\ \A a \in {"begun", "consented", "candidate", "used"} :
           LET n == [w EXCEPT !.at = a] IN
           n \in Flow /\ n.at = a /\ n.spoilt = w.spoilt /\ n.turned = w.turned
      /\ \A a \in {"begun", "consented", "candidate", "used"} :
           LET n == [w EXCEPT !.redeemed = TRUE, !.at = a] IN
           n \in Flow /\ n.at = a /\ n.spoilt = w.spoilt /\ n.turned = w.turned
  BY <1>2 DEF Flow
<1>4. /\ LET n == [w EXCEPT !.redeemed = TRUE, !.at = w.at] IN
         n \in Flow /\ n.at = w.at /\ n.spoilt = w.spoilt /\ n.turned = w.turned
      /\ \A b \in BOOLEAN :
           LET n == [w EXCEPT !.turned = b] IN
           n \in Flow /\ n.at = w.at /\ n.spoilt = w.spoilt /\ n.turned = b
      /\ LET n == [w EXCEPT !.spoilt = TRUE] IN
         n \in Flow /\ n.at = w.at /\ n.spoilt = TRUE /\ n.turned = w.turned
  BY <1>2 DEF Flow
<1> QED
  BY <1>1, <1>3, <1>4 DEF w

LEMMA PageServes ==
  ASSUME DashboardTypeOK, NEW t \in Tabs, ServePage(t)
  PROVE  Serves(t)
<1>1. UNCHANGED <<sessions, flows, invited>> /\ req[t].what # "logout"
  BY DEF ServePage
<1>2. CASE Entrance(t)
  BY <1>1, <1>2, Quiet DEF Entrance, RedirectIfAuthenticated, Shown, Page
<1>3. CASE ProductLayout(t)
  BY <1>1, <1>3, Quiet DEF ProductLayout, Snapshot, Shown, Page
<1>4. CASE VerifyEmail(t) \/ Renders(t, "invite")
  BY <1>1, <1>4, Quiet DEF VerifyEmail, Shown, Page
<1> QED
  BY <1>2, <1>3, <1>4 DEF ServePage

LEMMA EntryServes ==
  ASSUME DashboardTypeOK, NEW t \in Tabs, SignIn(t) \/ FinishSignup(t) \/ AcceptInvite(t)
  PROVE  Serves(t)
<1> DEFINE c == [Keeps EXCEPT !.pending = Nothing]
<1>1. c \in Change /\ c.pending = Nothing /\ Keeps \in Change /\ Keeps.pending = "keep"
  BY CookiesTyped DEF Keeps
<1>2. req[t].what # "logout" /\ req[t] \in Request
  BY DEF SignIn, FinishSignup, AcceptInvite, Accepts, DashboardTypeOK
<1>3. CASE SignIn(t)
  <2>1. UNCHANGED <<flows, invited>> /\ (Admits(t, c) \/ (Stays(t) /\ UNCHANGED sessions))
    BY <1>3 DEF SignIn
  <2> HIDE DEF c
  <2> QED
    BY <1>1, <1>2, <2>1, AdmitsServes, Quiet, Unmoved DEF DashboardTypeOK
<1>4. CASE FinishSignup(t)
  <2> DEFINE f == req[t].sent.pending
  <2>1. CASE /\ f # Nothing /\ flows[f].at = "candidate"
             /\ flows' = [flows EXCEPT ![f].at = "used"]
             /\ Admits(t, c) /\ UNCHANGED invited
    <3>1. f \in Flows
      BY <1>2, <2>1 DEF Request, Jar
    <3> HIDE DEF f, c
    <3>2. flows' = [flows EXCEPT ![f] = [flows[f] EXCEPT !.at = "used"]]
      BY <2>1
    <3> DEFINE n == [flows[f] EXCEPT !.at = "used"]
    <3>3. n \in Flow /\ n.at = "used" /\ n.spoilt = flows[f].spoilt /\ n.turned = flows[f].turned
      BY <3>1, FlowUpdates
    <3> HIDE DEF n
    <3>4. FlowsMove(t)
      BY <3>1, <3>2, <3>3, FlowWritten DEF n
    <3> QED
      BY <1>1, <1>2, <2>1, <3>4, AdmitsServes DEF DashboardTypeOK
  <2>2. CASE Stays(t) /\ UNCHANGED <<sessions, flows, invited>>
    BY <2>2, Quiet
  <2> QED
    BY <1>4, <2>1, <2>2 DEF FinishSignup
<1>5. CASE AcceptInvite(t)
  <2>1. UNCHANGED flows
    BY <1>5 DEF AcceptInvite
  <2>2. CASE Admits(t, Keeps) /\ invited' = TRUE
    BY <1>1, <1>2, <2>1, <2>2, AdmitsServes, Unmoved
  <2>3. CASE Stays(t) /\ UNCHANGED <<sessions, invited>>
    BY <2>1, <2>3, Quiet
  <2> QED
    BY <1>5, <2>2, <2>3 DEF AcceptInvite
<1> QED
  BY <1>3, <1>4, <1>5

LEMMA ActionServes ==
  ASSUME DashboardTypeOK, NEW t \in Tabs, ServeAction(t)
  PROVE  Serves(t)
<1>1. CASE RefuseForm(t)
  BY <1>1, Quiet DEF RefuseForm, Shown
<1>2. CASE Confirm(t)
  BY <1>2, Quiet DEF Confirm, Accepts, Page
<1>3. CASE Logout(t)
  <2>1. req[t].sent.session \in Sessions \cup {Nothing}
    BY DEF DashboardTypeOK, Request, Jar
  <2> QED
    BY <1>3, <2>1, SignsOut DEF Logout, SignedOut
<1>4. CASE (Settings(t) \/ BillingProfile(t) \/ Billing(t)) /\ Dismissed(t)
  <2>1. UNCHANGED <<sessions, flows, invited>> /\ req[t].what # "logout"
    BY <1>4 DEF Settings, BillingProfile, Billing, Accepts
  <2>2. CASE Expelled(t)
    BY <1>4, <2>1, <2>2, SignsOut DEF Dismissed
  <2>3. CASE ~Expelled(t)
    BY <1>4, <2>1, <2>3, Quiet DEF Dismissed, Page
  <2> QED
    BY <2>2, <2>3
<1>5. CASE ((Settings(t) \/ BillingProfile(t) \/ Billing(t)) /\ ~Dismissed(t)) \/ SwitchWorkspace(t)
  <2>1. UNCHANGED <<sessions, flows, invited>> /\ req[t].what # "logout"
    BY <1>5 DEF Settings, BillingProfile, Billing, SwitchWorkspace, Accepts
  <2> QED
    BY <1>5, <2>1, Quiet DEF Settings, BillingProfile, Billing, SwitchWorkspace, Caught, Changed, Page, Shown
<1> QED
  BY <1>1, <1>2, <1>3, <1>4, <1>5, EntryServes DEF ServeAction
\* Of a sign-in that begins: its request holds the flow from then on.
LEMMA BeginServes ==
  ASSUME DashboardTypeOK, NEW t \in Tabs, NEW f \in Flows, NEW k \in ProxyTokens(req[t].sent),
         req[t].at = "sent", req[t].what = "start",
         flows' = [flows EXCEPT ![f].at = "begun"],
         req' = [req EXCEPT ![t] =
           [@ EXCEPT !.at = "served", !.flow = f, !.show = "provider",
                     !.sets = [Keeps EXCEPT !.state = StateToSet(t, f), !.csrf = k]]],
         issued' = issued \cup ({k} \cap Tokens),
         UNCHANGED browserVars, UNCHANGED <<sessions, invited>>
  PROVE  Serves(t)
<1>1. IF req[t].sent.csrf = Nothing THEN k \in Tokens ELSE k = "keep"
  BY DEF ProxyTokens, Fresh
<1> DEFINE cs == [Keeps EXCEPT !.state = StateToSet(t, f), !.csrf = k]
           r == req[t]
           n == [r EXCEPT !.at = "served", !.flow = f, !.show = "provider", !.sets = cs]
           g == [flows[f] EXCEPT !.at = "begun"]
<1>2. /\ cs \in Change /\ cs.session = "keep" /\ cs.state = f /\ cs.pending = "keep"
      /\ cs.csrf = k
  BY <1>1 DEF Keeps, Change, StateToSet
<1>3. r \in Request
  BY DEF DashboardTypeOK
<1>4. /\ n \in Request
      /\ n.at = "served" /\ n.flow = f /\ n.what = r.what /\ n.sent = r.sent
      /\ n.loads = r.loads /\ n.sets = cs
  <2> HIDE DEF r, cs
  <2> QED
    BY <1>2, <1>3 DEF Request, Shown
<1>5. req' = [req EXCEPT ![t] = n]
  OBVIOUS
<1>6. req'[t] = n /\ req' \in [Tabs -> Request] /\ \A u \in Tabs : u # t => req'[u] = req[u]
  <2> HIDE DEF n
  <2> QED
    BY <1>4, <1>5 DEF DashboardTypeOK
<1>7. /\ req'[t].at = "served" /\ req'[t].what = r.what /\ req'[t].sent = r.sent
      /\ req'[t].flow = f /\ req'[t].loads = r.loads /\ req'[t].sets = cs
  <2> HIDE DEF n, cs, r
  <2> QED
    BY <1>4, <1>6
<1>8. /\ req'[t].sets.session = "keep" /\ req'[t].sets.state = f
      /\ req'[t].sets.pending = "keep" /\ req'[t].sets.csrf = k
  <2> HIDE DEF cs
  <2> QED
    BY <1>2, <1>7
<1>9. g \in Flow /\ g.at = "begun" /\ g.spoilt = flows[f].spoilt /\ g.turned = flows[f].turned
  BY FlowUpdates
<1>10. flows' = [flows EXCEPT ![f] = g]
  OBVIOUS
<1> HIDE DEF g, n, cs
<1>11. FlowsMove(t)
  BY <1>9, <1>10, FlowWritten, ZenonT(60)
<1>12. flows'[f].at = "begun"
  BY <1>9, <1>10 DEF DashboardTypeOK
<1>13. SessionsMove(req'[t].sets)
  BY <1>8, Apart DEF SessionsMove, DashboardTypeOK
<1>14. issued' \subseteq Tokens
  BY DEF DashboardTypeOK
<1> QED
  BY <1>1, <1>6, <1>7, <1>8, <1>11, <1>12, <1>13, <1>14 DEF Serves

LEMMA FallbackPage ==
  ASSUME NEW t \in Tabs, NEW c, FallsBack(t, c)
  PROVE  \E page \in Page : Redirects(t, c, page)
BY DEF FallsBack, Fallback, Page

LEMMA StartServes ==
  ASSUME DashboardTypeOK, NEW t \in Tabs, Start(t)
  PROVE  Serves(t)
<1>1. req[t].at = "sent" /\ req[t].what = "start" /\ UNCHANGED <<sessions, invited>>
  BY DEF Start
<1>2. CASE (FallsBack(t, Keeps) \/ Undiscovered(t)) /\ UNCHANGED flows
  BY <1>1, <1>2, FallbackPage, Quiet DEF Undiscovered, Page, Shown
<1>3. CASE \E f \in Fresh({f \in Flows : flows[f].at = "new"}), k \in ProxyTokens(req[t].sent) :
          /\ flows' = [flows EXCEPT ![f].at = "begun"]
          /\ req' = [req EXCEPT ![t] =
               [@ EXCEPT !.at = "served", !.flow = f, !.show = "provider",
                         !.sets = [Keeps EXCEPT !.state = StateToSet(t, f), !.csrf = k]]]
          /\ issued' = issued \cup ({k} \cap Tokens)
          /\ UNCHANGED browserVars
  <2>1. Fresh({f \in Flows : flows[f].at = "new"}) \subseteq Flows
    BY DEF Fresh
  <2> QED
    BY <1>1, <1>3, <2>1, BeginServes
<1> QED
  BY <1>2, <1>3 DEF Start

LEMMA CallbackServes ==
  ASSUME DashboardTypeOK, NEW t \in Tabs, Callback(t)
  PROVE  Serves(t)
<1> DEFINE f == req[t].flow
           c == [Keeps EXCEPT !.state = Nothing]
           d == [Keeps EXCEPT !.state = Nothing, !.pending = Nothing]
           e == [Keeps EXCEPT !.state = Nothing, !.session = Nothing, !.pending = f]
<1>1. req[t].what = "callback" /\ UNCHANGED invited /\ f \in Flows \cup {Nothing}
  BY DEF Callback, DashboardTypeOK, Request
<1>2. /\ c \in Change /\ c.session = "keep" /\ c.pending = "keep"
      /\ d \in Change /\ d.pending = Nothing
      /\ e.session = Nothing /\ e.pending = f /\ (f # Nothing => e \in Change)
  BY <1>1 DEF Keeps, Change
<1>3. CASE TurnAway(t)
  <2>1. UNCHANGED sessions /\ (f = Nothing \/ req[t].sent.state # f) /\ FallsBack(t, c)
    BY <1>3 DEF TurnAway
  <2>2. FlowsMove(t)
    <3>1. CASE f = Nothing
      BY <1>2, <1>3, <3>1, Unmoved DEF TurnAway
    <3>2. CASE f # Nothing
      <4> DEFINE b == flows[f].turned \/ ~flows[f].redeemed
                 n == [flows[f] EXCEPT !.turned = b]
      <4>1. f \in Flows /\ b \in BOOLEAN
        BY <1>1, <3>2
      <4>2. flows' = [flows EXCEPT ![f] = n]
        BY <1>3, <3>2 DEF TurnAway
      <4>3. n \in Flow /\ n.at = flows[f].at /\ n.spoilt = flows[f].spoilt
        BY <4>1, FlowUpdates
      <4> HIDE DEF n, f
      <4>4. req[t].flow = f /\ req[t].sent.state # f
        BY <2>1, <3>2 DEF f
      <4> QED
        BY <1>1, <4>1, <4>2, <4>3, <4>4, FlowWritten
    <3> QED
      BY <3>1, <3>2
  <2> HIDE DEF c
  <2>3. SessionsMove(c)
    BY <1>1, <1>2, <2>1, Unmoved, Apart
  <2>4. PICK page \in Page : Answers(t, c, "blank", page)
    BY <2>1, FallbackPage DEF Redirects
  <2> QED
    BY <1>1, <1>2, <2>2, <2>3, <2>4, AnswerServes DEF Shown
<1>4. CASE CompleteOauth(t)
  <2>1. f \in Flows
    BY <1>1, <1>4 DEF CompleteOauth
  <2>2. ASSUME NEW to \in {"used", "candidate", Nothing}, Exchange(f, to)
        PROVE  FlowsMove(t)
    <3> DEFINE a == IF to = Nothing THEN flows[f].at ELSE to
               n == [flows[f] EXCEPT !.redeemed = TRUE, !.at = a]
    <3>1. flows' = [flows EXCEPT ![f] = n]
      BY <2>2 DEF Exchange
    <3>2. /\ n \in Flow /\ n.spoilt = flows[f].spoilt /\ n.turned = flows[f].turned
          /\ n.at \in {"used", "candidate", flows[f].at}
      <4>1. CASE to = Nothing
        <5> DEFINE m == [flows[f] EXCEPT !.redeemed = TRUE, !.at = flows[f].at]
        <5>1. n = m
          BY <4>1
        <5>2. /\ m \in Flow /\ m.spoilt = flows[f].spoilt /\ m.turned = flows[f].turned
              /\ m.at = flows[f].at
          BY <2>1, FlowUpdates
        <5> HIDE DEF m, n
        <5> QED
          BY <5>1, <5>2
      <4>2. CASE to # Nothing
        <5>1. a \in {"used", "candidate"} /\ a \in {"begun", "consented", "candidate", "used"}
          BY <2>2, <4>2
        <5> HIDE DEF a, f
        <5>2. /\ n \in Flow /\ n.spoilt = flows[f].spoilt /\ n.turned = flows[f].turned
              /\ n.at = a
          BY <2>1, <5>1, FlowUpdates, ZenonT(60)
        <5> HIDE DEF n
        <5> QED
          BY <5>1, <5>2
      <4> QED
        BY <4>1, <4>2
    <3> HIDE DEF n, f
    <3> QED
      BY <2>1, <3>1, <3>2, FlowWritten
  <2>3. CASE Exchange(f, "used") /\ Admits(t, d)
    <3>1. FlowsMove(t)
      BY <2>2, <2>3
    <3> HIDE DEF d, f
    <3> QED
      BY <1>1, <1>2, <2>3, <3>1, AdmitsServes DEF DashboardTypeOK
  <2>4. CASE Exchange(f, "candidate") /\ Redirects(t, e, "signup") /\ UNCHANGED sessions
    <3>1. FlowsMove(t)
      BY <2>2, <2>4
    <3>2. Answers(t, e, "blank", "signup")
      BY <2>4 DEF Redirects
    <3> HIDE DEF e
    <3>3. e \in Change /\ e.session = Nothing
      BY <1>2, <2>1, Apart
    <3>4. SessionsMove(e)
      BY <1>1, <2>4, <3>3, Apart DEF SessionsMove, DashboardTypeOK
    <3> QED
      BY <1>1, <3>1, <3>2, <3>3, <3>4, AnswerServes DEF Shown, Page
  <2>5. CASE Exchange(f, Nothing) /\ FallsBack(t, c) /\ UNCHANGED sessions
    <3>1. FlowsMove(t)
      BY <2>2, <2>5
    <3> HIDE DEF c
    <3>2. PICK page \in Page : Answers(t, c, "blank", page)
      BY <2>5, FallbackPage DEF Redirects
    <3>3. SessionsMove(c)
      BY <1>1, <1>2, <2>5, Unmoved, Apart
    <3> QED
      BY <1>1, <1>2, <3>1, <3>2, <3>3, AnswerServes DEF Shown
  <2> QED
    BY <1>4, <2>3, <2>4, <2>5 DEF CompleteOauth
<1> QED
  BY <1>3, <1>4 DEF Callback

LEMMA ServeIs ==
  ASSUME DashboardTypeOK, NEW t \in Tabs, Serve(t)
  PROVE  Serves(t)
BY PageServes, ActionServes, StartServes, CallbackServes DEF Serve
-----------------------------------------------------------------------------
(* What the user and the browser may do                                    *)

\* The flows move on, and none is spoilt or turned away.
FlowsGo ==
  /\ flows' \in [Flows -> Flow]
  /\ \A f \in Flows : /\ flows[f].at # "new" => flows'[f].at # "new"
                      /\ flows'[f].spoilt = flows[f].spoilt
                      /\ flows'[f].turned = flows[f].turned

Moves(t) ==
  /\ req' \in [Tabs -> Request]
  /\ \A u \in Tabs : u # t => req'[u] = req[u]

\* A request is sent with the cookies of the moment.
Sends(t) ==
  /\ Moves(t) /\ FlowsGo
  /\ req[t].at = "idle" /\ Cardinality(Waiting) < width
  /\ UNCHANGED <<jar, tab, sessions, left, invited, issued, width>> /\ ops' \in 0..MaxOps
  /\ req'[t].at = "sent" /\ req'[t].sent = jar /\ req'[t].sets = Keeps
  /\ req'[t].what # "start" \/ req'[t].flow = Nothing
  /\ req'[t].loads \/ tab[t].page \notin {"blank", "provider"}
  /\ req'[t].what = "callback" => req'[t].flow \in {Nothing, tab[t].flow}

LEMMA DoesSends ==
  ASSUME DashboardTypeOK, NEW t \in Tabs, NEW what \in What, NEW form \in Tokens \cup {Nothing},
         NEW flow \in Flows \cup {Nothing}, NEW loads \in BOOLEAN,
         Does(t, Asks(what, jar, form, flow, loads)), FlowsGo,
         what # "start" \/ flow = Nothing,
         loads \/ tab[t].page \notin {"blank", "provider"},
         what = "callback" => flow \in {Nothing, tab[t].flow}
  PROVE  Sends(t)
<1> DEFINE r == Asks(what, jar, form, flow, loads)
<1>1. r \in Request
  BY AsksTyped DEF DashboardTypeOK
<1>2. /\ r.at = "sent" /\ r.what = what /\ r.sent = jar /\ r.flow = flow
      /\ r.loads = loads /\ r.sets = Keeps
  BY AsksFields
<1>3. /\ req' = [req EXCEPT ![t] = r] /\ t \notin Waiting /\ Cardinality(Waiting) < width
      /\ UNCHANGED <<jar, tab, sessions, left, invited, issued, width>>
      /\ ops' = ops + 1 /\ ops + width <= MaxOps
  BY DEF Does
<1> HIDE DEF r
<1>4. req' \in [Tabs -> Request] /\ req'[t] = r /\ \A u \in Tabs : u # t => req'[u] = req[u]
  BY <1>1, <1>3 DEF DashboardTypeOK
<1>5. ops' \in 0..MaxOps
  BY <1>3, DashboardAssumption DEF DashboardTypeOK
<1>6. req[t].at = "idle"
  BY <1>3 DEF Waiting
<1> QED
  BY <1>2, <1>3, <1>4, <1>5, <1>6 DEF Sends, Moves

LEMMA UserSends ==
  ASSUME DashboardTypeOK, NEW t \in Tabs,
         Visit(t) \/ Submit(t) \/ ChooseProvider(t) \/ Consent(t) \/ Refuse(t) \/ ComeBack(t)
  PROVE  Sends(t)
<1>1. UNCHANGED flows => FlowsGo
  BY DEF FlowsGo, DashboardTypeOK
<1>2. tab[t].form \in Tokens \cup {Nothing} /\ tab[t].flow \in Flows \cup {Nothing}
  BY DEF DashboardTypeOK, Tab
<1>3. CASE Visit(t)
  BY <1>1, <1>3, DoesSends DEF Visit, What, Page
<1>4. CASE Submit(t)
  <2>1. PICK a \in Offers(tab[t].page) : Does(t, Asks(a, jar, tab[t].form, Nothing, FALSE))
    BY <1>4 DEF Submit
  <2>2. a \in Action /\ tab[t].page \notin {"blank", "provider"}
    <3> DEFINE p == tab[t].page
    <3>1. a \in Offers(p)
      BY <2>1
    <3> HIDE DEF p
    <3>2. a \in Action /\ p \notin {"blank", "provider"}
      BY <3>1 DEF Offers, Action
    <3> QED
      BY <3>2 DEF p
  <2>3. a \notin {"start", "callback"} /\ a \in What
    BY <2>2 DEF Action, What
  <2> QED
    BY <1>1, <1>2, <1>4, <2>1, <2>2, <2>3, DoesSends DEF Submit
<1>5. CASE ChooseProvider(t) \/ Refuse(t)
  BY <1>1, <1>5, DoesSends DEF ChooseProvider, Refuse, What
<1>6. CASE Consent(t)
  <2> DEFINE f == tab[t].flow
             a == IF flows[f].at = "begun" THEN "consented" ELSE flows[f].at
             n == [flows[f] EXCEPT !.at = a]
  <2>1. f \in Flows /\ Does(t, Asks("callback", jar, Nothing, f, TRUE))
    BY <1>2, <1>6 DEF Consent
  <2>2. flows' = [flows EXCEPT ![f] = n]
    BY <1>6 DEF Consent
  <2>3. flows[f] \in Flow
    BY <2>1 DEF DashboardTypeOK
  <2>4. /\ n \in Flow /\ n.at = a /\ n.spoilt = flows[f].spoilt /\ n.turned = flows[f].turned
    BY <2>3 DEF Flow
  <2>5. flows[f].at # "new" => a # "new"
    OBVIOUS
  <2> HIDE DEF n, a
  <2>6. FlowsGo
    BY <2>1, <2>2, <2>4, <2>5 DEF FlowsGo, DashboardTypeOK
  <2> QED
    BY <2>1, <2>6, DoesSends DEF What
<1>7. CASE ComeBack(t)
  BY <1>1, <1>2, <1>7, DoesSends DEF ComeBack, What
<1> QED
  BY <1>3, <1>4, <1>5, <1>6, <1>7
\* The answer comes: what it sets is set, and either the redirect is followed or
\* the page is shown.
Follows(t) ==
  /\ req[t].go # Nothing /\ UNCHANGED tab
  /\ req'[t].at = "sent" /\ req'[t].what \in Page /\ req'[t].sent = jar'
  /\ req'[t].flow = Nothing /\ req'[t].loads = req[t].loads

Shows(t) ==
  /\ req[t].go = Nothing
  /\ req'[t].at = "idle" /\ req'[t].what = "app" /\ req'[t].sent = NoCookies
  /\ req'[t].flow = Nothing
  /\ \A u \in Tabs : u # t => tab'[u] = tab[u]
  /\ tab'[t].page = req[t].show /\ tab'[t].form = FormToken(t, jar')
  /\ tab'[t].flow \in {tab[t].flow} \cup (IF req[t].what = "start" THEN {req[t].flow} ELSE {})

Kept(old, new, set) == new = IF set = "keep" THEN old ELSE set

Arrives(t) ==
  LET sets == req[t].sets IN
  /\ Moves(t) /\ tab' \in [Tabs -> Tab] /\ req[t].at = "served"
  /\ jar' \in Jar
  /\ Kept(jar.session, jar'.session, sets.session) /\ Kept(jar.state, jar'.state, sets.state)
  /\ Kept(jar.pending, jar'.pending, sets.pending) /\ Kept(jar.csrf, jar'.csrf, sets.csrf)
  /\ flows' \in [Flows -> Flow]
  /\ \A f \in Flows : /\ flows'[f].at = flows[f].at /\ flows'[f].turned = flows[f].turned
                      /\ flows[f].spoilt => flows'[f].spoilt
                      /\ flows[f].at # "new" /\ sets.state \notin {f, "keep"} => flows'[f].spoilt
  /\ left' = IF req[t].what = "logout" /\ req[t].go # Nothing
               THEN left \cup ({req[t].sent.session} \cap Sessions) ELSE left
  /\ UNCHANGED <<sessions, invited, issued, width, ops>>
  /\ req'[t].sets = Keeps
  /\ Follows(t) \/ Shows(t)

LEMMA SpoilIs ==
  ASSUME DashboardTypeOK, NEW state, flows' = Spoil(state)
  PROVE  /\ flows' \in [Flows -> Flow]
         /\ \A f \in Flows :
              /\ flows'[f].at = flows[f].at /\ flows'[f].turned = flows[f].turned
              /\ flows[f].spoilt => flows'[f].spoilt
              /\ flows[f].at # "new" /\ state \notin {f, "keep"} => flows'[f].spoilt
<1>1. ASSUME NEW f \in Flows
      PROVE  /\ flows'[f] \in Flow
             /\ flows'[f].at = flows[f].at /\ flows'[f].turned = flows[f].turned
             /\ flows[f].spoilt => flows'[f].spoilt
             /\ flows[f].at # "new" /\ state \notin {f, "keep"} => flows'[f].spoilt
  <2> DEFINE n == [flows[f] EXCEPT !.spoilt = TRUE]
  <2>1. /\ n \in Flow /\ n.at = flows[f].at /\ n.spoilt = TRUE /\ n.turned = flows[f].turned
        /\ flows[f] \in Flow
    BY FlowUpdates
  <2>2. flows'[f] = IF flows[f].at # "new" /\ state \notin {f, "keep"} THEN n ELSE flows[f]
    BY DEF Spoil
  <2> HIDE DEF n
  <2> QED
    BY <2>1, <2>2
<1>2. flows' \in [Flows -> Flow]
  BY <1>1 DEF Spoil
<1> QED
  BY <1>1, <1>2

LEMMA ArriveIs ==
  ASSUME DashboardTypeOK, NEW t \in Tabs, Arrive(t)
  PROVE  Arrives(t)
<1> DEFINE r == req[t]
           cookies == Applied(r.sets)
           next == Asks(r.go, cookies, Nothing, Nothing, r.loads)
           form == FormToken(t, cookies)
           flow == IF r.what = "start" /\ r.flow # Nothing THEN r.flow ELSE tab[t].flow
           shown == [page |-> r.show, form |-> form, flow |-> flow]
<1>1. r \in Request /\ tab[t] \in Tab /\ jar \in Jar
  BY DEF DashboardTypeOK
<1>2. /\ r.sets \in Change /\ r.go \in Page \cup {Nothing} /\ r.show \in Shown
      /\ r.flow \in Flows \cup {Nothing} /\ r.loads \in BOOLEAN /\ r.sent \in Jar
      /\ tab[t].flow \in Flows \cup {Nothing} /\ tab[t].form \in Tokens \cup {Nothing}
  <2> HIDE DEF r
  <2> QED
    BY <1>1 DEF Request, Tab
<1>3. /\ r.at = "served" /\ jar' = cookies /\ flows' = Spoil(r.sets.state)
      /\ left' = IF r.what = "logout" /\ r.go # Nothing
                   THEN left \cup ({r.sent.session} \cap Sessions) ELSE left
      /\ UNCHANGED <<sessions, invited, issued, width, ops>>
  BY DEF Arrive
<1>4. \/ r.go # Nothing /\ req' = [req EXCEPT ![t] = next] /\ UNCHANGED tab
      \/ r.go = Nothing /\ req' = [req EXCEPT ![t] = NoRequest] /\ tab' = [tab EXCEPT ![t] = shown]
  BY DEF Arrive
<1>5. /\ jar' \in Jar
      /\ Kept(jar.session, jar'.session, r.sets.session) /\ Kept(jar.state, jar'.state, r.sets.state)
      /\ Kept(jar.pending, jar'.pending, r.sets.pending) /\ Kept(jar.csrf, jar'.csrf, r.sets.csrf)
  BY <1>1, <1>2, <1>3, AppliedTyped DEF Kept
<1>6. /\ flows' \in [Flows -> Flow]
      /\ \A f \in Flows : /\ flows'[f].at = flows[f].at /\ flows'[f].turned = flows[f].turned
                          /\ flows[f].spoilt => flows'[f].spoilt
                          /\ flows[f].at # "new" /\ r.sets.state \notin {f, "keep"}
                               => flows'[f].spoilt
  BY <1>3, SpoilIs
<1>7. CASE r.go # Nothing /\ req' = [req EXCEPT ![t] = next] /\ UNCHANGED tab
  <2>1. r.go \in Page /\ r.go \in What
    BY <1>2, <1>7 DEF What
  <2>2. next \in Request
    BY <1>2, <1>3, <1>5, <2>1, AsksTyped
  <2>3. /\ next.at = "sent" /\ next.what = r.go /\ next.sent = jar' /\ next.flow = Nothing
        /\ next.loads = r.loads /\ next.sets = Keeps
    BY <1>3, AsksFields
  <2> HIDE DEF next, cookies
  <2>4. Moves(t) /\ req'[t] = next
    BY <1>7, <2>2 DEF Moves, DashboardTypeOK
  <2>5. Follows(t) /\ tab' \in [Tabs -> Tab]
    BY <1>7, <2>1, <2>3, <2>4 DEF Follows, DashboardTypeOK
  <2> QED
    BY <1>3, <1>5, <1>6, <2>3, <2>4, <2>5 DEF Arrives
<1>8. CASE r.go = Nothing /\ req' = [req EXCEPT ![t] = NoRequest] /\ tab' = [tab EXCEPT ![t] = shown]
  <2>1. NoRequest \in Request
    BY <1>1, <1>2, AsksTyped DEF What, Page
  <2>2. form \in Tokens \cup {Nothing} /\ form = FormToken(t, jar')
    <3>1. jar'.csrf \in Tokens \cup {Nothing} /\ r.sent.csrf \in Tokens \cup {Nothing}
      BY <1>2, <1>5 DEF Jar
    <3>2. form = FormToken(t, jar')
      BY <1>3
    <3> QED
      BY <1>2, <3>1, <3>2 DEF FormToken
  <2>3. flow \in Flows \cup {Nothing} /\ flow \in {tab[t].flow} \cup (IF r.what = "start" THEN {r.flow} ELSE {})
    BY <1>2
  <2> HIDE DEF form, flow, cookies
  <2>4. shown \in Tab /\ shown.page = r.show /\ shown.form = form /\ shown.flow = flow
    BY <1>2, <2>2, <2>3 DEF Tab
  <2> HIDE DEF shown
  <2>5. Moves(t) /\ req'[t] = NoRequest
    BY <1>8, <2>1 DEF Moves, DashboardTypeOK
  <2>6. tab' \in [Tabs -> Tab] /\ tab'[t] = shown /\ \A u \in Tabs : u # t => tab'[u] = tab[u]
    BY <1>8, <2>4 DEF DashboardTypeOK
  <2>7. Shows(t) /\ req'[t].sets = Keeps
    BY <1>8, <2>2, <2>3, <2>4, <2>5, <2>6, AsksFields DEF Shows
  <2> QED
    BY <1>3, <1>5, <1>6, <2>5, <2>6, <2>7 DEF Arrives
<1> QED
  BY <1>4, <1>7, <1>8
Leaves(t) ==
  /\ Moves(t) /\ req[t].at = "served"
  /\ UNCHANGED <<jar, tab, sessions, flows, left, invited, issued, width, ops>>
  /\ req'[t].at = "idle" /\ req'[t].what = "app" /\ req'[t].sent = NoCookies
  /\ req'[t].flow = Nothing /\ req'[t].sets = Keeps

Expires ==
  /\ jar' \in Jar /\ jar'.csrf = jar.csrf
  /\ jar'.session \in {jar.session, Nothing} /\ jar'.pending \in {jar.pending, Nothing}
  /\ flows' \in [Flows -> Flow]
  /\ \A f \in Flows : /\ flows'[f].at = flows[f].at /\ flows'[f].turned = flows[f].turned
                      /\ flows[f].spoilt => flows'[f].spoilt
                      /\ flows[f].at # "new" => jar'.state = jar.state \/ flows'[f].spoilt
  /\ UNCHANGED <<tab, req, sessions, left, invited, issued, width, ops>>

Ends ==
  /\ \E s \in Sessions : sessions' = [sessions EXCEPT ![s] = "ended"]
  /\ UNCHANGED <<jar, tab, req, flows, left, invited, issued, width, ops>>

LEMMA LeaveIs ==
  ASSUME DashboardTypeOK, NEW t \in Tabs, Leave(t)
  PROVE  Leaves(t)
<1>1. jar \in Jar
  BY DEF DashboardTypeOK
<1>2. NoRequest \in Request
  BY <1>1, AsksTyped DEF What, Page
<1>3. req[t].at = "served" /\ req' = [req EXCEPT ![t] = NoRequest]
      /\ UNCHANGED <<browserVars, sessions, flows, invited, issued>>
  BY DEF Leave
<1>4. req'[t] = NoRequest /\ Moves(t)
  BY <1>2, <1>3 DEF DashboardTypeOK, Moves
<1> QED
  BY <1>3, <1>4, AsksFields DEF Leaves, browserVars

LEMMA ExpireIs ==
  ASSUME DashboardTypeOK, CookieExpires
  PROVE  Expires
<1> USE DEF Expires
<1>1. jar \in Jar /\ flows \in [Flows -> Flow]
  BY DEF DashboardTypeOK
<1>2. UNCHANGED <<tab, req, sessions, left, invited, issued, width, ops>>
  BY DEF CookieExpires
<1>3. CASE jar' = [jar EXCEPT !.session = Nothing] /\ UNCHANGED flows
  BY <1>1, <1>2, <1>3 DEF Jar
<1>4. CASE jar' = [jar EXCEPT !.pending = Nothing] /\ UNCHANGED flows
  BY <1>1, <1>2, <1>4 DEF Jar
<1>5. CASE jar' = [jar EXCEPT !.state = Nothing] /\ flows' = Spoil(Nothing)
  <2>1. /\ flows' \in [Flows -> Flow]
        /\ \A f \in Flows :
              /\ flows'[f].at = flows[f].at /\ flows'[f].turned = flows[f].turned
              /\ flows[f].spoilt => flows'[f].spoilt
              /\ flows[f].at # "new" /\ Nothing \notin {f, "keep"} => flows'[f].spoilt
    BY <1>5, SpoilIs
  <2>2. \A f \in Flows : Nothing \notin {f, "keep"}
    BY Apart
  <2> QED
    BY <1>1, <1>2, <1>5, <2>1, <2>2 DEF Jar
<1> QED
  BY <1>3, <1>4, <1>5 DEF CookieExpires

\* Every step is one of these.
LEMMA StepKinds ==
  ASSUME DashboardTypeOK, [DashboardNext]_dashboardVars
  PROVE  \/ \E t \in Tabs : Sends(t) \/ Leaves(t) \/ Serves(t) \/ Arrives(t)
         \/ Expires \/ Ends
         \/ UNCHANGED dashboardVars
<1>1. SessionEnds => Ends
  BY DEF SessionEnds, Ends, browserVars
<1> QED
  BY <1>1, UserSends, LeaveIs, ServeIs, ArriveIs, ExpireIs DEF DashboardNext

LEMMA TypeStep ==
  ASSUME DashboardTypeOK, [DashboardNext]_dashboardVars
  PROVE  DashboardTypeOK'
<1> USE DEF DashboardTypeOK
<1>1. ASSUME NEW t \in Tabs, Sends(t) \/ Leaves(t)
      PROVE  DashboardTypeOK'
  BY <1>1 DEF Sends, Leaves, Moves, FlowsGo
<1>2. ASSUME NEW t \in Tabs, Serves(t)
      PROVE  DashboardTypeOK'
  BY <1>2 DEF Serves, SessionsMove, FlowsMove, browserVars
<1>3. ASSUME NEW t \in Tabs, Arrives(t)
      PROVE  DashboardTypeOK'
  <2>1. left' \subseteq Sessions
    BY <1>3 DEF Arrives
  <2> QED
    BY <1>3, <2>1 DEF Arrives, Moves
<1>4. CASE Expires \/ Ends \/ UNCHANGED dashboardVars
  BY <1>4 DEF Expires, Ends, dashboardVars
<1> QED
  BY <1>1, <1>2, <1>3, <1>4, StepKinds

-----------------------------------------------------------------------------
(* A session that was left stays out                                       *)

LEMMA SessionsOnceStep ==
  ASSUME DashboardTypeOK, SessionsOnce, [DashboardNext]_dashboardVars
  PROVE  SessionsOnce'
<1> USE Apart, KeepsFields DEF SessionsOnce, SignedOutStaysOut
<1>1. left \subseteq Sessions
  BY DEF DashboardTypeOK
<1>2. ASSUME NEW t \in Tabs, Sends(t)
      PROVE  SessionsOnce'
  BY <1>2 DEF Sends, Moves
<1>3. ASSUME NEW t \in Tabs, Leaves(t)
      PROVE  SessionsOnce'
  BY <1>3 DEF Leaves, Moves
<1>4. ASSUME NEW t \in Tabs, Serves(t)
      PROVE  SessionsOnce'
  BY <1>1, <1>4 DEF Serves, SessionsMove, browserVars
<1>5. ASSUME NEW t \in Tabs, Arrives(t)
      PROVE  SessionsOnce'
  BY <1>1, <1>5 DEF Arrives, Moves, Kept, Follows, Shows
<1>6. CASE Expires
  BY <1>1, <1>6 DEF Expires
<1>7. CASE Ends
  <2>1. \A s \in Sessions : sessions[s] # "none" => sessions'[s] # "none"
    BY <1>7 DEF Ends, DashboardTypeOK
  <2> QED
    BY <1>1, <1>7, <2>1 DEF Ends
<1>8. CASE UNCHANGED dashboardVars
  BY <1>8 DEF dashboardVars
<1> QED
  BY <1>2, <1>3, <1>4, <1>5, <1>6, <1>7, <1>8, StepKinds
-----------------------------------------------------------------------------
(* A sign-in is turned away for cause                                      *)

LEMMA FlowsHeldStep ==
  ASSUME DashboardTypeOK, SessionsOnce, FlowsHeld, [DashboardNext]_dashboardVars
  PROVE  FlowsHeld'
<1> USE Apart, KeepsFields DEF FlowsHeld, TurnedAwayForCause
<1>1. /\ \A t \in Tabs : /\ tab[t].flow \in Flows \cup {Nothing}
                         /\ req[t].flow \in Flows \cup {Nothing}
      /\ \A t \in Tabs : req[t].at # "served" => req[t].sets.state = "keep"
  BY DEF DashboardTypeOK, Tab, Request, SessionsOnce
<1>2. ASSUME NEW t \in Tabs, Sends(t)
      PROVE  FlowsHeld'
  BY <1>1, <1>2 DEF Sends, Moves, FlowsGo
<1>3. ASSUME NEW t \in Tabs, Leaves(t)
      PROVE  FlowsHeld'
  BY <1>3 DEF Leaves, Moves
<1>4. ASSUME NEW t \in Tabs, Serves(t)
      PROVE  FlowsHeld'
  <2>1. UNCHANGED <<jar, tab>> /\ \A u \in Tabs : u # t => req'[u] = req[u]
    BY <1>4 DEF Serves, browserVars
  <2>2. \A f \in Flows :
          /\ flows[f].at # "new" => flows'[f].at # "new"
          /\ flows[f].spoilt => flows'[f].spoilt
          /\ flows'[f].turned => flows'[f].spoilt
    BY <1>1, <1>4 DEF Serves, FlowsMove
  <2>3. \A u \in Tabs : tab'[u].flow # Nothing =>
          flows'[tab[u].flow].at # "new" /\ (jar.state = tab[u].flow \/ flows'[tab[u].flow].spoilt)
    BY <1>1, <2>1, <2>2
  <2>4. \A u \in Tabs : req'[u].what = "callback" /\ req'[u].flow # Nothing =>
          /\ flows'[req'[u].flow].at # "new"
          /\ req'[u].sent.state = req'[u].flow \/ flows'[req'[u].flow].spoilt
    BY <1>1, <1>4, <2>1, <2>2 DEF Serves
  <2>5. \A u \in Tabs : req'[u].what = "start" /\ req'[u].flow # Nothing =>
          flows'[req'[u].flow].at # "new" /\ req'[u].sets.state = req'[u].flow
    BY <1>1, <1>4, <2>1, <2>2 DEF Serves
  <2> QED
    BY <2>1, <2>2, <2>3, <2>4, <2>5
<1>5. ASSUME NEW t \in Tabs, Arrives(t)
      PROVE  FlowsHeld'
  <2>1. /\ \A u \in Tabs : u # t => req'[u] = req[u] /\ tab'[u] = tab[u]
        /\ Kept(jar.state, jar'.state, req[t].sets.state)
        /\ req'[t].flow = Nothing
        /\ tab'[t].flow \in {tab[t].flow} \cup (IF req[t].what = "start" THEN {req[t].flow} ELSE {})
    BY <1>5 DEF Arrives, Moves, Follows, Shows
  <2>2. \A f \in Flows : /\ flows'[f].at = flows[f].at /\ flows'[f].turned = flows[f].turned
                         /\ flows[f].spoilt => flows'[f].spoilt
                         /\ flows[f].at # "new" /\ req[t].sets.state \notin {f, "keep"}
                              => flows'[f].spoilt
    BY <1>5 DEF Arrives
  <2>3. \A f \in Flows : flows[f].at # "new" /\ (jar.state = f \/ flows[f].spoilt)
                           => jar'.state = f \/ flows'[f].spoilt
    BY <2>1, <2>2 DEF Kept
  <2>4. \A u \in Tabs : tab'[u].flow # Nothing =>
          flows'[tab'[u].flow].at # "new" /\ (jar'.state = tab'[u].flow \/ flows'[tab'[u].flow].spoilt)
    <3> SUFFICES ASSUME NEW u \in Tabs, tab'[u].flow # Nothing
                 PROVE  /\ flows'[tab'[u].flow].at # "new"
                        /\ jar'.state = tab'[u].flow \/ flows'[tab'[u].flow].spoilt
      OBVIOUS
    <3>1. CASE tab'[u].flow = tab[u].flow
      BY <1>1, <2>2, <2>3, <3>1
    <3>2. CASE u = t /\ req[t].what = "start" /\ tab'[u].flow = req[t].flow
      <4>1. req[t].sets.state = req[t].flow /\ flows[req[t].flow].at # "new"
            /\ req[t].flow \in Flows
        BY <1>1, <3>2
      <4>2. jar'.state = req[t].flow
        BY <2>1, <4>1 DEF Kept
      <4> QED
        BY <2>2, <3>2, <4>1, <4>2
    <3> QED
      BY <2>1, <3>1, <3>2
  <2>5. \A u \in Tabs : req'[u].what = "callback" /\ req'[u].flow # Nothing =>
          /\ flows'[req'[u].flow].at # "new"
          /\ req'[u].sent.state = req'[u].flow \/ flows'[req'[u].flow].spoilt
    BY <1>1, <2>1, <2>2
  <2>6. \A u \in Tabs : req'[u].what = "start" /\ req'[u].flow # Nothing =>
          flows'[req'[u].flow].at # "new" /\ req'[u].sets.state = req'[u].flow
    BY <1>1, <2>1, <2>2
  <2> QED
    BY <2>2, <2>4, <2>5, <2>6
<1>6. CASE Expires
  BY <1>1, <1>6 DEF Expires
<1>7. CASE Ends \/ UNCHANGED dashboardVars
  BY <1>7 DEF Ends, dashboardVars
<1> QED
  BY <1>2, <1>3, <1>4, <1>5, <1>6, <1>7, StepKinds

-----------------------------------------------------------------------------
(* One request at a time: one form token                                   *)

LEMMA NoneWaiting ==
  ASSUME width = 1, Cardinality(Waiting) < width
  PROVE  Waiting = {}
<1>1. IsFiniteSet(Waiting)
  BY FS_Subset, DashboardAssumption DEF Waiting
<1>2. Cardinality(Waiting) \in Nat
  BY <1>1, FS_CardinalityType
<1>3. Cardinality(Waiting) = 0
  BY <1>2
<1> QED
  BY <1>1, <1>3, FS_EmptySet

LEMMA OneTokenStep ==
  ASSUME DashboardTypeOK, OneToken, width = 1, [DashboardNext]_dashboardVars
  PROVE  OneToken'
<1> USE Apart DEF OneToken, Waiting
<1>1. ASSUME NEW t \in Tabs, Sends(t)
      PROVE  OneToken'
  <2>1. Waiting = {}
    BY <1>1, NoneWaiting DEF Sends
  <2> QED
    BY <1>1, <2>1 DEF Sends, Moves
<1>2. ASSUME NEW t \in Tabs, Leaves(t)
      PROVE  OneToken'
  BY <1>2 DEF Leaves, Moves
<1>3. ASSUME NEW t \in Tabs, Serves(t)
      PROVE  OneToken'
  BY <1>3 DEF Serves, browserVars
<1>4. ASSUME NEW t \in Tabs, Arrives(t)
      PROVE  OneToken'
  <2>1. /\ t \in Waiting /\ \A u \in Tabs : u # t => req[u].at = "idle" /\ req'[u].at = "idle"
        /\ req[t].sent.csrf = jar.csrf
        /\ Kept(jar.csrf, jar'.csrf, req[t].sets.csrf)
        /\ (req[t].sets.csrf = "keep") = (jar.csrf # Nothing)
        /\ jar'.csrf \in Tokens \cup {Nothing} /\ req[t].sets.csrf \in Tokens \cup {"keep"}
    <3>1. t \in Waiting /\ \A u \in Tabs : u # t => u \notin Waiting /\ req'[u] = req[u]
      BY <1>4 DEF Arrives, Moves
    <3>2. req[t].at = "served" /\ jar' \in Jar /\ Kept(jar.csrf, jar'.csrf, req[t].sets.csrf)
      BY <1>4 DEF Arrives
    <3>3. req[t].sets \in Change
      BY DEF DashboardTypeOK, Request
    <3> QED
      BY <3>1, <3>2, <3>3 DEF Jar, Change
  <2>2. jar'.csrf # Nothing /\ (jar.csrf # Nothing => jar'.csrf = jar.csrf)
    BY <2>1 DEF Kept
  <2>3. CASE Follows(t)
    <3>1. /\ tab' = tab /\ req'[t].at = "sent" /\ req'[t].sent = jar' /\ req'[t].loads = req[t].loads
      BY <2>3 DEF Follows
    <3> QED
      BY <2>1, <2>2, <3>1
  <2>4. CASE Shows(t)
    <3>1. /\ \A u \in Tabs : u # t => tab'[u] = tab[u]
          /\ tab'[t].page = req[t].show /\ tab'[t].form = FormToken(t, jar')
          /\ req'[t].at = "idle"
      BY <2>4 DEF Shows
    <3>2. req[t].show \notin {"provider", "blank"} => FormToken(t, jar') = jar'.csrf
      <4>1. CASE req[t].show \in {"provider", "blank"}
        BY <4>1
      <4>2. CASE req[t].show \notin {"provider", "blank"} /\ ~req[t].loads
        <5>1. FormToken(t, jar') = tab[t].form
          BY <4>2 DEF FormToken
        <5> QED
          BY <2>1, <2>2, <4>2, <5>1
      <4>3. CASE req[t].show \notin {"provider", "blank"} /\ req[t].loads
        <5>1. FormToken(t, jar') = IF req[t].sent.csrf # Nothing THEN req[t].sent.csrf ELSE jar'.csrf
          BY <4>3 DEF FormToken
        <5> QED
          BY <2>1, <2>2, <5>1
      <4> QED
        BY <4>1, <4>2, <4>3
    <3> QED
      BY <2>1, <2>2, <3>1, <3>2
  <2> QED
    BY <1>4, <2>3, <2>4 DEF Arrives
<1>5. CASE Expires
  BY <1>5 DEF Expires
<1>6. CASE Ends \/ UNCHANGED dashboardVars
  BY <1>6 DEF Ends, dashboardVars
<1> QED
  BY <1>1, <1>2, <1>3, <1>4, <1>5, <1>6, StepKinds

-----------------------------------------------------------------------------
(* No session beside an unfinished sign-up                                 *)

LEMMA OneOrOtherStep ==
  ASSUME DashboardTypeOK, SessionsOnce, OneOrOther, ~invited', [DashboardNext]_dashboardVars
  PROVE  OneOrOther'
<1> USE Apart, KeepsFields DEF OneOrOther
<1>1. ASSUME NEW t \in Tabs, Sends(t) \/ Leaves(t)
      PROVE  OneOrOther'
  BY <1>1 DEF Sends, Leaves, Moves
<1>2. ASSUME NEW t \in Tabs, Serves(t)
      PROVE  OneOrOther'
  BY <1>2 DEF Serves, SessionsMove, browserVars
<1>3. ASSUME NEW t \in Tabs, Arrives(t)
      PROVE  OneOrOther'
  <2>1. /\ req[t].sets.session \in Sessions \cup {Nothing, "keep"}
        /\ req[t].sets.pending \in Flows \cup {Nothing, "keep"}
    BY DEF DashboardTypeOK, Request, Change
  <2> QED
    BY <1>3, <2>1 DEF Arrives, Moves, Kept
<1>4. CASE Expires
  BY <1>4 DEF Expires
<1>5. CASE Ends \/ UNCHANGED dashboardVars
  BY <1>5 DEF Ends, dashboardVars
<1> QED
  BY <1>1, <1>2, <1>3, <1>4, <1>5, StepKinds

-----------------------------------------------------------------------------
(* The inductive invariant and the theorems                                *)

LEMMA IInvInit ==
  ASSUME DashboardInit
  PROVE  IInv
<1>1. NoCookies \in Jar /\ NoRequest \in Request
  BY CookiesTyped, AsksTyped DEF What, Page
<1>2. DashboardTypeOK
  <2>1. [at |-> "new", redeemed |-> FALSE, spoilt |-> FALSE, turned |-> FALSE] \in Flow
    BY DEF Flow
  <2>2. [page |-> "blank", form |-> Nothing, flow |-> Nothing] \in Tab
    BY DEF Tab, Shown
  <2>3. invited \in BOOLEAN
    BY DEF DashboardInit
  <2> HIDE DEF NoRequest, NoCookies
  <2> QED
    BY <1>1, <2>1, <2>2, <2>3, DashboardAssumption DEF DashboardInit, DashboardTypeOK
<1>3. /\ \A t \in Tabs : /\ req[t].at = "idle" /\ req[t].what = "app" /\ req[t].sent = NoCookies
                         /\ req[t].sets = Keeps
                         /\ tab[t].page = "blank" /\ tab[t].flow = Nothing
      /\ jar.session = Nothing /\ left = {}
      /\ \A f \in Flows : flows[f].turned = FALSE
  BY AsksFields, KeepsFields DEF DashboardInit
<1>4. SessionsOnce
  BY <1>3, Apart, KeepsFields DEF SessionsOnce, SignedOutStaysOut
<1>5. FlowsHeld
  BY <1>3 DEF FlowsHeld, TurnedAwayForCause
<1>6. OneToken
  BY <1>3 DEF OneToken, Waiting
<1>7. OneOrOther
  BY <1>3, Apart, KeepsFields DEF OneOrOther
<1> QED
  BY <1>2, <1>4, <1>5, <1>6, <1>7 DEF IInv

\* How many requests may run at once, and that an invite was accepted, stay so.
LEMMA SettingsStay ==
  ASSUME DashboardTypeOK, [DashboardNext]_dashboardVars
  PROVE  width' = width /\ (invited => invited')
BY StepKinds DEF Sends, Leaves, Serves, SessionsMove, Arrives, Expires, Ends, dashboardVars, browserVars

LEMMA IInvStep ==
  ASSUME IInv, [DashboardNext]_dashboardVars
  PROVE  IInv'
BY TypeStep, SessionsOnceStep, FlowsHeldStep, OneTokenStep, OneOrOtherStep, SettingsStay DEF IInv

\* The inductive invariant holds in every behaviour.
THEOREM DashboardInvariant == DashboardSpec => []IInv
BY IInvInit, IInvStep, PTL DEF DashboardSpec

\* Every variable keeps its type.
THEOREM DashboardTypeCorrect == DashboardSpec => []DashboardTypeOK
<1>1. IInv => DashboardTypeOK
  BY DEF IInv
<1> QED
  BY <1>1, DashboardInvariant, PTL

\* A session that the user has logged out of does not come back into the cookie,
\* whichever answers were still under way.
THEOREM LogoutIsFinal == DashboardSpec => []SignedOutStaysOut
<1>1. IInv => SignedOutStaysOut
  BY DEF IInv, SessionsOnce
<1> QED
  BY <1>1, DashboardInvariant, PTL

\* A provider's user is turned away only if the browser had lost the state.
THEOREM NobodyTurnedAwayWithoutCause == DashboardSpec => []TurnedAwayForCause
<1>1. IInv => TurnedAwayForCause
  BY DEF IInv, FlowsHeld
<1> QED
  BY <1>1, DashboardInvariant, PTL

\* With requests one at a time every form has the token of the cookie.
THEOREM EveryFormFits == DashboardSpec => []FormsFit
<1>1. IInv => FormsFit
  BY DEF IInv, OneToken, FormsFit
<1> QED
  BY <1>1, DashboardInvariant, PTL

\* Without invites, no session stands beside an unfinished sign-up, whichever
\* answers overlap.
THEOREM IdentitiesDoNotMix == DashboardSpec => []OneIdentity
<1>1. IInv => OneIdentity
  BY DEF IInv, OneOrOther, OneIdentity
<1> QED
  BY <1>1, DashboardInvariant, PTL
=============================================================================
