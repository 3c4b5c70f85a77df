--------------------------- MODULE IdentityProofs ---------------------------
(***************************************************************************)
(* Theorems about Identity, for any number of users, workspaces, requests  *)
(* and operations: type correctness, and that nobody owns a workspace but  *)
(* its founder, who stays its owner unless a change of role is written     *)
(* after the home it was read for has moved.  The invariant (IInv) says    *)
(* what the rows say of one another and what a request that has read them  *)
(* may rely on later.                                                      *)
(*                                                                         *)
(* CInv adds to it what requests that overlap do to the seats of a plan    *)
(* and to a mailed token.  SInv is about requests one at a time, where     *)
(* what the running one has read is still what the rows say: then          *)
(* sessions, roles and redaction agree with the memberships.               *)
(***************************************************************************)
EXTENDS Identity, FiniteSetTheorems, TLAPS

USE IdentityAssumption

TableTypes ==
  /\ users \in [Users -> User]
  /\ members \in [Users -> [Workspaces -> Member]]
  /\ founder \in [Workspaces -> Users \cup {Nothing}]
  /\ sessions \in [Sessions -> Session]
  /\ invites \in [Invites -> Invite]
  /\ tokens \in [Kind -> [Users -> Token]]
  /\ crossed \subseteq Users

\* Somebody else than u founded w.
Foreign(u, w) == founder[w] # Nothing /\ founder[w] # u

\* u is not the owner of w, or its founder who is owner no more.
NotOwner(u, w) == founder[w] # Nothing /\ (founder[w] = u => u \in crossed)

\* The role is one that a user with this home may have.
Proper(u, home, role) ==
  /\ founder[home] # Nothing
  /\ role = "owner" => founder[home] = u
  /\ founder[home] = u => role = "owner" \/ u \in crossed

HomesAgree == \A u \in Users : users[u].made => Proper(u, users[u].home, users[u].role)
MembersBelong ==
  \A u \in Users, w \in Workspaces :
    /\ IsMember(u, w) => founder[w] # Nothing
    /\ members[u][w].active => IsMember(u, w)
    /\ founder[w] = u => IsMember(u, w)
SessionsFit ==
  \A s \in Sessions : /\ sessions[s].live => sessions[s].made
                      /\ sessions[s].made => users[sessions[s].user].made
InvitesFit ==
  \A i \in Invites :
    invites[i].made => invites[i].role \in Grantable /\ Foreign(invites[i].user, invites[i].ws)

\* What remains true of that which a request has read.
OfSession(c) == c.item \in Sessions /\ sessions[c.item].made /\ sessions[c.item].user = c.user
Fits(c) ==
  /\ c.at \in {"upsert", "realign"} => c.role \in Role /\ Proper(c.user, c.home, c.role)
  /\ c.at = "upsert" /\ c.item \in Sessions => OfSession(c)
  /\ c.at \in {"admit", "target", "move", "again"} => OfSession(c)
  /\ c.at \in {"upsert", "pick", "enter"} => users[c.user].made
  /\ c.at \in {"target", "move"} => c.to \in Workspaces
  /\ c.at \in {"issue", "mail", "redeem"} => c.item \in Kind
  /\ c.at = "settle" => c.item = "signup"
  /\ c.at = "join" /\ c.met # "none" => users[c.user].made
  /\ c.at \in {"revoke", "invited", "accept"} => c.item \in Invites
  /\ c.at = "accept" /\ c.seen = 1 => users[c.user].made
  /\ c.at \in {"role", "rerole", "disable", "seat", "enable"} => IsMember(c.user, c.ws)
  /\ c.at \in {"role", "rerole", "disable"} => NotOwner(c.user, c.ws)
  /\ c.at \in {"hire", "join", "open", "invite", "invited", "accept"} => Foreign(c.user, c.ws)
  /\ c.at \in {"role", "rerole", "hire", "join", "open", "invite", "invited", "accept"}
       => c.role \in Grantable

CallsFit == \A r \in Requests : Fits(call[r])
Tables == TableTypes /\ OwnersStay /\ HomesAgree /\ MembersBelong /\ SessionsFit /\ InvitesFit
IInv == IdentityTypeOK /\ Tables /\ CallsFit

\* What no step takes back.
Grows ==
  /\ \A u \in Users : users[u].made => users'[u].made
  /\ \A w \in Workspaces : founder[w] # Nothing => founder'[w] = founder[w]
  /\ \A u \in Users, w \in Workspaces : IsMember(u, w) => IsMember(u, w)'
  /\ \A s \in Sessions : sessions[s].made => sessions'[s].made /\ sessions'[s].user = sessions[s].user
  /\ crossed \subseteq crossed'

\* The request goes on with what it may rely on.
Calls(r) == Fits(call[r])' /\ \E c \in Call : call' = [call EXCEPT ![r] = c]

Bounds == UNCHANGED planVars /\ ops' \in 0..MaxOps

-----------------------------------------------------------------------------
(* What a request relies on stays true, whatever others do.                *)

LEMMA FitsStays ==
  ASSUME Tables, Grows, NEW c \in Call, Fits(c)
  PROVE  Fits(c)'
<1>1. /\ c.user \in Users /\ c.ws \in Workspaces /\ c.home \in Workspaces
  BY DEF Call
<1>2. ASSUME NEW u \in Users, NEW w \in Workspaces, Foreign(u, w)
      PROVE  Foreign(u, w)'
  BY <1>2 DEF Grows, Foreign
<1>3. ASSUME NEW u \in Users, NEW w \in Workspaces, NEW x, Proper(u, w, x)
      PROVE  Proper(u, w, x)'
  BY <1>3 DEF Grows, Proper
<1>7. ASSUME NEW u \in Users, NEW w \in Workspaces, NotOwner(u, w)
      PROVE  NotOwner(u, w)'
  BY <1>7 DEF Grows, NotOwner
<1>4. OfSession(c) => OfSession(c)'
  BY DEF Grows, OfSession
<1>5. IsMember(c.user, c.ws) => IsMember(c.user, c.ws)'
  BY <1>1 DEF Grows
<1>6. users[c.user].made => users'[c.user].made
  BY <1>1 DEF Grows
<1> QED
  BY <1>1, <1>2, <1>3, <1>4, <1>5, <1>6, <1>7 DEF Fits

LEMMA StepKeepsInv ==
  ASSUME IInv, NEW r \in Requests, Calls(r), Bounds, Tables', Grows
  PROVE  IInv'
<1>1. PICK c \in Call : call' = [call EXCEPT ![r] = c]
  BY DEF Calls
<1>2. call \in [Requests -> Call]
  BY DEF IInv, IdentityTypeOK
<1>3. call' \in [Requests -> Call]
  BY <1>1, <1>2
<1>4. IdentityTypeOK'
  BY <1>3 DEF IInv, IdentityTypeOK, Bounds, planVars, Tables, TableTypes
<1>5. ASSUME NEW q \in Requests
      PROVE  Fits(call[q])'
  <2>1. CASE q = r
    BY <2>1 DEF Calls
  <2>2. CASE q # r
    <3>1. call'[q] = call[q] /\ call[q] \in Call
      BY <1>1, <1>2, <2>2
    <3>2. PICK d \in Call : d = call[q]
      BY <3>1
    <3>3. Fits(call[q])
      BY DEF IInv, CallsFit
    <3>4. Fits(d)
      BY <3>2, <3>3
    <3>5. Fits(d)'
      BY <3>4, FitsStays DEF IInv
    <3>6. call'[q] = d
      BY <3>1, <3>2
    <3> QED
      BY <3>5, <3>6 DEF Fits, OfSession, Proper, Foreign, NotOwner, IsMember
  <2> QED BY <2>1, <2>2
<1> QED
  BY <1>4, <1>5 DEF IInv, CallsFit

-----------------------------------------------------------------------------
(* Steps that only read                                                    *)

LEMMA IdleFits ==
  Idle \in Call /\ Fits(Idle) /\ Fits(Idle)'
<1>1. Somewhere \in Workspaces
  BY DEF Somewhere
<1> QED
  BY <1>1 DEF Idle, Call, Step, Role, Met, Fits

LEMMA QuietStep ==
  ASSUME IInv, UNCHANGED <<accountVars, secretVars>>
  PROVE  Tables' /\ Grows
<1> USE DEF IInv, Tables, accountVars, secretVars
<1>1. TableTypes' /\ OwnersStay' /\ HomesAgree'
  BY DEF TableTypes, OwnersStay, HomesAgree, Proper
<1>2. MembersBelong' /\ SessionsFit' /\ InvitesFit'
  BY DEF MembersBelong, SessionsFit, InvitesFit, IsMember, Foreign
<1>3. Grows
  BY DEF Grows, IsMember
<1> QED BY <1>1, <1>2, <1>3

LEMMA StartsKeeps ==
  ASSUME IInv, NEW r \in Requests, NEW c \in Call, Starts(r, c), UNCHANGED planVars,
         Fits(call[r])'
  PROVE  Calls(r) /\ Bounds
<1>1. Calls(r)
  BY DEF Starts, Calls
<1>2. ops' = ops + 1 /\ ops + width <= MaxOps
  BY DEF Starts
<1>3. ops \in 0..MaxOps /\ width \in 1..MaxInFlight
  BY DEF IInv, IdentityTypeOK
<1>4. ops' \in 0..MaxOps
  BY <1>2, <1>3
<1> QED
  BY <1>1, <1>4 DEF Bounds

LEMMA EndsKeeps ==
  ASSUME IInv, NEW r \in Requests, Ends(r), UNCHANGED <<planVars, ops>>
  PROVE  Calls(r) /\ Bounds
<1>1. call \in [Requests -> Call] /\ Idle \in Call
  BY IdleFits DEF IInv, IdentityTypeOK
<1>2. call'[r].at = "idle"
  BY <1>1 DEF Ends, Idle
<1>3. Fits(call[r])'
  BY <1>2 DEF Fits
<1> QED
  BY <1>1, <1>3 DEF Ends, Calls, Bounds, planVars, IInv, IdentityTypeOK

LEMMA BecomesKeeps ==
  ASSUME IInv, NEW r \in Requests, NEW c \in Call, call' = [call EXCEPT ![r] = c],
         UNCHANGED <<planVars, ops>>, Fits(call[r])'
  PROVE  Calls(r) /\ Bounds
BY DEF Calls, Bounds, planVars, IInv, IdentityTypeOK

\* What a request has read, at a further step of the same request.
LEMMA GoesTo ==
  ASSUME IInv, NEW r \in Requests, NEW to \in Step, Goes(r, to)
  PROVE  \E c \in Call :
           /\ c = [call[r] EXCEPT !.at = to] /\ call' = [call EXCEPT ![r] = c] /\ call'[r] = c
<1> DEFINE c == [call[r] EXCEPT !.at = to]
<1>1. call \in [Requests -> Call]
  BY DEF IInv, IdentityTypeOK
<1>2. c \in Call
  BY <1>1 DEF Call
<1>3. call' = [call EXCEPT ![r] = c]
  BY DEF Goes
<1> QED
  BY <1>1, <1>2, <1>3

LEMMA QuietKeepsInv ==
  ASSUME IInv, NEW r \in Requests, Calls(r), Bounds, UNCHANGED <<accountVars, secretVars>>
  PROVE  IInv'
BY QuietStep, StepKeepsInv

\* A row that has been read, for the steps below.
LEMMA CallFacts ==
  ASSUME IInv, NEW r \in Requests
  PROVE  /\ call[r] \in Call /\ Fits(call[r]) /\ call \in [Requests -> Call]
         /\ call[r].user \in Users /\ call[r].ws \in Workspaces /\ call[r].home \in Workspaces
BY DEF IInv, IdentityTypeOK, CallsFit, Call

LEMMA FindTargetKeeps ==
  ASSUME IInv, NEW r \in Requests, FindTarget(r)
  PROVE  IInv'
<1>1. Fits(call[r]) /\ call[r].at = "target" /\ call[r] \in Call
  BY CallFacts DEF FindTarget
<1>2. CASE Goes(r, "move")
  <2>1. PICK c \in Call : /\ c = [call[r] EXCEPT !.at = "move"]
                          /\ call' = [call EXCEPT ![r] = c] /\ call'[r] = c
    BY <1>2, GoesTo DEF Step
  <2>2. Fits(call[r])'
    BY <1>1, <2>1 DEF FindTarget, Fits, OfSession, Call, secretVars, accountVars
  <2> QED
    BY <2>1, <2>2, BecomesKeeps, QuietKeepsInv DEF FindTarget
<1>3. CASE Ends(r)
  BY <1>3, EndsKeeps, QuietKeepsInv DEF FindTarget
<1> QED
  BY <1>2, <1>3 DEF FindTarget

LEMMA FindSessionAgainKeeps ==
  ASSUME IInv, NEW r \in Requests, FindSessionAgain(r)
  PROVE  IInv'
<1> DEFINE s == sessions[call[r].item]
<1>1. Fits(call[r]) /\ call[r].at = "again" /\ call[r] \in Call
  BY CallFacts DEF FindSessionAgain
<1>2. OfSession(call[r]) /\ s.user = call[r].user /\ s \in Session
  BY <1>1 DEF Fits, OfSession, IInv, IdentityTypeOK
<1>3. users[s.user] \in User /\ users[s.user].made
      /\ Proper(s.user, users[s.user].home, users[s.user].role)
  BY <1>2 DEF IInv, Tables, TableTypes, SessionsFit, HomesAgree, OfSession, Session
<1>4. CASE s.live
  <2>1. PICK c \in Call :
          /\ c = [call[r] EXCEPT !.at = "upsert", !.ws = s.ws, !.home = users[s.user].home,
                                 !.role = users[s.user].role, !.to = Nothing]
          /\ call' = [call EXCEPT ![r] = c]
    BY ZenonT(60), <1>1, <1>2, <1>3, <1>4 DEF FindSessionAgain, Call, Step, Session, User
  <2>2. call'[r] = c
    BY <2>1, CallFacts
  <2>3. /\ c.at = "upsert" /\ c.item = call[r].item /\ c.user = call[r].user /\ c.ws = s.ws
        /\ c.home = users[s.user].home /\ c.role = users[s.user].role
    BY ZenonT(60), <1>1, <2>1 DEF Call
  <2>4. UNCHANGED <<accountVars, secretVars>>
    BY DEF FindSessionAgain
  <2>5. Fits(call[r])'
    BY <1>2, <1>3, <2>2, <2>3, <2>4
       DEF Fits, OfSession, Proper, User, accountVars, secretVars
  <2> QED
    BY <2>1, <2>5, BecomesKeeps, QuietKeepsInv DEF FindSessionAgain
<1>5. CASE ~s.live
  BY <1>5, EndsKeeps, QuietKeepsInv DEF FindSessionAgain
<1> QED BY <1>4, <1>5

LEMMA RecogniseKeeps ==
  ASSUME IInv, NEW r \in Requests, Recognise(r)
  PROVE  IInv'
<1>1. PICK u \in Users, how \in {Nothing, "link"} :
        /\ users[u].made
        /\ Starts(r, [Idle EXCEPT !.at = "upsert", !.user = u, !.home = users[u].home,
                         !.role = users[u].role, !.item = how, !.seen = Resets(u)])
        /\ UNCHANGED <<accountVars, secretVars, planVars>>
  BY DEF Recognise
<1>2. users[u] \in User /\ users[u].made /\ Proper(u, users[u].home, users[u].role)
  BY <1>1 DEF IInv, Tables, TableTypes, HomesAgree
<1>3. Resets(u) \in Nat
  BY DEF Resets, IInv, IdentityTypeOK, Token, Kind
<1>4. PICK c \in Call :
        /\ c = [Idle EXCEPT !.at = "upsert", !.user = u, !.home = users[u].home,
                            !.role = users[u].role, !.item = how, !.seen = Resets(u)]
        /\ Starts(r, c)
  BY <1>1, <1>2, <1>3, IdleFits DEF Call, Step, User
<1>5. call'[r] = c
  BY <1>4, CallFacts DEF Starts
<1>6. Fits(call[r])'
  <2>1. /\ call'[r].at = "upsert" /\ call'[r].user = u /\ call'[r].home = users[u].home
        /\ call'[r].role = users[u].role /\ call'[r].item \notin Sessions
    BY <1>1, <1>4, <1>5 DEF Idle
  <2>2. UNCHANGED <<users, founder, crossed>> /\ users[u].role \in Role
    BY <1>1, <1>2 DEF accountVars, User
  <2> QED
    BY <1>2, <2>1, <2>2 DEF Fits, Proper
<1> QED
  BY <1>1, <1>4, <1>6, StartsKeeps, QuietKeepsInv

\* A request that starts with c, having read only.
LEMMA StartsQuietly ==
  ASSUME IInv, NEW r \in Requests, NEW c \in Call, Starts(r, c), Fits(c),
         UNCHANGED <<accountVars, secretVars, planVars>>
  PROVE  IInv'
<1>1. Tables' /\ Grows
  BY QuietStep
<1>2. Fits(c)'
  BY <1>1, FitsStays DEF IInv
<1>3. call'[r] = c
  BY CallFacts DEF Starts
<1>4. Fits(call[r])'
  BY <1>2, <1>3 DEF Fits, OfSession, Proper, Foreign, NotOwner, IsMember
<1> QED
  BY <1>4, StartsKeeps, QuietKeepsInv

\* A request that goes on with c, having read only.
LEMMA BecomesQuietly ==
  ASSUME IInv, NEW r \in Requests, NEW c \in Call, call' = [call EXCEPT ![r] = c], Fits(c),
         UNCHANGED <<accountVars, secretVars, planVars, ops>>
  PROVE  IInv'
<1>1. Tables' /\ Grows
  BY QuietStep
<1>2. Fits(c)'
  BY <1>1, FitsStays DEF IInv
<1>3. call'[r] = c
  BY CallFacts
<1>4. Fits(call[r])'
  BY <1>2, <1>3 DEF Fits, OfSession, Proper, Foreign, NotOwner, IsMember
<1> QED
  BY <1>4, BecomesKeeps, QuietKeepsInv

LEMMA EndsQuietly ==
  ASSUME IInv, NEW r \in Requests, Ends(r), UNCHANGED <<accountVars, secretVars, planVars, ops>>
  PROVE  IInv'
BY EndsKeeps, QuietKeepsInv

LEMMA PickWorkspaceKeeps ==
  ASSUME IInv, NEW r \in Requests, PickWorkspace(r)
  PROVE  IInv'
<1>1. Fits(call[r]) /\ call[r].at = "pick" /\ call[r] \in Call /\ call[r].home \in Workspaces
  BY CallFacts DEF PickWorkspace
<1>2. Ends(r) => IInv'
  BY EndsQuietly DEF PickWorkspace
<1>3. ASSUME NEW w \in Workspaces,
             call' = [call EXCEPT ![r] = [call[r] EXCEPT !.at = "enter", !.ws = w]]
      PROVE  IInv'
  <2>1. PICK c \in Call : /\ c = [call[r] EXCEPT !.at = "enter", !.ws = w]
                          /\ call' = [call EXCEPT ![r] = c]
    BY <1>1, <1>3 DEF Call, Step
  <2>2. c.at = "enter" /\ c.user = call[r].user
    BY <1>1, <2>1 DEF Call
  <2>3. Fits(c)
    BY <1>1, <2>2 DEF Fits
  <2> QED
    BY <2>1, <2>3, BecomesQuietly DEF PickWorkspace
<1> QED
  BY <1>1, <1>2, <1>3 DEF PickWorkspace

LEMMA RequestTokenKeeps ==
  ASSUME IInv, NEW r \in Requests, RequestToken(r)
  PROVE  IInv'
<1>1. PICK k \in Kind, u \in Users :
        /\ Starts(r, [Idle EXCEPT !.at = "issue", !.user = u, !.item = k])
        /\ UNCHANGED <<accountVars, secretVars, planVars>>
  BY DEF RequestToken
<1>2. PICK c \in Call : c = [Idle EXCEPT !.at = "issue", !.user = u, !.item = k]
  BY IdleFits DEF Call, Step
<1>3. Fits(c)
  BY <1>2, IdleFits DEF Call, Fits
<1> QED
  BY <1>1, <1>2, <1>3, StartsQuietly

LEMMA FindTokenKeeps ==
  ASSUME IInv, NEW r \in Requests, FindToken(r)
  PROVE  IInv'
<1>1. PICK k \in Kind, u \in Users :
        /\ \E n \in tokens[k][u].fresh :
             Starts(r, [Idle EXCEPT !.at = IF k = "signup" THEN "found" ELSE "redeem",
                          !.user = u, !.item = k, !.seen = n])
        /\ UNCHANGED <<accountVars, secretVars, planVars>>
  BY DEF FindToken
<1>2. PICK n \in tokens[k][u].fresh :
        Starts(r, [Idle EXCEPT !.at = IF k = "signup" THEN "found" ELSE "redeem",
                     !.user = u, !.item = k, !.seen = n])
  BY <1>1
<1>3. n \in Nat
  BY DEF IInv, IdentityTypeOK, Token
<1>4. PICK c \in Call : c = [Idle EXCEPT !.at = IF k = "signup" THEN "found" ELSE "redeem",
                        !.user = u, !.item = k, !.seen = n]
  BY <1>3, IdleFits DEF Call, Step
<1>5. Fits(c)
  BY <1>4, IdleFits DEF Call, Fits
<1> QED
  BY <1>1, <1>2, <1>4, <1>5, StartsQuietly

LEMMA FindTokensKeeps ==
  ASSUME IInv, NEW r \in Requests, FindTokens(r)
  PROVE  IInv'
<1>1. PICK c \in Call : c = call[r]
  BY CallFacts
<1>2. Fits(c) /\ c.at = "issue" /\ c.item \in Kind /\ c.user \in Users
  BY <1>1, CallFacts DEF FindTokens, Fits
<1>3. tokens[c.item][c.user].made \in Nat
  BY <1>2 DEF IInv, IdentityTypeOK, Token
<1>4. PICK d \in Call :
        /\ d = [c EXCEPT !.at = "mail", !.seen = tokens[c.item][c.user].made]
        /\ call' = [call EXCEPT ![r] = d]
  BY <1>1, <1>3 DEF FindTokens, Call, Step
<1>5. d.at = "mail" /\ d.item = c.item
  BY <1>4 DEF Call
<1>6. Fits(d)
  BY <1>2, <1>5 DEF Fits
<1> QED
  BY <1>4, <1>6, BecomesQuietly DEF FindTokens

LEMMA FindOwnerKeeps ==
  ASSUME IInv, NEW r \in Requests, FindOwner(r)
  PROVE  IInv'
<1>1. PICK c \in Call : c = call[r]
  BY CallFacts
<1>2. ASSUME call' = [call EXCEPT ![r] =
               [c EXCEPT !.at = "settle", !.met = IF users[c.user].made THEN "away" ELSE "none"]]
      PROVE  IInv'
  <2>1. PICK d \in Call :
          /\ d = [c EXCEPT !.at = "settle", !.met = IF users[c.user].made THEN "away" ELSE "none"]
          /\ call' = [call EXCEPT ![r] = d]
    BY <1>2 DEF Call, Step, Met
  <2>2. d.at = "settle" /\ d.item = c.item
    BY <2>1 DEF Call
  <2>3. Fits(d)
    BY <1>1, <2>2 DEF Fits, FindOwner
  <2> QED
    BY <2>1, <2>3, BecomesQuietly DEF FindOwner
<1>3. Ends(r) => IInv'
  BY EndsQuietly DEF FindOwner
<1> QED
  BY <1>1, <1>2, <1>3 DEF FindOwner

LEMMA FindAddressFreeKeeps ==
  ASSUME IInv, NEW r \in Requests, FindAddressFree(r)
  PROVE  IInv'
<1>1. PICK u \in Users :
        /\ Starts(r, [Idle EXCEPT !.at = "found", !.user = u])
        /\ UNCHANGED <<accountVars, secretVars, planVars>>
  BY DEF FindAddressFree
<1>2. PICK c \in Call : c = [Idle EXCEPT !.at = "found", !.user = u]
  BY IdleFits DEF Call, Step
<1>3. Fits(c)
  BY <1>2, IdleFits DEF Call, Fits
<1> QED
  BY <1>1, <1>2, <1>3, StartsQuietly

LEMMA CheckNoMemberKeeps ==
  ASSUME IInv, NEW r \in Requests, CheckNoMember(r)
  PROVE  IInv'
<1>1. PICK u \in Users, w \in Workspaces, role \in Grantable :
        /\ ~IsMember(u, w) /\ founder[w] # Nothing
        /\ Starts(r, [Idle EXCEPT !.at = "open", !.user = u, !.ws = w, !.role = role])
        /\ UNCHANGED <<accountVars, secretVars, planVars>>
  BY DEF CheckNoMember
<1>2. Foreign(u, w)
  BY <1>1 DEF IInv, Tables, MembersBelong, Foreign
<1>3. PICK c \in Call : c = [Idle EXCEPT !.at = "open", !.user = u, !.ws = w, !.role = role]
  BY IdleFits DEF Call, Step, Role
<1>4. Fits(c)
  BY <1>2, <1>3, IdleFits DEF Call, Fits
<1> QED
  BY <1>1, <1>3, <1>4, StartsQuietly

LEMMA CheckHireKeeps ==
  ASSUME IInv, NEW r \in Requests, CheckHire(r)
  PROVE  IInv'
<1>1. PICK u \in Users, w \in Workspaces, role \in Grantable :
        /\ ~IsMember(u, w) /\ founder[w] # Nothing
        /\ Starts(r, [Idle EXCEPT !.at = "hire", !.user = u, !.ws = w, !.role = role])
        /\ UNCHANGED <<accountVars, secretVars, planVars>>
  BY DEF CheckHire
<1>2. Foreign(u, w)
  BY <1>1 DEF IInv, Tables, MembersBelong, Foreign
<1>3. PICK c \in Call : c = [Idle EXCEPT !.at = "hire", !.user = u, !.ws = w, !.role = role]
  BY IdleFits DEF Call, Step, Role
<1>4. Fits(c)
  BY <1>2, <1>3, IdleFits DEF Call, Fits
<1> QED
  BY <1>1, <1>3, <1>4, StartsQuietly

LEMMA CheckNoInviteKeeps ==
  ASSUME IInv, NEW r \in Requests, CheckNoInvite(r)
  PROVE  IInv'
<1>1. Fits(call[r]) /\ call[r].at = "open" /\ call[r] \in Call
  BY CallFacts DEF CheckNoInvite
<1>2. CASE Goes(r, "invite")
  <2>1. PICK c \in Call : c = [call[r] EXCEPT !.at = "invite"] /\ call' = [call EXCEPT ![r] = c]
    BY <1>2, GoesTo DEF Step
  <2>2. Fits(c)
    BY <1>1, <2>1 DEF Call, Fits
  <2> QED
    BY <2>1, <2>2, BecomesQuietly DEF CheckNoInvite
<1> QED
  BY <1>2, EndsQuietly DEF CheckNoInvite

LEMMA FindInviteKeeps ==
  ASSUME IInv, NEW r \in Requests, FindInvite(r)
  PROVE  IInv'
<1>1. PICK i \in Invites, at \in {"revoke", "accept"} :
        /\ invites[i].made
        /\ Starts(r, [Idle EXCEPT !.at = IF at = "accept" THEN "invited" ELSE at,
                        !.user = invites[i].user, !.ws = invites[i].ws,
                        !.role = invites[i].role, !.item = i])
        /\ UNCHANGED <<accountVars, secretVars, planVars>>
  BY DEF FindInvite
<1>2. invites[i] \in Invite
  BY DEF IInv, IdentityTypeOK
<1>3. invites[i].role \in Grantable /\ Foreign(invites[i].user, invites[i].ws)
  BY <1>1 DEF IInv, Tables, InvitesFit
<1>4. PICK c \in Call : c = [Idle EXCEPT !.at = IF at = "accept" THEN "invited" ELSE at,
                        !.user = invites[i].user, !.ws = invites[i].ws,
                        !.role = invites[i].role, !.item = i]
  BY ZenonT(60), <1>2, IdleFits DEF Call, Step, Role, Invite
<1>5. /\ c.at \in {"revoke", "invited"} /\ c.item \in Invites
      /\ c.user = invites[i].user /\ c.ws = invites[i].ws /\ c.role = invites[i].role
  BY SMTT(30), <1>4, IdleFits DEF Call
<1>6. Fits(c)
  BY <1>3, <1>5 DEF Fits
<1> QED
  BY <1>1, <1>4, <1>6, StartsQuietly

LEMMA FindInvitedKeeps ==
  ASSUME IInv, NEW r \in Requests, FindInvited(r)
  PROVE  IInv'
<1>1. Fits(call[r]) /\ call[r].at = "invited" /\ call[r] \in Call
  BY CallFacts DEF FindInvited
<1>2. ASSUME call' = [call EXCEPT ![r] =
              [call[r] EXCEPT !.at = "accept", !.seen = IF users[call[r].user].made THEN 1 ELSE 0]]
      PROVE  IInv'
  <2>1. PICK c \in Call :
          /\ c = [call[r] EXCEPT !.at = "accept",
                                 !.seen = IF users[call[r].user].made THEN 1 ELSE 0]
          /\ call' = [call EXCEPT ![r] = c]
    BY <1>1, <1>2 DEF Call, Step
  <2>2. Fits(c)
    BY <1>1, <2>1 DEF Call, Fits
  <2> QED
    BY <2>1, <2>2, BecomesQuietly DEF FindInvited
<1>3. Ends(r) => IInv'
  BY EndsQuietly DEF FindInvited
<1> QED
  BY <1>2, <1>3 DEF FindInvited

LEMMA FindHiredKeeps ==
  ASSUME IInv, NEW r \in Requests, FindHired(r)
  PROVE  IInv'
<1>1. PICK c \in Call : c = call[r]
  BY CallFacts
<1>2. Fits(c) /\ c.at = "hire"
  BY <1>1, CallFacts DEF FindHired
<1>3. ASSUME NEW met \in Met, met # "none" => users[c.user].made,
             call' = [call EXCEPT ![r] = [c EXCEPT !.at = "join", !.met = met]]
      PROVE  IInv'
  <2>1. PICK d \in Call :
          /\ d = [c EXCEPT !.at = "join", !.met = met] /\ call' = [call EXCEPT ![r] = d]
    BY <1>3 DEF Call, Step
  <2>2. d.at = "join" /\ d.user = c.user /\ d.ws = c.ws /\ d.role = c.role /\ d.met = met
    BY <2>1 DEF Call
  <2>3. Fits(d)
    BY <1>2, <1>3, <2>2 DEF Fits
  <2> QED
    BY <2>1, <2>3, BecomesQuietly DEF FindHired
<1>4. Ends(r) => IInv'
  BY EndsQuietly DEF FindHired
<1>5. \/ Ends(r)
      \/ \E met \in Met : /\ met # "none" => users[c.user].made
                          /\ call' = [call EXCEPT ![r] = [c EXCEPT !.at = "join", !.met = met]]
  BY <1>1 DEF FindHired, Met
<1> QED
  BY <1>3, <1>4, <1>5

LEMMA AdministerKeeps ==
  ASSUME IInv, NEW r \in Requests, Administer(r)
  PROVE  IInv'
<1>1. PICK at \in {"role", "disable", "seat", "redact"}, u \in Users, w \in Workspaces,
           role \in Grantable :
        /\ FindMember(at, u, w)
        /\ Starts(r, [Idle EXCEPT !.at = at, !.user = u, !.ws = w,
                        !.role = IF at = "role" THEN role ELSE Nothing])
        /\ UNCHANGED <<accountVars, secretVars, planVars>>
  BY DEF Administer
<1>2. IsMember(u, w) /\ (at \in {"role", "disable"} => members[u][w].role # "owner")
  BY <1>1 DEF FindMember
<1>3. at \in {"role", "disable"} => NotOwner(u, w)
  BY <1>2 DEF IInv, Tables, OwnersStay, MembersBelong, NotOwner
<1>4. PICK c \in Call : c = [Idle EXCEPT !.at = at, !.user = u, !.ws = w,
                        !.role = IF at = "role" THEN role ELSE Nothing]
  BY IdleFits, ZenonT(60) DEF Call, Step, Role
<1>5. /\ c.at = at /\ c.user = u /\ c.ws = w
      /\ at = "role" => c.role \in Grantable
  BY <1>4, IdleFits DEF Call
<1>6. Fits(c)
  BY <1>2, <1>3, <1>5 DEF Fits
<1> QED
  BY <1>1, <1>4, <1>6, StartsQuietly

LEMMA LockMemberKeeps ==
  ASSUME IInv, NEW r \in Requests, LockMember(r)
  PROVE  IInv'
<1>1. PICK c \in Call : c = call[r]
  BY CallFacts
<1>2. Fits(c) /\ c.at = "role"
  BY <1>1, CallFacts DEF LockMember
<1>3. PICK d \in Call :
        /\ d = [c EXCEPT !.at = "rerole",
                         !.met = IF users[c.user].home = c.ws THEN "home" ELSE "away"]
        /\ call' = [call EXCEPT ![r] = d]
  BY <1>1 DEF LockMember, Call, Step, Met
<1>4. d.at = "rerole" /\ d.user = c.user /\ d.ws = c.ws /\ d.role = c.role
  BY <1>3 DEF Call
<1>5. Fits(d)
  BY <1>2, <1>4 DEF Fits
<1> QED
  BY <1>3, <1>5, BecomesQuietly DEF LockMember

LEMMA FindHomeKeeps ==
  ASSUME IInv, NEW r \in Requests, FindHome(r)
  PROVE  IInv'
<1>1. Fits(call[r]) /\ call[r].at = "home" /\ call[r] \in Call
  BY CallFacts DEF FindHome
<1>2. CASE Goes(r, "next")
  <2>1. PICK c \in Call : c = [call[r] EXCEPT !.at = "next"] /\ call' = [call EXCEPT ![r] = c]
    BY <1>2, GoesTo DEF Step
  <2>2. Fits(c)
    BY <1>1, <2>1 DEF Call, Fits
  <2> QED
    BY <2>1, <2>2, BecomesQuietly DEF FindHome
<1> QED
  BY <1>2, EndsQuietly DEF FindHome

LEMMA FindNextHomeKeeps ==
  ASSUME IInv, NEW r \in Requests, FindNextHome(r)
  PROVE  IInv'
<1>1. Fits(call[r]) /\ call[r].at = "next" /\ call[r] \in Call /\ call[r].user \in Users
  BY CallFacts DEF FindNextHome
<1>2. ASSUME NEW w \in Workspaces, members[call[r].user][w].active,
             call' = [call EXCEPT ![r] =
               [call[r] EXCEPT !.at = "realign", !.home = w,
                               !.role = members[call[r].user][w].role]]
      PROVE  IInv'
  <2>1. members[call[r].user][w] \in Member /\ IsMember(call[r].user, w) /\ founder[w] # Nothing
    BY <1>1, <1>2 DEF IInv, IdentityTypeOK, Tables, MembersBelong
  <2>2. members[call[r].user][w].role \in Role
    BY <2>1 DEF Member, IsMember
  <2>3. Proper(call[r].user, w, members[call[r].user][w].role)
    BY <1>1, <2>1 DEF IInv, Tables, OwnersStay, Proper
  <2>4. PICK c \in Call :
          /\ c = [call[r] EXCEPT !.at = "realign", !.home = w,
                                 !.role = members[call[r].user][w].role]
          /\ call' = [call EXCEPT ![r] = c]
    BY <1>1, <1>2, <2>2 DEF Call, Step
  <2>5. /\ c.at = "realign" /\ c.user = call[r].user /\ c.home = w
        /\ c.role = members[call[r].user][w].role
    BY <1>1, <2>4 DEF Call
  <2>6. Fits(c)
    BY <2>2, <2>3, <2>5 DEF Fits
  <2> QED
    BY <2>4, <2>6, BecomesQuietly DEF FindNextHome
<1>3. Ends(r) => IInv'
  BY EndsQuietly DEF FindNextHome
<1> QED
  BY <1>2, <1>3 DEF FindNextHome

LEMMA CheckSeatKeeps ==
  ASSUME IInv, NEW r \in Requests, CheckSeat(r)
  PROVE  IInv'
<1>1. Fits(call[r]) /\ call[r].at = "seat" /\ call[r] \in Call
  BY CallFacts DEF CheckSeat
<1>2. CASE Goes(r, "enable")
  <2>1. PICK c \in Call : c = [call[r] EXCEPT !.at = "enable"] /\ call' = [call EXCEPT ![r] = c]
    BY <1>2, GoesTo DEF Step
  <2>2. Fits(c)
    BY <1>1, <2>1 DEF Call, Fits
  <2> QED
    BY <2>1, <2>2, BecomesQuietly DEF CheckSeat
<1> QED
  BY <1>2, EndsQuietly DEF CheckSeat

-----------------------------------------------------------------------------
(* What each table keeps, row by row                                       *)

AccountsKept ==
  /\ users' \in [Users -> User] /\ members' \in [Users -> [Workspaces -> Member]]
  /\ founder' \in [Workspaces -> Users \cup {Nothing}]
  /\ OwnersStay' /\ HomesAgree' /\ MembersBelong'
  /\ \A u \in Users : users[u].made => users'[u].made
  /\ \A w \in Workspaces : founder[w] # Nothing => founder'[w] = founder[w]
  /\ \A u \in Users, w \in Workspaces : IsMember(u, w) => IsMember(u, w)'
  /\ crossed \subseteq crossed' /\ crossed' \subseteq Users
SessionsKept ==
  /\ sessions' \in [Sessions -> Session] /\ SessionsFit'
  /\ \A s \in Sessions : sessions[s].made => sessions'[s].made /\ sessions'[s].user = sessions[s].user
InvitesKept == invites' \in [Invites -> Invite] /\ InvitesFit'
TokensKept == tokens' \in [Kind -> [Users -> Token]]

LEMMA AllKept ==
  ASSUME IInv, AccountsKept, SessionsKept, InvitesKept, TokensKept
  PROVE  Tables' /\ Grows
BY DEF AccountsKept, SessionsKept, InvitesKept, TokensKept, Tables, TableTypes, Grows

UsersKept ==
  /\ users' \in [Users -> User] /\ HomesAgree'
  /\ \A u \in Users : users[u].made => users'[u].made
  /\ crossed \subseteq crossed' /\ crossed' \subseteq Users
MembersKept ==
  /\ members' \in [Users -> [Workspaces -> Member]] /\ OwnersStay' /\ MembersBelong'
  /\ \A u \in Users, w \in Workspaces : IsMember(u, w) => IsMember(u, w)'

LEMMA BothKept ==
  ASSUME IInv, UsersKept, MembersKept, UNCHANGED founder
  PROVE  AccountsKept
BY DEF UsersKept, MembersKept, AccountsKept, IInv, IdentityTypeOK

LEMMA UsersUntouched ==
  ASSUME IInv, UNCHANGED <<users, founder, crossed>>
  PROVE  UsersKept
BY DEF UsersKept, IInv, IdentityTypeOK, Tables, HomesAgree, Proper

LEMMA MembersUntouched ==
  ASSUME IInv, UNCHANGED <<members, founder>>, crossed \subseteq crossed'
  PROVE  MembersKept
BY DEF MembersKept, IInv, IdentityTypeOK, Tables, OwnersStay, MembersBelong, IsMember

LEMMA SessionsUntouched ==
  ASSUME IInv, UNCHANGED sessions, AccountsKept
  PROVE  SessionsKept
BY DEF SessionsKept, AccountsKept, IInv, IdentityTypeOK, Tables, SessionsFit, Session

LEMMA InvitesUntouched ==
  ASSUME IInv, UNCHANGED invites, AccountsKept
  PROVE  InvitesKept
<1>1. ASSUME NEW i \in Invites, Foreign(invites[i].user, invites[i].ws)
      PROVE  Foreign(invites[i].user, invites[i].ws)'
  <2>1. invites[i].ws \in Workspaces /\ invites'[i] = invites[i]
    BY DEF IInv, IdentityTypeOK, Invite
  <2> QED
    BY <1>1, <2>1 DEF Foreign, AccountsKept
<1> QED
  BY <1>1 DEF InvitesKept, IInv, IdentityTypeOK, Tables, InvitesFit

LEMMA TokensUntouched ==
  ASSUME IInv, UNCHANGED tokens
  PROVE  TokensKept
BY DEF TokensKept, IInv, IdentityTypeOK

\* A row of users is written for a user that has, or gets, an account.
LEMMA UserWritten ==
  ASSUME IInv, NEW u \in Users, NEW x \in User, users' = [users EXCEPT ![u] = x],
         UNCHANGED <<founder, crossed>>, x.made => Proper(u, x.home, x.role),
         users[u].made => x.made
  PROVE  UsersKept
<1>1. crossed \subseteq crossed' /\ crossed' \subseteq Users
  BY DEF IInv, IdentityTypeOK
<1> QED
  BY <1>1 DEF UsersKept, IInv, IdentityTypeOK, Tables, HomesAgree, Proper

\* The role of a user changes whose home has moved since it was read.
LEMMA UserCrossed ==
  ASSUME IInv, NEW u \in Users, NEW role \in Grantable,
         users' = [users EXCEPT ![u].role = role],
         UNCHANGED founder, crossed' = crossed \cup {u}
  PROVE  UsersKept
<1>1. crossed \subseteq crossed' /\ crossed' \subseteq Users /\ u \in crossed'
  BY DEF IInv, IdentityTypeOK
<1>2. PICK y \in User : y = users[u]
  BY DEF IInv, IdentityTypeOK
<1>3. PICK x \in User : /\ x.made = y.made /\ x.home = y.home /\ x.role = role
                        /\ users' = [users EXCEPT ![u] = x]
  <2>1. [y EXCEPT !.role = role] \in User
    BY DEF User, Role
  <2>2. users' = [users EXCEPT ![u] = [y EXCEPT !.role = role]]
    BY <1>2
  <2> QED
    BY <2>1, <2>2 DEF User
<1>4. role # "owner" /\ (x.made => founder[x.home] # Nothing)
  BY <1>2, <1>3 DEF IInv, Tables, HomesAgree, Proper
<1>5. \A v \in Users : users'[v] = IF v = u THEN x ELSE users[v]
  BY <1>3 DEF IInv, IdentityTypeOK
<1>6. ASSUME NEW v \in Users, users'[v].made
      PROVE  Proper(v, users[v].home, users[v].role)'
  <2>1. CASE v = u
    BY <1>1, <1>3, <1>4, <1>5, <1>6, <2>1 DEF Proper
  <2>2. CASE v # u
    BY <1>1, <1>5, <1>6, <2>2 DEF IInv, Tables, HomesAgree, Proper
  <2> QED
    BY <2>1, <2>2
<1>7. HomesAgree'
  BY <1>6 DEF HomesAgree, Proper
<1>8. users' \in [Users -> User]
  BY <1>3 DEF IInv, IdentityTypeOK
<1> QED
  BY <1>1, <1>2, <1>3, <1>5, <1>7, <1>8 DEF UsersKept

\* A membership is written with the role that the user may have there.
LEMMA MemberWritten ==
  ASSUME IInv, NEW u \in Users, NEW w \in Workspaces, NEW m \in Member,
         members' = [members EXCEPT ![u] = [members[u] EXCEPT ![w] = m]], UNCHANGED founder,
         crossed \subseteq crossed', m.role # Nothing, Proper(u, w, m.role),
         founder[w] = u => m.active \/ u \in crossed
  PROVE  MembersKept
<1>1. ASSUME NEW v \in Users, NEW x \in Workspaces
      PROVE  members'[v][x] = IF v = u /\ x = w THEN m ELSE members[v][x]
  BY DEF IInv, IdentityTypeOK
<1>2. members' \in [Users -> [Workspaces -> Member]]
  BY DEF IInv, IdentityTypeOK
<1>3. OwnersStay'
  BY <1>1 DEF IInv, Tables, OwnersStay, Proper
<1>4. MembersBelong'
  BY <1>1 DEF IInv, Tables, MembersBelong, Proper, IsMember
<1>5. \A v \in Users, x \in Workspaces : IsMember(v, x) => IsMember(v, x)'
  BY <1>1 DEF IsMember
<1> QED
  BY <1>2, <1>3, <1>4, <1>5 DEF MembersKept

LEMMA RevokedKept ==
  ASSUME IInv, NEW S, Revoke(S), AccountsKept
  PROVE  SessionsKept
<1>1. ASSUME NEW s \in Sessions
      PROVE  /\ sessions'[s] \in Session
             /\ sessions'[s].made = sessions[s].made /\ sessions'[s].user = sessions[s].user
             /\ sessions'[s].live => sessions[s].live
  <2>1. PICK x \in Session : x = sessions[s]
    BY DEF IInv, IdentityTypeOK
  <2>2. sessions'[s] = x \/ sessions'[s] = [x EXCEPT !.live = FALSE]
    BY <2>1 DEF Revoke
  <2>3. CASE sessions'[s] = x
    BY <2>1, <2>3
  <2>4. CASE sessions'[s] = [x EXCEPT !.live = FALSE]
    BY <2>1, <2>4 DEF Session
  <2> QED BY <2>2, <2>3, <2>4
<1>2. sessions' \in [Sessions -> Session]
  BY <1>1 DEF Revoke
<1>3. SessionsFit'
  BY <1>1 DEF AccountsKept, IInv, IdentityTypeOK, Tables, SessionsFit, Session
<1> QED
  BY <1>1, <1>2, <1>3 DEF SessionsKept

LEMMA SessionCreated ==
  ASSUME IInv, NEW u \in Users, NEW w \in Workspaces, NEW n \in Nat, CreateSession(u, w, n),
         AccountsKept, users'[u].made
  PROVE  SessionsKept
<1>1. PICK s \in Sessions :
        /\ ~sessions[s].made
        /\ sessions' = [sessions EXCEPT ![s] =
             [user |-> u, ws |-> w, made |-> TRUE, live |-> TRUE, resets |-> n]]
  BY DEF CreateSession
<1>2. sessions' \in [Sessions -> Session]
  BY <1>1 DEF IInv, IdentityTypeOK, Session
<1>3. \A q \in Sessions : sessions[q].made =>
        q # s /\ sessions'[q] = sessions[q] /\ sessions[q].user \in Users
  BY <1>1 DEF IInv, IdentityTypeOK, Session
<1>4. \A q \in Sessions : sessions[q].made => sessions'[q].made /\ sessions'[q].user = sessions[q].user
  BY <1>3
<1>5. SessionsFit'
  BY <1>1, <1>3 DEF AccountsKept, IInv, IdentityTypeOK, Tables, SessionsFit
<1> QED
  BY <1>2, <1>4, <1>5 DEF SessionsKept

\* An invite is written: a field of its use changes, or it is a new one.
LEMMA InviteWritten ==
  ASSUME IInv, NEW i \in Invites, NEW x \in Invite, invites' = [invites EXCEPT ![i] = x],
         x.made => x.role \in Grantable /\ Foreign(x.user, x.ws), AccountsKept
  PROVE  InvitesKept
<1>1. invites' \in [Invites -> Invite]
  BY DEF IInv, IdentityTypeOK
<1>2. ASSUME NEW j \in Invites, invites'[j].made
      PROVE  (invites[j].role \in Grantable /\ Foreign(invites[j].user, invites[j].ws))'
  <2>1. PICK y \in Invite : y = invites'[j]
    BY <1>1
  <2>2. y.role \in Grantable /\ Foreign(y.user, y.ws)
    BY <1>2, <2>1 DEF IInv, IdentityTypeOK, Tables, InvitesFit
  <2>3. y.ws \in Workspaces
    BY DEF Invite
  <2>4. Foreign(y.user, y.ws)'
    BY <2>2, <2>3 DEF Foreign, AccountsKept
  <2> QED
    BY <2>1, <2>2, <2>4 DEF Foreign
<1> QED
  BY <1>1, <1>2 DEF InvitesKept, InvitesFit

LEMMA ResetsAreCounted ==
  ASSUME IInv, NEW u \in Users
  PROVE  Resets(u) \in Nat
BY DEF Resets, IInv, IdentityTypeOK, Token, Kind

LEMMA TokenFacts ==
  ASSUME IInv, NEW k \in Kind, NEW u \in Users
  PROVE  /\ tokens[k] \in [Users -> Token] /\ tokens[k][u] \in Token
         /\ tokens[k][u].made \in Nat /\ tokens[k][u].used \in Nat
         /\ tokens[k][u].fresh \in SUBSET Nat
<1>1. tokens[k] \in [Users -> Token]
  BY DEF IInv, IdentityTypeOK
<1>2. tokens[k][u] \in Token
  BY <1>1
<1> QED
  BY <1>1, <1>2 DEF Token

LEMMA TokenWritten ==
  ASSUME IInv, NEW k \in Kind, NEW u \in Users, NEW x \in Token,
         tokens' = [tokens EXCEPT ![k][u] = x]
  PROVE  TokensKept
<1>1. [tokens[k] EXCEPT ![u] = x] \in [Users -> Token]
  BY TokenFacts
<1>2. tokens' = [tokens EXCEPT ![k] = [tokens[k] EXCEPT ![u] = x]]
  OBVIOUS
<1> QED
  BY <1>1, <1>2 DEF TokensKept, IInv, IdentityTypeOK

LEMMA IssuedKept ==
  ASSUME IInv, NEW k \in Kind, NEW u \in Users, NEW n, tokens' = Issued(k, u, n)
  PROVE  TokensKept
<1> DEFINE t == tokens[k][u]
           f == {m \in t.fresh : m > n} \cup {t.made + 1}
           x == [t EXCEPT !.made = @ + 1, !.fresh = f]
<1>1. t \in Token /\ t.made \in Nat
  BY TokenFacts
<1>2. t.made + 1 \in Nat /\ f \in SUBSET Nat
  BY <1>1, TokenFacts
<1> HIDE DEF t, f
<1>3. x \in Token
  BY <1>1, <1>2 DEF Token
<1>4. tokens' = [tokens EXCEPT ![k][u] = x]
  BY DEF Issued, t, f
<1> HIDE DEF x
<1> QED
  BY <1>3, <1>4, TokenWritten

LEMMA RedeemedKept ==
  ASSUME IInv, NEW k \in Kind, NEW u \in Users, NEW n, tokens' = Redeemed(k, u, n)
  PROVE  TokensKept
<1> DEFINE t == tokens[k][u]
           f == t.fresh \ {n}
           x == [t EXCEPT !.used = @ + 1, !.fresh = f]
<1>1. t \in Token /\ t.used \in Nat
  BY TokenFacts
<1>2. t.used + 1 \in Nat /\ f \in SUBSET Nat
  BY <1>1, TokenFacts
<1> HIDE DEF t, f
<1>3. x \in Token
  BY <1>1, <1>2 DEF Token
<1>4. tokens' = [tokens EXCEPT ![k][u] = x]
  BY DEF Redeemed, t, f
<1> HIDE DEF x
<1> QED
  BY <1>3, <1>4, TokenWritten

-----------------------------------------------------------------------------
(* Steps that write                                                        *)

RowsKept == AccountsKept /\ SessionsKept /\ InvitesKept /\ TokensKept

LEMMA EndsWriting ==
  ASSUME IInv, NEW r \in Requests, Ends(r), UNCHANGED <<planVars, ops>>, RowsKept
  PROVE  IInv'
<1>1. Calls(r) /\ Bounds
  BY EndsKeeps
<1>2. Tables' /\ Grows
  BY AllKept DEF RowsKept
<1> QED
  BY <1>1, <1>2, StepKeepsInv

LEMMA StartsWriting ==
  ASSUME IInv, NEW r \in Requests, Starts(r, Idle), UNCHANGED planVars, RowsKept
  PROVE  IInv'
<1>1. call'[r] = Idle
  BY CallFacts DEF Starts
<1>2. Fits(call[r])'
  BY <1>1 DEF Fits, Idle
<1>3. Tables' /\ Grows
  BY AllKept DEF RowsKept
<1> QED
  BY <1>2, <1>3, IdleFits, StartsKeeps, StepKeepsInv

LEMMA BecomesWriting ==
  ASSUME IInv, NEW r \in Requests, NEW c \in Call, call' = [call EXCEPT ![r] = c], Fits(c),
         UNCHANGED <<planVars, ops>>, RowsKept
  PROVE  IInv'
<1>1. Tables' /\ Grows
  BY AllKept DEF RowsKept
<1>2. Fits(c)'
  BY <1>1, FitsStays DEF IInv
<1>3. call'[r] = c
  BY CallFacts
<1>4. Fits(call[r])'
  BY <1>2, <1>3 DEF Fits, OfSession, Proper, Foreign, NotOwner, IsMember
<1> QED
  BY <1>1, <1>4, BecomesKeeps, StepKeepsInv

LEMMA AccountsUntouched ==
  ASSUME IInv, UNCHANGED accountVars
  PROVE  AccountsKept
BY UsersUntouched, MembersUntouched, BothKept DEF accountVars

LEMMA FindSessionKeeps ==
  ASSUME IInv, NEW r \in Requests, FindSession(r)
  PROVE  IInv'
<1>1. PICK s \in Sessions, to \in Workspaces \cup {Nothing} :
        /\ sessions[s].live
        /\ \/ Starts(r, Idle) /\ Revoke({s})
           \/ /\ Starts(r, [Idle EXCEPT !.at = "upsert", !.user = sessions[s].user,
                       !.ws = sessions[s].ws, !.home = users[sessions[s].user].home,
                       !.role = users[sessions[s].user].role, !.item = s, !.to = to])
              /\ UNCHANGED sessions
        /\ UNCHANGED <<accountVars, invites, tokens, planVars>>
  BY DEF FindSession
<1>2. CASE Starts(r, Idle) /\ Revoke({s})
  <2>1. RowsKept
    BY <1>1, <1>2, AccountsUntouched, RevokedKept, InvitesUntouched, TokensUntouched DEF RowsKept
  <2> QED
    BY <1>1, <1>2, <2>1, StartsWriting
<1>3. ASSUME Starts(r, [Idle EXCEPT !.at = "upsert", !.user = sessions[s].user,
                       !.ws = sessions[s].ws, !.home = users[sessions[s].user].home,
                       !.role = users[sessions[s].user].role, !.item = s, !.to = to]),
             UNCHANGED sessions
      PROVE  IInv'
  <2>1. PICK x \in Session : x = sessions[s]
    BY DEF IInv, IdentityTypeOK
  <2>2. x.made /\ x.user \in Users /\ x.ws \in Workspaces
    BY <1>1, <2>1 DEF IInv, Tables, SessionsFit, Session
  <2>3. PICK y \in User : y = users[x.user]
    BY <2>2 DEF IInv, IdentityTypeOK
  <2>4. y.home \in Workspaces /\ y.role \in Role
    BY DEF User
  <2>5. y.made /\ Proper(x.user, y.home, y.role)
    BY <2>1, <2>2, <2>3 DEF IInv, Tables, SessionsFit, HomesAgree
  <2>6. PICK c \in Call : c = [Idle EXCEPT !.at = "upsert", !.user = x.user, !.ws = x.ws,
                               !.home = y.home, !.role = y.role, !.item = s, !.to = to]
    BY <1>1, <2>2, <2>4, IdleFits DEF Call, Step
  <2>7. /\ c.at = "upsert" /\ c.user = x.user /\ c.home = y.home /\ c.role = y.role
        /\ c.item = s
    BY <2>6, IdleFits DEF Call
  <2>8. OfSession(c)
    BY <2>1, <2>2, <2>7 DEF OfSession
  <2>9. Fits(c)
    BY <2>3, <2>4, <2>5, <2>7, <2>8 DEF Fits
  <2>10. Starts(r, c)
    BY <1>3, <2>1, <2>3, <2>6
  <2> QED
    BY <1>1, <1>3, <2>9, <2>10, StartsQuietly DEF secretVars
<1> QED
  BY <1>1, <1>2, <1>3

LEMMA LogoutKeeps ==
  ASSUME IInv, NEW r \in Requests, Logout(r)
  PROVE  IInv'
<1>1. PICK s \in Sessions : Revoke({s})
  BY DEF Logout
<1>2. RowsKept
  BY <1>1, AccountsUntouched, RevokedKept, InvitesUntouched, TokensUntouched
     DEF RowsKept, Logout
<1> QED
  BY <1>2, StartsWriting DEF Logout

LEMMA EnsurePrimaryMembershipKeeps ==
  ASSUME IInv, NEW r \in Requests, EnsurePrimaryMembership(r)
  PROVE  IInv'
<1>1. PICK c \in Call : c = call[r]
  BY CallFacts
<1>2. /\ c.at = "upsert" /\ Fits(c) /\ c.user \in Users /\ c.home \in Workspaces
      /\ c.role \in Role /\ Proper(c.user, c.home, c.role) /\ users[c.user].made
      /\ c.item \in Sessions => OfSession(c)
  BY <1>1, CallFacts DEF EnsurePrimaryMembership, Fits
<1> DEFINE was == members[c.user][c.home]
           m == [role |-> c.role,
                 active |-> IF IsMember(c.user, c.home) THEN was.active ELSE TRUE]
<1>3. was \in Member
  BY <1>2 DEF IInv, IdentityTypeOK
<1>4. m \in Member /\ m.role = c.role
  BY <1>2, <1>3 DEF Member
<1>5. founder[c.home] = c.user => m.active \/ c.user \in crossed
  BY <1>2 DEF IInv, Tables, OwnersStay
<1>6. members' = [members EXCEPT ![c.user] = [members[c.user] EXCEPT ![c.home] = m]]
  BY <1>1 DEF EnsurePrimaryMembership
<1>7. UNCHANGED <<users, founder, crossed, sessions, invites, tokens, planVars, ops>>
  BY DEF EnsurePrimaryMembership, secretVars
<1>8. c.role # Nothing
  BY <1>2 DEF Role
<1> HIDE DEF m
<1>9. MembersKept
  BY <1>2, <1>4, <1>5, <1>6, <1>7, <1>8, MemberWritten
<1>10. RowsKept
  BY <1>7, <1>9, UsersUntouched, BothKept, SessionsUntouched, InvitesUntouched, TokensUntouched
     DEF RowsKept
<1>11. PICK d \in Call :
         /\ d = [c EXCEPT !.at = IF c.item \in Sessions THEN "admit" ELSE "pick"]
         /\ call' = [call EXCEPT ![r] = d]
  BY <1>1, GoesTo DEF EnsurePrimaryMembership, Step
<1>12. Fits(d)
  <2>1. /\ d.at = IF c.item \in Sessions THEN "admit" ELSE "pick"
        /\ d.user = c.user /\ d.item = c.item
    BY <1>11 DEF Call
  <2> QED
    BY <1>2, <2>1 DEF Fits, OfSession
<1> QED
  BY <1>7, <1>10, <1>11, <1>12, BecomesWriting

LEMMA AdmitSessionKeeps ==
  ASSUME IInv, NEW r \in Requests, AdmitSession(r)
  PROVE  IInv'
<1>1. Fits(call[r]) /\ call[r].at = "admit" /\ call[r] \in Call
  BY CallFacts DEF AdmitSession
<1>2. UNCHANGED <<accountVars, invites, tokens, planVars, ops>>
  BY DEF AdmitSession
<1>3. CASE Ends(r) /\ UNCHANGED sessions
  BY <1>2, <1>3, EndsQuietly DEF secretVars
<1>4. CASE Ends(r) /\ Revoke(SessionsIn(call[r].user, call[r].ws))
  <2>1. RowsKept
    BY <1>2, <1>4, AccountsUntouched, RevokedKept, InvitesUntouched, TokensUntouched DEF RowsKept
  <2> QED
    BY <1>2, <1>4, <2>1, EndsWriting
<1>5. CASE Goes(r, "target") /\ call[r].to # Nothing /\ UNCHANGED sessions
  <2>1. PICK c \in Call : c = [call[r] EXCEPT !.at = "target"] /\ call' = [call EXCEPT ![r] = c]
    BY <1>5, GoesTo DEF Step
  <2>2. c.at = "target" /\ c.user = call[r].user /\ c.item = call[r].item /\ c.to \in Workspaces
    BY <1>1, <1>5, <2>1 DEF Call
  <2>3. Fits(c)
    BY <1>1, <2>2 DEF Fits, OfSession
  <2> QED
    BY <1>2, <1>5, <2>1, <2>3, BecomesQuietly DEF secretVars
<1> QED
  BY <1>3, <1>4, <1>5 DEF AdmitSession

LEMMA MoveSessionKeeps ==
  ASSUME IInv, NEW r \in Requests, MoveSession(r)
  PROVE  IInv'
<1>1. PICK c \in Call : c = call[r]
  BY CallFacts
<1>2. Fits(c) /\ c.at = "move" /\ OfSession(c) /\ c.to \in Workspaces
  BY <1>1, CallFacts DEF MoveSession, Fits
<1>3. UNCHANGED <<accountVars, invites, tokens, planVars, ops>>
  BY DEF MoveSession
<1>4. PICK x \in Session : x = sessions[c.item]
  BY <1>2 DEF OfSession, IInv, IdentityTypeOK
<1> DEFINE y == [x EXCEPT !.ws = c.to]
<1>5. /\ y \in Session /\ y.made = x.made /\ y.user = x.user /\ y.live = x.live
      /\ sessions' = [sessions EXCEPT ![c.item] = y]
  BY <1>1, <1>2, <1>4 DEF MoveSession, Session
<1> HIDE DEF y
<1>6. AccountsKept
  BY <1>3, AccountsUntouched
<1>7. SessionsKept
  <2>1. sessions' \in [Sessions -> Session]
    BY <1>5 DEF IInv, IdentityTypeOK
  <2>2. \A s \in Sessions : /\ sessions'[s].made = sessions[s].made
                            /\ sessions'[s].user = sessions[s].user
                            /\ sessions'[s].live = sessions[s].live
                            /\ sessions[s].user \in Users
    BY <1>4, <1>5 DEF IInv, IdentityTypeOK, Session
  <2>3. SessionsFit'
    BY <1>6, <2>2 DEF AccountsKept, IInv, Tables, SessionsFit
  <2> QED
    BY <2>1, <2>2, <2>3 DEF SessionsKept
<1>8. RowsKept
  BY <1>3, <1>6, <1>7, InvitesUntouched, TokensUntouched DEF RowsKept
<1>9. PICK d \in Call : d = [c EXCEPT !.at = "again"] /\ call' = [call EXCEPT ![r] = d]
  BY <1>1, GoesTo DEF MoveSession, Step
<1>10. Fits(d)
  BY <1>2, <1>9 DEF Call, Fits, OfSession
<1> QED
  BY <1>3, <1>8, <1>9, <1>10, BecomesWriting

LEMMA EnterKeeps ==
  ASSUME IInv, NEW r \in Requests, Enter(r)
  PROVE  IInv'
<1>1. PICK c \in Call : c = call[r]
  BY CallFacts
<1>2. /\ Fits(c) /\ c.at = "enter" /\ users[c.user].made
      /\ c.user \in Users /\ c.ws \in Workspaces /\ c.seen \in Nat
  BY <1>1, CallFacts DEF Enter, Fits, Call
<1>3. Ends(r) /\ UNCHANGED <<members, founder, crossed, invites, tokens, planVars, ops>>
  BY DEF Enter
<1>4. CASE UNCHANGED <<users, sessions>>
  BY <1>3, <1>4, EndsQuietly DEF accountVars, secretVars
<1>5. ASSUME users' = [users EXCEPT ![c.user].linked = @ \/ c.item = "link",
                                    ![c.user].verified = @ \/ c.item = "link"],
             CreateSession(c.user, c.ws, c.seen)
      PROVE  IInv'
  <2>1. PICK x \in User : x = users[c.user]
    BY <1>2 DEF IInv, IdentityTypeOK
  <2> DEFINE y == [x EXCEPT !.linked = x.linked \/ c.item = "link",
                            !.verified = x.verified \/ c.item = "link"]
  <2>2. y \in User /\ y.made = x.made /\ y.home = x.home /\ y.role = x.role
    BY DEF User
  <2>3. users' = [users EXCEPT ![c.user] = y]
    BY <1>2, <1>5, <2>1 DEF IInv, IdentityTypeOK, User
  <2> HIDE DEF y
  <2>4. Proper(c.user, x.home, x.role)
    BY <1>2, <2>1 DEF IInv, Tables, HomesAgree
  <2>5. AccountsKept
    BY <1>2, <1>3, <2>1, <2>2, <2>3, <2>4, UserWritten, MembersUntouched, BothKept
  <2>6. users'[c.user].made
    BY <1>2, <2>5 DEF AccountsKept
  <2>7. SessionsKept
    BY <1>2, <1>5, <2>5, <2>6, SessionCreated
  <2> QED
    BY <1>3, <2>5, <2>7, InvitesUntouched, TokensUntouched, EndsWriting DEF RowsKept
<1> QED
  BY <1>1, <1>4, <1>5 DEF Enter

LEMMA IssueTokenKeeps ==
  ASSUME IInv, NEW r \in Requests, IssueToken(r)
  PROVE  IInv'
<1>1. call[r].item \in Kind /\ call[r].user \in Users
  BY CallFacts DEF IssueToken, Fits
<1>2. TokensKept
  BY <1>1, IssuedKept DEF IssueToken
<1>3. RowsKept
  BY <1>2, AccountsUntouched, SessionsUntouched, InvitesUntouched DEF RowsKept, IssueToken
<1> QED
  BY <1>3, EndsWriting DEF IssueToken

LEMMA RedeemTokenKeeps ==
  ASSUME IInv, NEW r \in Requests, RedeemToken(r)
  PROVE  IInv'
<1>1. PICK c \in Call : c = call[r]
  BY CallFacts
<1>2. c.item \in Kind /\ c.user \in Users
  BY <1>1, CallFacts DEF RedeemToken, Fits
<1>3. TokensKept
  BY <1>1, <1>2, RedeemedKept DEF RedeemToken
<1>4. Ends(r) /\ UNCHANGED <<members, founder, crossed, invites, planVars, ops>>
  BY DEF RedeemToken
<1>5. PICK x \in User : x = users[c.user]
  BY <1>2 DEF IInv, IdentityTypeOK
<1>6. PICK y \in User : /\ y.made = x.made /\ y.home = x.home /\ y.role = x.role
                        /\ users' = [users EXCEPT ![c.user] = y]
  <2>1. CASE users' = [users EXCEPT ![c.user].secret = TRUE]
    <3>1. [x EXCEPT !.secret = TRUE] \in User
      BY DEF User
    <3> QED
      BY <1>5, <2>1, <3>1 DEF User
  <2>2. CASE users' = [users EXCEPT ![c.user].verified = TRUE]
    <3>1. [x EXCEPT !.verified = TRUE] \in User
      BY DEF User
    <3> QED
      BY <1>5, <2>2, <3>1 DEF User
  <2> QED
    BY <1>1, <2>1, <2>2 DEF RedeemToken
<1>7. x.made => Proper(c.user, x.home, x.role)
  BY <1>2, <1>5 DEF IInv, Tables, HomesAgree
<1>8. AccountsKept
  BY <1>2, <1>4, <1>5, <1>6, <1>7, UserWritten, MembersUntouched, BothKept
<1>9. SessionsKept
  BY <1>8, RevokedKept, SessionsUntouched DEF RedeemToken
<1> QED
  BY <1>3, <1>4, <1>8, <1>9, InvitesUntouched, EndsWriting DEF RowsKept

LEMMA FoundWorkspaceKeeps ==
  ASSUME IInv, NEW r \in Requests, FoundWorkspace(r)
  PROVE  IInv'
<1>1. PICK c \in Call : c = call[r]
  BY CallFacts
<1>2. c.user \in Users
  BY <1>1, CallFacts
<1> DEFINE oauth == c.at = "settle"
<1>3. Ends(r) /\ UNCHANGED <<invites, planVars, ops>>
  BY DEF FoundWorkspace
<1>4. CASE UNCHANGED <<accountVars, sessions, tokens>>
  BY <1>3, <1>4, EndsQuietly DEF secretVars
<1>5. ASSUME NEW w \in Workspaces, founder[w] = Nothing,
             founder' = [founder EXCEPT ![w] = c.user],
             users' = [users EXCEPT ![c.user] = Founded(c.user, w, oauth)],
             members' = [members EXCEPT ![c.user][w] = [role |-> "owner", active |-> TRUE]],
             CreateSession(c.user, w, Resets(c.user)),
             tokens' = IF oauth THEN Redeemed("signup", c.user, c.seen)
                                ELSE Issued("verify", c.user, 0),
             UNCHANGED crossed
      PROVE  IInv'
  <2> DEFINE x == Founded(c.user, w, oauth)
             m == [role |-> "owner", active |-> TRUE]
  <2>1. x \in User /\ x.made /\ x.home = w /\ x.role = "owner"
    <3>1. PICK y \in User : y = users[c.user]
      BY <1>2 DEF IInv, IdentityTypeOK
    <3>2. oauth \in BOOLEAN /\ (y.secret \/ ~oauth) \in BOOLEAN
      OBVIOUS
    <3> HIDE DEF oauth
    <3>3. x = [y EXCEPT !.made = TRUE, !.home = w, !.role = "owner", !.secret = @ \/ ~oauth,
                        !.verified = oauth, !.linked = oauth]
      BY <3>1 DEF Founded
    <3> HIDE DEF x
    <3> QED
      BY <3>2, <3>3, ZenonT(60) DEF User, Role
  <2>2. m \in Member
    BY DEF Member, Role
  <2> HIDE DEF x
  <2>3. users' = [users EXCEPT ![c.user] = x]
    BY <1>5 DEF x
  <2>4. \A v \in Workspaces : founder'[v] = IF v = w THEN c.user ELSE founder[v]
    BY <1>5 DEF IInv, IdentityTypeOK
  <2>5. \A v \in Users, y \in Workspaces :
          members'[v][y] = IF v = c.user /\ y = w THEN m ELSE members[v][y]
    BY <1>2, <1>5 DEF IInv, IdentityTypeOK
  <2>6. /\ founder' \in [Workspaces -> Users \cup {Nothing}]
        /\ users' \in [Users -> User]
    BY <1>2, <1>5, <2>1, <2>3 DEF IInv, IdentityTypeOK
  <2>7. members' \in [Users -> [Workspaces -> Member]]
    <3>1. [members[c.user] EXCEPT ![w] = m] \in [Workspaces -> Member]
      BY <1>2, <2>2 DEF IInv, IdentityTypeOK
    <3>2. members' = [members EXCEPT ![c.user] = [members[c.user] EXCEPT ![w] = m]]
      BY <1>5
    <3> HIDE DEF m
    <3> QED
      BY <1>2, <3>1, <3>2 DEF IInv, IdentityTypeOK
  <2>8. \A v \in Users : founder[w] # v
    BY <1>5
  <2>9. OwnersStay'
    <3> SUFFICES ASSUME NEW y \in Workspaces, NEW v \in Users
                 PROVE  /\ members'[v][y].role = "owner" => founder'[y] = v
                        /\ founder'[y] = v => \/ members'[v][y].role = "owner" /\ members'[v][y].active
                                              \/ v \in crossed'
      BY DEF OwnersStay
    <3>1. CASE y = w /\ v = c.user
      BY <2>4, <2>5, <3>1
    <3>2. CASE y = w /\ v # c.user
      BY <2>4, <2>5, <2>8, <3>2 DEF IInv, Tables, OwnersStay
    <3>3. CASE y # w
      <4>1. founder'[y] = founder[y] /\ members'[v][y] = members[v][y]
        BY <2>4, <2>5, <3>3
      <4> QED
        BY <1>5, <4>1 DEF IInv, Tables, OwnersStay
    <3> QED BY <3>1, <3>2, <3>3
  <2>10. HomesAgree'
    <3> SUFFICES ASSUME NEW v \in Users, users'[v].made
                 PROVE  Proper(v, users[v].home, users[v].role)'
      BY DEF HomesAgree, Proper
    <3>1. CASE v = c.user
      BY <1>2, <2>1, <2>3, <2>4, <3>1 DEF IInv, IdentityTypeOK, Proper
    <3>2. CASE v # c.user
      <4>1. users'[v] = users[v] /\ users[v] \in User /\ users[v].made
        BY <2>3, <3>2 DEF IInv, IdentityTypeOK
      <4>2. Proper(v, users[v].home, users[v].role) /\ users[v].home \in Workspaces
        BY <4>1 DEF IInv, Tables, HomesAgree, User
      <4> QED
        BY <1>5, <2>4, <4>1, <4>2 DEF Proper
    <3> QED BY <3>1, <3>2
  <2>11. MembersBelong'
    BY <1>2, <1>5, <2>4, <2>5 DEF MembersBelong, IsMember, IInv, Tables
  <2>12. \A v \in Users : users[v].made => users'[v].made
    BY <2>1, <2>3 DEF IInv, IdentityTypeOK
  <2>13. \A y \in Workspaces : founder[y] # Nothing => founder'[y] = founder[y]
    BY <1>5, <2>4
  <2>14. \A v \in Users, y \in Workspaces : IsMember(v, y) => IsMember(v, y)'
    BY <2>5 DEF IsMember
  <2>15. AccountsKept
    BY <1>5, <2>6, <2>7, <2>9, <2>10, <2>11, <2>12, <2>13, <2>14
       DEF AccountsKept, IInv, IdentityTypeOK
  <2>16. users'[c.user].made
    BY <1>2, <2>1, <2>3 DEF IInv, IdentityTypeOK
  <2>17. SessionsKept
    BY <1>2, <1>5, <2>15, <2>16, ResetsAreCounted, SessionCreated
  <2>18. TokensKept
    BY <1>2, <1>5, IssuedKept, RedeemedKept DEF Kind
  <2> QED
    BY <1>3, <2>15, <2>17, <2>18, InvitesUntouched, EndsWriting DEF RowsKept
<1>6. \/ UNCHANGED <<accountVars, sessions, tokens>>
      \/ \E w \in Workspaces :
           /\ founder[w] = Nothing
           /\ founder' = [founder EXCEPT ![w] = c.user]
           /\ users' = [users EXCEPT ![c.user] = Founded(c.user, w, oauth)]
           /\ members' = [members EXCEPT ![c.user][w] = [role |-> "owner", active |-> TRUE]]
           /\ CreateSession(c.user, w, Resets(c.user))
           /\ tokens' = IF oauth THEN Redeemed("signup", c.user, c.seen)
                                 ELSE Issued("verify", c.user, 0)
           /\ UNCHANGED crossed
  BY <1>1, Zenon DEF FoundWorkspace
<1> QED
  BY <1>4, <1>5, <1>6

LEMMA CreateInviteKeeps ==
  ASSUME IInv, NEW r \in Requests, CreateInvite(r)
  PROVE  IInv'
<1>1. PICK c \in Call : c = call[r]
  BY CallFacts
<1>2. /\ c.user \in Users /\ c.ws \in Workspaces /\ c.role \in Grantable
      /\ Foreign(c.user, c.ws)
  BY <1>1, CallFacts DEF CreateInvite, Fits
<1>3. PICK i \in Invites :
        invites' = [invites EXCEPT ![i] =
          [NoInvite EXCEPT !.made = TRUE, !.user = c.user, !.ws = c.ws, !.role = c.role]]
  BY <1>1 DEF CreateInvite
<1>4. PICK x \in Invite : /\ x.user = c.user /\ x.ws = c.ws /\ x.role = c.role
                          /\ invites' = [invites EXCEPT ![i] = x]
  BY <1>2, <1>3 DEF NoInvite, Invite, Role
<1>5. Ends(r) /\ UNCHANGED <<accountVars, sessions, tokens, planVars, ops>>
  BY DEF CreateInvite
<1>6. InvitesKept
  BY <1>2, <1>4, <1>5, AccountsUntouched, InviteWritten
<1> QED
  BY <1>5, <1>6, AccountsUntouched, SessionsUntouched, TokensUntouched, EndsWriting DEF RowsKept

LEMMA RevokeInviteKeeps ==
  ASSUME IInv, NEW r \in Requests, RevokeInvite(r)
  PROVE  IInv'
<1>1. PICK c \in Call : c = call[r]
  BY CallFacts
<1>2. c.item \in Invites
  BY <1>1, CallFacts DEF RevokeInvite, Fits
<1>3. PICK x \in Invite : x = invites[c.item]
  BY <1>2 DEF IInv, IdentityTypeOK
<1>4. PICK y \in Invite : /\ y.made = x.made /\ y.user = x.user /\ y.ws = x.ws /\ y.role = x.role
                          /\ invites' = [invites EXCEPT ![c.item] = y]
  BY <1>1, <1>3 DEF RevokeInvite, Invite
<1>5. Ends(r) /\ UNCHANGED <<accountVars, sessions, tokens, planVars, ops>>
  BY DEF RevokeInvite
<1>6. y.made => y.role \in Grantable /\ Foreign(y.user, y.ws)
  BY <1>2, <1>3, <1>4 DEF IInv, Tables, InvitesFit
<1>7. InvitesKept
  BY <1>2, <1>4, <1>5, <1>6, AccountsUntouched, InviteWritten
<1> QED
  BY <1>5, <1>7, AccountsUntouched, SessionsUntouched, TokensUntouched, EndsWriting DEF RowsKept

\* No request: what the requests rely on stays true.
LEMMA InviteExpiresKeeps ==
  ASSUME IInv, InviteExpires
  PROVE  IInv'
<1>1. PICK i \in Invites : invites[i].made /\ invites' = [invites EXCEPT ![i].expired = TRUE]
  BY DEF InviteExpires
<1>2. UNCHANGED <<accountVars, sessions, tokens, call, planVars, ops>>
  BY DEF InviteExpires
<1>3. PICK x \in Invite : x = invites[i]
  BY DEF IInv, IdentityTypeOK
<1>4. PICK y \in Invite : /\ y.made = x.made /\ y.user = x.user /\ y.ws = x.ws /\ y.role = x.role
                          /\ invites' = [invites EXCEPT ![i] = y]
  BY <1>1, <1>3 DEF Invite
<1>5. y.made => y.role \in Grantable /\ Foreign(y.user, y.ws)
  BY <1>3, <1>4 DEF IInv, Tables, InvitesFit
<1>6. Tables' /\ Grows
  BY <1>2, <1>4, <1>5, AccountsUntouched, InviteWritten, SessionsUntouched, TokensUntouched, AllKept
<1>7. ASSUME NEW q \in Requests
      PROVE  Fits(call[q])'
  <2>1. PICK d \in Call : d = call[q]
    BY CallFacts
  <2>2. Fits(d)'
    BY <1>6, <2>1, CallFacts, FitsStays DEF IInv
  <2>3. call'[q] = d
    BY <1>2, <2>1
  <2> QED
    BY <2>2, <2>3 DEF Fits, OfSession, Proper, Foreign, NotOwner, IsMember
<1>8. IdentityTypeOK'
  BY <1>2, <1>6 DEF IInv, IdentityTypeOK, planVars, Tables, TableTypes
<1> QED
  BY <1>6, <1>7, <1>8 DEF IInv, CallsFit

\* A new row of users, as the invited and the hired get one.
LEMMA NewUserFits ==
  ASSUME NEW w \in Workspaces, NEW role \in Grantable, NEW u \in Users, Foreign(u, w),
         NEW f \in BOOLEAN
  PROVE  \E x \in User :
           /\ x = [NoUser EXCEPT !.made = TRUE, !.home = w, !.role = role,
                                 !.secret = TRUE, !.verified = f]
           /\ x.made /\ Proper(u, x.home, x.role)
<1> DEFINE x == [NoUser EXCEPT !.made = TRUE, !.home = w, !.role = role,
                               !.secret = TRUE, !.verified = f]
<1>1. x \in User /\ x.made /\ x.home = w /\ x.role = role
  BY DEF NoUser, User, Role
<1> HIDE DEF x
<1>2. Proper(u, x.home, x.role)
  BY <1>1 DEF Proper, Foreign
<1> QED
  BY <1>1, <1>2 DEF x

LEMMA AcceptInviteKeeps ==
  ASSUME IInv, NEW r \in Requests, AcceptInvite(r)
  PROVE  IInv'
<1>1. PICK c \in Call : c = call[r]
  BY CallFacts
<1>2. /\ c.user \in Users /\ c.ws \in Workspaces /\ c.role \in Grantable /\ c.item \in Invites
      /\ Foreign(c.user, c.ws) /\ (c.seen = 1 => users[c.user].made)
  BY <1>1, CallFacts DEF AcceptInvite, Fits
<1>3. Ends(r) /\ UNCHANGED <<founder, crossed, tokens, planVars, ops>>
  BY DEF AcceptInvite
<1>4. CASE UNCHANGED <<users, members, sessions, invites>>
  BY <1>3, <1>4, EndsQuietly DEF accountVars, secretVars
<1>5. ASSUME c.seen = 1 \/ ~users[c.user].made,
             users' = [users EXCEPT ![c.user] =
               IF c.seen = 1 THEN [users[c.user] EXCEPT !.verified = TRUE]
               ELSE [NoUser EXCEPT !.made = TRUE, !.home = c.ws, !.role = c.role,
                                   !.secret = TRUE, !.verified = TRUE]],
             members' = [members EXCEPT ![c.user][c.ws] = [role |-> c.role, active |-> TRUE]],
             invites' = [invites EXCEPT ![c.item].used = @ + 1],
             CreateSession(c.user, c.ws, Resets(c.user))
      PROVE  IInv'
  <2>1. PICK x \in User : /\ x.made /\ Proper(c.user, x.home, x.role)
                          /\ users' = [users EXCEPT ![c.user] = x]
    <3>1. CASE c.seen = 1
      <4>1. PICK y \in User : y = users[c.user]
        BY <1>2 DEF IInv, IdentityTypeOK
      <4>2. [y EXCEPT !.verified = TRUE] \in User
        BY DEF User
      <4>3. y.made /\ Proper(c.user, y.home, y.role)
        BY <1>2, <3>1, <4>1 DEF IInv, Tables, HomesAgree
      <4>4. users' = [users EXCEPT ![c.user] = [y EXCEPT !.verified = TRUE]]
        BY <1>5, <3>1, <4>1
      <4> QED
        BY <4>2, <4>3, <4>4 DEF User
    <3>2. CASE c.seen # 1
      <4>1. PICK x \in User :
              /\ x = [NoUser EXCEPT !.made = TRUE, !.home = c.ws, !.role = c.role,
                                    !.secret = TRUE, !.verified = TRUE]
              /\ x.made /\ Proper(c.user, x.home, x.role)
        BY <1>2, NewUserFits
      <4>2. users' = [users EXCEPT ![c.user] = x]
        BY <1>5, <3>2, <4>1
      <4> QED
        BY <4>1, <4>2
    <3> QED BY <3>1, <3>2
  <2>2. UsersKept
    BY <1>2, <1>3, <2>1, UserWritten
  <2>3. MembersKept
    <3> DEFINE m == [role |-> c.role, active |-> TRUE]
    <3>1. m \in Member /\ m.role = c.role /\ m.active
      BY <1>2 DEF Member, Role
    <3>2. members' = [members EXCEPT ![c.user] = [members[c.user] EXCEPT ![c.ws] = m]]
      BY <1>5
    <3>3. c.role # Nothing /\ Proper(c.user, c.ws, c.role)
      BY <1>2 DEF Proper, Foreign
    <3> HIDE DEF m
    <3> QED
      BY <1>2, <1>3, <3>1, <3>2, <3>3, MemberWritten
  <2>4. AccountsKept
    BY <1>3, <2>2, <2>3, BothKept
  <2>5. users'[c.user].made
    BY <1>2, <2>1 DEF IInv, IdentityTypeOK
  <2>6. SessionsKept
    BY <1>2, <1>5, <2>4, <2>5, ResetsAreCounted, SessionCreated
  <2>7. InvitesKept
    <3>1. PICK v \in Invite : v = invites[c.item]
      BY <1>2 DEF IInv, IdentityTypeOK
    <3>2. v.used + 1 \in Nat
      BY DEF Invite
    <3>3. PICK y \in Invite : /\ y.made = v.made /\ y.user = v.user /\ y.ws = v.ws
                              /\ y.role = v.role
                              /\ invites' = [invites EXCEPT ![c.item] = y]
      BY <1>5, <3>1, <3>2 DEF Invite
    <3>4. y.made => y.role \in Grantable /\ Foreign(y.user, y.ws)
      BY <1>2, <3>1, <3>3 DEF IInv, Tables, InvitesFit
    <3> QED
      BY <1>2, <2>4, <3>3, <3>4, InviteWritten
  <2> QED
    BY <1>3, <2>4, <2>6, <2>7, TokensUntouched, EndsWriting DEF RowsKept
<1> QED
  BY <1>1, <1>4, <1>5 DEF AcceptInvite

\* A step that writes users and members only, and ends.
LEMMA AccountsWritten ==
  ASSUME IInv, NEW r \in Requests, Ends(r), UsersKept, MembersKept,
         UNCHANGED <<founder, secretVars, planVars, ops>>
  PROVE  IInv'
<1>1. AccountsKept
  BY BothKept
<1> QED
  BY <1>1, SessionsUntouched, InvitesUntouched, TokensUntouched, EndsWriting
     DEF RowsKept, secretVars

\* The role of a user changes, whose home it was that the role is for.
LEMMA RoleWritten ==
  ASSUME IInv, NEW c \in Call, c.role \in Grantable, NotOwner(c.user, c.ws), c.met = "home",
         users' = [users EXCEPT ![c.user].role = c.role],
         UNCHANGED founder, crossed' = Crossing(c)
  PROVE  UsersKept
<1>1. c.user \in Users /\ c.ws \in Workspaces
  BY DEF Call
<1>2. PICK u \in User : u = users[c.user]
  BY <1>1 DEF IInv, IdentityTypeOK
<1>3. CASE u.home = c.ws
  <2>1. PICK x \in User : /\ x.made = u.made /\ x.home = c.ws /\ x.role = c.role
                          /\ x = [u EXCEPT !.role = c.role]
    BY <1>3 DEF User, Role
  <2>2. users' = [users EXCEPT ![c.user] = x] /\ UNCHANGED crossed
    BY <1>2, <1>3, <2>1 DEF Crossing
  <2>3. Proper(c.user, x.home, x.role)
    BY <2>1 DEF Proper, NotOwner
  <2> QED
    BY <1>1, <1>2, <2>1, <2>2, <2>3, UserWritten
<1>4. CASE u.home # c.ws
  <2>1. crossed' = crossed \cup {c.user}
    BY <1>2, <1>4 DEF Crossing
  <2> QED
    BY <1>1, <2>1, UserCrossed
<1> QED
  BY <1>3, <1>4

LEMMA CreateMemberKeeps ==
  ASSUME IInv, NEW r \in Requests, CreateMember(r)
  PROVE  IInv'
<1>1. PICK c \in Call : c = call[r]
  BY CallFacts
<1>2. /\ c.user \in Users /\ c.ws \in Workspaces /\ c.role \in Grantable
      /\ Foreign(c.user, c.ws)
  BY <1>1, CallFacts DEF CreateMember, Fits
<1>3. Ends(r) /\ UNCHANGED <<founder, secretVars, planVars, ops>>
  BY DEF CreateMember
<1>4. PICK u \in User : u = users[c.user]
  BY <1>2 DEF IInv, IdentityTypeOK
<1>5. CASE UNCHANGED <<users, members, crossed>>
  BY <1>3, <1>5, EndsQuietly DEF accountVars, secretVars
<1>6. ASSUME users' = [users EXCEPT ![c.user] = Hired(u, c)],
             members' = [members EXCEPT ![c.user][c.ws] = [role |-> c.role, active |-> TRUE]],
             c.met = "none" => ~u.made,
             crossed' = Crossing(c)
      PROVE  IInv'
  <2>1. u.made => Proper(c.user, u.home, u.role)
    BY <1>2, <1>4 DEF IInv, Tables, HomesAgree
  <2>2. c.met \in Met
    BY DEF Call
  <2>3. UsersKept
    <3>1. CASE c.met = "none"
      <4> DEFINE x == [NoUser EXCEPT !.made = TRUE, !.home = c.ws, !.role = c.role,
                                     !.secret = TRUE]
      <4>1. x \in User /\ x.made /\ x.home = c.ws /\ x.role = c.role
        BY <1>2 DEF NoUser, User, Role
      <4>2. users' = [users EXCEPT ![c.user] = x] /\ UNCHANGED crossed
        BY <1>6, <3>1 DEF Hired, Crossing
      <4> HIDE DEF x
      <4>3. Proper(c.user, x.home, x.role)
        BY <1>2, <4>1 DEF Proper, Foreign
      <4> QED
        BY <1>2, <1>3, <4>1, <4>2, <4>3, UserWritten
    <3>2. CASE c.met \in {"bare", "away"}
      <4>1. [u EXCEPT !.secret = TRUE] \in User
        BY DEF User
      <4>2. PICK x \in User : /\ x = Hired(u, c)
                              /\ x.made = u.made /\ x.home = u.home /\ x.role = u.role
        BY <3>2, <4>1 DEF Hired, User
      <4>3. users' = [users EXCEPT ![c.user] = x] /\ UNCHANGED crossed
        BY <1>6, <3>2, <4>2 DEF Crossing
      <4> QED
        BY <1>2, <1>3, <1>4, <2>1, <4>2, <4>3, UserWritten
    <3>3. CASE c.met = "home"
      <4>1. users' = [users EXCEPT ![c.user].role = c.role]
        BY <1>4, <1>6, <3>3 DEF Hired
      <4>2. c.role # "owner" /\ Foreign(c.user, c.ws)
        BY <1>2
      <4> QED
        BY <1>2, <1>3, <1>6, <3>3, <4>1, <4>2, RoleWritten DEF Foreign, NotOwner
    <3> QED
      BY <2>2, <3>1, <3>2, <3>3 DEF Met
  <2>4. MembersKept
    <3> DEFINE m == [role |-> c.role, active |-> TRUE]
    <3>1. m \in Member /\ m.role = c.role /\ m.active
      BY <1>2 DEF Member, Role
    <3>2. members' = [members EXCEPT ![c.user] = [members[c.user] EXCEPT ![c.ws] = m]]
      BY <1>6
    <3>3. c.role # Nothing /\ Proper(c.user, c.ws, c.role)
      BY <1>2 DEF Proper, Foreign
    <3> HIDE DEF m
    <3> QED
      BY <1>2, <1>3, <2>3, <3>1, <3>2, <3>3, MemberWritten DEF UsersKept
  <2> QED
    BY <1>3, <2>3, <2>4, AccountsWritten
<1> QED
  BY <1>1, <1>4, <1>5, <1>6 DEF CreateMember

LEMMA UpdateMemberKeeps ==
  ASSUME IInv, NEW r \in Requests, UpdateMember(r)
  PROVE  IInv'
<1>1. PICK c \in Call : c = call[r]
  BY CallFacts
<1>2. /\ c.user \in Users /\ c.ws \in Workspaces /\ c.role \in Grantable
      /\ NotOwner(c.user, c.ws)
  BY <1>1, CallFacts DEF UpdateMember, Fits
<1>3. Ends(r) /\ UNCHANGED <<founder, secretVars, planVars, ops>> /\ crossed' = Crossing(c)
  BY <1>1 DEF UpdateMember
<1>4. c.role # Nothing /\ Proper(c.user, c.ws, c.role)
  BY <1>2 DEF Proper, NotOwner
<1>5. PICK u \in User : u = users[c.user]
  BY <1>2 DEF IInv, IdentityTypeOK
<1>6. UsersKept
  <2>1. CASE c.met = "home"
    <3>1. users' = [users EXCEPT ![c.user].role = c.role]
      BY <1>1, <2>1 DEF UpdateMember
    <3> QED
      BY <1>2, <1>3, <2>1, <3>1, RoleWritten
  <2>2. CASE c.met # "home"
    <3>1. users' = [users EXCEPT ![c.user] = u] /\ UNCHANGED crossed
      BY <1>1, <1>2, <1>5, <2>2 DEF UpdateMember, Crossing, User, IInv, IdentityTypeOK
    <3>2. u.made => Proper(c.user, u.home, u.role)
      BY <1>2, <1>5 DEF IInv, Tables, HomesAgree
    <3> QED
      BY <1>2, <1>3, <1>5, <3>1, <3>2, UserWritten
  <2> QED BY <2>1, <2>2
<1>7. MembersKept
  <2>1. PICK x \in Member : x = members[c.user][c.ws]
    BY <1>2 DEF IInv, IdentityTypeOK
  <2> DEFINE m == [x EXCEPT !.role = c.role]
  <2>2. m \in Member /\ m.role = c.role
    BY <1>2 DEF Member, Role
  <2>3. members' = [members EXCEPT ![c.user] = [members[c.user] EXCEPT ![c.ws] = m]]
    BY <1>1, <1>2, <2>1 DEF UpdateMember, IInv, IdentityTypeOK
  <2>4. founder[c.ws] = c.user => c.user \in crossed
    BY <1>2 DEF NotOwner
  <2> HIDE DEF m
  <2> QED
    BY <1>2, <1>3, <1>4, <1>6, <2>2, <2>3, <2>4, MemberWritten DEF UsersKept
<1> QED
  BY <1>3, <1>6, <1>7, AccountsWritten

LEMMA DisableMemberKeeps ==
  ASSUME IInv, NEW r \in Requests, DisableMember(r)
  PROVE  IInv'
<1>1. PICK c \in Call : c = call[r]
  BY CallFacts
<1>2. /\ c.user \in Users /\ c.ws \in Workspaces /\ Fits(c) /\ c.at = "disable"
      /\ NotOwner(c.user, c.ws) /\ IsMember(c.user, c.ws)
  BY <1>1, CallFacts DEF DisableMember, Fits
<1>3. UNCHANGED <<users, founder, crossed, invites, tokens, planVars, ops>>
  BY DEF DisableMember
<1>4. MembersKept
  <2>1. PICK x \in Member : x = members[c.user][c.ws]
    BY <1>2 DEF IInv, IdentityTypeOK
  <2> DEFINE m == [x EXCEPT !.active = FALSE]
  <2>2. m \in Member /\ m.role = x.role /\ m.role # Nothing
    BY <1>2, <2>1 DEF Member, IsMember
  <2>3. members' = [members EXCEPT ![c.user] = [members[c.user] EXCEPT ![c.ws] = m]]
    BY <1>1, <1>2, <2>1 DEF DisableMember, IInv, IdentityTypeOK
  <2>4. Proper(c.user, c.ws, x.role)
    BY <1>2, <2>1 DEF IInv, Tables, OwnersStay, Proper, NotOwner
  <2> HIDE DEF m
  <2> QED
    BY <1>2, <1>3, <2>2, <2>3, <2>4, MemberWritten DEF NotOwner
<1>5. AccountsKept
  BY <1>3, <1>4, UsersUntouched, BothKept
<1>6. RowsKept
  BY <1>3, <1>5, RevokedKept, InvitesUntouched, TokensUntouched DEF RowsKept, DisableMember
<1>7. PICK d \in Call : d = [c EXCEPT !.at = "home"] /\ call' = [call EXCEPT ![r] = d]
  BY <1>1, GoesTo DEF DisableMember, Step
<1>8. Fits(d)
  BY <1>2, <1>7 DEF Call, Fits
<1> QED
  BY <1>3, <1>6, <1>7, <1>8, BecomesWriting

LEMMA RealignUserKeeps ==
  ASSUME IInv, NEW r \in Requests, RealignUser(r)
  PROVE  IInv'
<1>1. PICK c \in Call : c = call[r]
  BY CallFacts
<1>2. /\ c.user \in Users /\ c.home \in Workspaces /\ c.role \in Role
      /\ Proper(c.user, c.home, c.role)
  BY <1>1, CallFacts DEF RealignUser, Fits
<1>3. Ends(r) /\ UNCHANGED <<members, founder, crossed, secretVars, planVars, ops>>
  BY DEF RealignUser
<1>4. PICK u \in User : u = users[c.user]
  BY <1>2 DEF IInv, IdentityTypeOK
<1> DEFINE x == [u EXCEPT !.home = c.home, !.role = c.role]
<1>5. x \in User /\ x.made = u.made /\ x.home = c.home /\ x.role = c.role
  BY <1>2 DEF User
<1>6. users' = [users EXCEPT ![c.user] = x]
  BY <1>1, <1>4 DEF RealignUser
<1> HIDE DEF x
<1> QED
  BY <1>2, <1>3, <1>4, <1>5, <1>6, UserWritten, MembersUntouched, AccountsWritten

LEMMA EnableMemberKeeps ==
  ASSUME IInv, NEW r \in Requests, EnableMember(r)
  PROVE  IInv'
<1>1. PICK c \in Call : c = call[r]
  BY CallFacts
<1>2. c.user \in Users /\ c.ws \in Workspaces /\ IsMember(c.user, c.ws)
  BY <1>1, CallFacts DEF EnableMember, Fits
<1>3. Ends(r) /\ UNCHANGED <<users, founder, crossed, secretVars, planVars, ops>>
  BY DEF EnableMember
<1>4. PICK x \in Member : x = members[c.user][c.ws]
  BY <1>2 DEF IInv, IdentityTypeOK
<1> DEFINE m == [x EXCEPT !.active = TRUE]
<1>5. m \in Member /\ m.role = x.role /\ m.role # Nothing /\ m.active
  BY <1>2, <1>4 DEF Member, IsMember
<1>6. members' = [members EXCEPT ![c.user] = [members[c.user] EXCEPT ![c.ws] = m]]
  BY <1>1, <1>2, <1>4 DEF EnableMember, IInv, IdentityTypeOK
<1>7. Proper(c.user, c.ws, x.role)
  BY <1>2, <1>4 DEF IInv, Tables, OwnersStay, MembersBelong, Proper
<1> HIDE DEF m
<1>8. MembersKept
  BY <1>2, <1>3, <1>5, <1>6, <1>7, MemberWritten
<1> QED
  BY <1>3, <1>8, UsersUntouched, AccountsWritten

LEMMA AnonymizeMemberKeeps ==
  ASSUME IInv, NEW r \in Requests, AnonymizeMember(r)
  PROVE  IInv'
<1>1. PICK c \in Call : c = call[r]
  BY CallFacts
<1>2. c.user \in Users
  BY <1>1, CallFacts
<1>3. Ends(r) /\ UNCHANGED <<members, founder, crossed, planVars, ops>>
  BY DEF AnonymizeMember
<1>4. PICK u \in User : u = users[c.user]
  BY <1>2 DEF IInv, IdentityTypeOK
<1>5. /\ Redacted(u) \in User /\ Redacted(u).made = u.made
      /\ Redacted(u).home = u.home /\ Redacted(u).role = u.role
  BY DEF Redacted, User
<1>6. users' = [users EXCEPT ![c.user] = Redacted(u)]
  BY <1>1, <1>4 DEF AnonymizeMember
<1>7. u.made => Proper(c.user, u.home, u.role)
  BY <1>2, <1>4 DEF IInv, Tables, HomesAgree
<1>8. AccountsKept
  BY <1>2, <1>3, <1>4, <1>5, <1>6, <1>7, UserWritten, MembersUntouched, BothKept
<1>9. SessionsKept
  BY <1>1, <1>8, RevokedKept DEF AnonymizeMember
<1>10. TokensKept
  <2>1. ASSUME NEW k \in Kind
        PROVE  tokens'[k] \in [Users -> Token]
    <3>1. tokens'[k] = tokens[k] \/ tokens'[k] = [tokens[k] EXCEPT ![c.user].fresh = {}]
      BY <1>1, <2>1 DEF AnonymizeMember
    <3>2. [tokens[k][c.user] EXCEPT !.fresh = {}] \in Token
      BY <1>2, <2>1, TokenFacts DEF Token
    <3> QED
      BY <1>2, <2>1, <3>1, <3>2, TokenFacts
  <2>2. tokens' = [k \in Kind |-> tokens'[k]]
    BY DEF AnonymizeMember
  <2> QED
    BY <2>1, <2>2 DEF TokensKept
<1>11. InvitesKept
  <2>1. ASSUME NEW i \in Invites
        PROVE  /\ invites'[i] \in Invite
               /\ invites'[i].made = invites[i].made /\ invites'[i].user = invites[i].user
               /\ invites'[i].ws = invites[i].ws /\ invites'[i].role = invites[i].role
    <3>1. PICK x \in Invite : x = invites[i]
      BY DEF IInv, IdentityTypeOK
    <3>2. invites'[i] = x \/ invites'[i] = [x EXCEPT !.revoked = TRUE]
      BY <3>1 DEF AnonymizeMember
    <3>3. CASE invites'[i] = x
      BY <3>1, <3>3
    <3>4. CASE invites'[i] = [x EXCEPT !.revoked = TRUE]
      BY <3>1, <3>4 DEF Invite
    <3> QED BY <3>2, <3>3, <3>4
  <2>2. invites' \in [Invites -> Invite]
    BY <2>1 DEF AnonymizeMember
  <2>3. InvitesFit'
    BY <1>3, <2>1 DEF InvitesFit, Foreign, IInv, Tables
  <2> QED
    BY <2>2, <2>3 DEF InvitesKept
<1> QED
  BY <1>3, <1>8, <1>9, <1>10, <1>11, EndsWriting DEF RowsKept

-----------------------------------------------------------------------------
(* The invariant                                                           *)

\* The plan seats the founder and the guests, one at least.
LEMMA SeatsFit ==
  ASSUME NEW guests \in SUBSET (Users \ {Founder}),
         seats \in Cardinality(guests \cup {Founder})..MaxSeats
  PROVE  seats \in 1..MaxSeats
<1>1. IsFiniteSet(guests \cup {Founder})
  BY FS_Subset
<1>2. Cardinality(guests \cup {Founder}) \in Nat
  BY <1>1, FS_CardinalityType
<1>3. Cardinality(guests \cup {Founder}) # 0
  BY <1>1, FS_EmptySet
<1> QED
  BY <1>2, <1>3

\* A sign-up token from a provider is the only one there may be at first.
LEMMA InitialTokens ==
  ASSUME IdentityInit
  PROVE  /\ tokens \in [Kind -> [Users -> Token]]
         /\ \A k \in Kind, u \in Users :
              /\ tokens[k][u].used = 0
              /\ \/ tokens[k][u].made = 0 /\ tokens[k][u].fresh = {}
                 \/ k = "signup" /\ tokens[k][u].made = 1 /\ tokens[k][u].fresh = {1}
<1>1. PICK came \in SUBSET (Users \ {Founder}) :
        tokens = [k \in Kind |-> [u \in Users |->
          IF k = "signup" /\ u \in came THEN FirstToken ELSE NoToken]]
  BY DEF IdentityInit
<1>2. NoToken \in Token /\ NoToken.made = 0 /\ NoToken.fresh = {} /\ NoToken.used = 0
  BY DEF NoToken, Token
<1>3. /\ FirstToken \in Token
      /\ FirstToken.made = 1 /\ FirstToken.fresh = {1} /\ FirstToken.used = 0
  BY DEF FirstToken, Token
<1> QED
  BY <1>1, <1>2, <1>3

LEMMA InitHolds ==
  IdentityInit => IInv
<1> SUFFICES ASSUME IdentityInit PROVE IInv
  OBVIOUS
<1>1. PICK sites \in (SUBSET Workspaces) \ {{}}, guests \in SUBSET (Users \ {Founder}),
           given \in Grantable :
        \E home \in [Users -> sites] : FirstAccounts(sites, guests, given, home)
  BY DEF IdentityInit
<1>2. PICK home \in [Users -> sites] : FirstAccounts(sites, guests, given, home)
  BY <1>1
<1>3. Somewhere \in Workspaces
  BY DEF Somewhere
<1>4. ASSUME NEW u \in Users
      PROVE  /\ users[u] \in User
             /\ users[u].made => /\ u \in guests \cup {Founder} /\ users[u].home \in sites
                                 /\ users[u].role = RoleOf(u, given)
  <2>1. NoUser \in User /\ ~NoUser.made
    BY <1>3 DEF NoUser, User, Role
  <2>2. CASE u \in guests \cup {Founder}
    <3>1. users[u] = [NoUser EXCEPT !.made = TRUE, !.home = home[u],
                        !.role = RoleOf(u, given), !.secret = TRUE]
      BY <1>2, <2>2 DEF FirstAccounts
    <3>2. home[u] \in sites /\ home[u] \in Workspaces /\ RoleOf(u, given) \in Role
      BY <1>2 DEF Role, RoleOf
    <3> QED
      BY <2>2, <3>1, <3>2, ZenonT(60) DEF NoUser, User
  <2>3. CASE u \notin guests \cup {Founder}
    BY <1>2, <2>1, <2>3 DEF FirstAccounts
  <2> QED BY <2>2, <2>3
<1>5. ASSUME NEW u \in Users, NEW w \in Workspaces
      PROVE  /\ members[u][w] \in Member
             /\ IF u \in guests \cup {Founder} /\ w \in sites
                  THEN members[u][w].role = RoleOf(u, given) /\ members[u][w].active
                  ELSE members[u][w].role = Nothing /\ ~members[u][w].active
  <2>1. CASE u \in guests \cup {Founder} /\ w \in sites
    <3>1. members[u][w] = [role |-> RoleOf(u, given), active |-> TRUE]
      BY <1>2, <2>1 DEF FirstAccounts
    <3>2. RoleOf(u, given) \in Role
      BY DEF RoleOf, Role
    <3> QED
      BY <2>1, <3>1, <3>2 DEF Member
  <2>2. CASE ~(u \in guests \cup {Founder} /\ w \in sites)
    <3>1. members[u][w] = NoMember
      BY <1>2, <2>2 DEF FirstAccounts
    <3> QED
      BY <2>2, <3>1 DEF NoMember, Member
  <2> QED BY <2>1, <2>2
<1>6. \A w \in Workspaces : founder[w] = IF w \in sites THEN Founder ELSE Nothing
  BY <1>2 DEF FirstAccounts
<1>7. /\ sessions = [s \in Sessions |-> NoSession]
      /\ invites = [i \in Invites |-> NoInvite]
      /\ call = [r \in Requests |-> Idle]
      /\ width \in 1..MaxInFlight /\ ops = 0 /\ crossed = {}
  BY DEF IdentityInit
<1>8. /\ NoSession \in Session /\ ~NoSession.live /\ ~NoSession.made
      /\ NoInvite \in Invite /\ ~NoInvite.made
  BY <1>3 DEF NoSession, Session, NoInvite, Invite, Role
<1>9. TableTypes
  <2>1. users \in [Users -> User]
    BY <1>2, <1>4 DEF FirstAccounts
  <2>2. members \in [Users -> [Workspaces -> Member]]
    <3>1. \A u \in Users, w \in Workspaces : members[u][w] \in Member
      BY <1>5
    <3> QED
      BY <1>2, <3>1 DEF FirstAccounts
  <2>3. founder \in [Workspaces -> Users \cup {Nothing}]
    BY <1>2 DEF FirstAccounts
  <2>4. tokens \in [Kind -> [Users -> Token]]
    BY InitialTokens
  <2> QED
    BY <1>7, <1>8, <2>1, <2>2, <2>3, <2>4 DEF TableTypes
<1>10. seats \in 1..MaxSeats
  BY <1>2, SeatsFit DEF FirstAccounts
<1>11. call \in [Requests -> Call]
  BY <1>7, IdleFits
<1>12. ops \in 0..MaxOps
  BY <1>7
<1>13. IdentityTypeOK
  BY <1>7, <1>9, <1>10, <1>11, <1>12 DEF IdentityTypeOK, TableTypes
<1>14. OwnersStay
  <2> SUFFICES ASSUME NEW w \in Workspaces, NEW u \in Users
               PROVE  /\ members[u][w].role = "owner" => founder[w] = u
                      /\ founder[w] = u => members[u][w].role = "owner" /\ members[u][w].active
    BY DEF OwnersStay
  <2>1. CASE u \in guests \cup {Founder} /\ w \in sites
    BY <1>5, <1>6, <2>1 DEF RoleOf
  <2>2. CASE ~(u \in guests \cup {Founder} /\ w \in sites)
    <3>1. members[u][w].role = Nothing
      BY <1>5, <2>2
    <3>2. founder[w] # u
      BY <1>6, <2>2
    <3> QED BY <3>1, <3>2
  <2> QED BY <2>1, <2>2
<1>15. HomesAgree
  <2> SUFFICES ASSUME NEW u \in Users, users[u].made
               PROVE  Proper(u, users[u].home, users[u].role)
    BY DEF HomesAgree
  <2>1. users[u].home \in sites /\ users[u].role = RoleOf(u, given)
    BY <1>4
  <2>2. founder[users[u].home] = Founder
    BY <1>6, <2>1
  <2> QED
    BY <2>1, <2>2 DEF Proper, RoleOf
<1>16. MembersBelong
  BY <1>5, <1>6 DEF MembersBelong, IsMember, RoleOf
<1>17. SessionsFit /\ InvitesFit
  BY <1>7, <1>8 DEF SessionsFit, InvitesFit
<1>18. CallsFit
  BY <1>7, IdleFits DEF CallsFit
<1> QED
  BY <1>9, <1>13, <1>14, <1>15, <1>16, <1>17, <1>18 DEF IInv, Tables

LEMMA NextKeepsInv ==
  IInv /\ [IdentityNext]_identityVars => IInv'
<1> SUFFICES ASSUME IInv, [IdentityNext]_identityVars PROVE IInv'
  OBVIOUS
<1>1. CASE InviteExpires
  BY <1>1, InviteExpiresKeeps
<1>2. ASSUME NEW r \in Requests, SessionStep(r) PROVE IInv'
  BY <1>2, FindSessionKeeps, EnsurePrimaryMembershipKeeps, AdmitSessionKeeps, FindTargetKeeps,
     MoveSessionKeeps, FindSessionAgainKeeps, LogoutKeeps, RecogniseKeeps, PickWorkspaceKeeps,
     EnterKeeps DEF SessionStep
<1>3. ASSUME NEW r \in Requests, TokenStep(r) PROVE IInv'
  BY <1>3, RequestTokenKeeps, FindTokensKeeps, IssueTokenKeeps, FindTokenKeeps,
     RedeemTokenKeeps, FindAddressFreeKeeps, FindOwnerKeeps, FoundWorkspaceKeeps DEF TokenStep
<1>4. ASSUME NEW r \in Requests, InviteStep(r) PROVE IInv'
  BY <1>4, CheckNoMemberKeeps, CheckNoInviteKeeps, CreateInviteKeeps, FindInviteKeeps,
     RevokeInviteKeeps, FindInvitedKeeps, AcceptInviteKeeps DEF InviteStep
<1>5. ASSUME NEW r \in Requests, AdminStep(r) PROVE IInv'
  BY <1>5, CheckHireKeeps, FindHiredKeeps, CreateMemberKeeps, AdministerKeeps,
     LockMemberKeeps, UpdateMemberKeeps,
     DisableMemberKeeps, FindHomeKeeps, FindNextHomeKeeps, RealignUserKeeps, CheckSeatKeeps,
     EnableMemberKeeps, AnonymizeMemberKeeps DEF AdminStep
<1>6. CASE UNCHANGED identityVars
  <2>1. UNCHANGED <<accountVars, secretVars, call, planVars, ops>>
    BY <1>6 DEF identityVars, accountVars, secretVars, planVars
  <2>2. Tables' /\ IdentityTypeOK'
    BY <2>1, QuietStep DEF IInv, Tables, TableTypes, IdentityTypeOK, planVars
  <2>3. CallsFit'
    BY <2>1 DEF IInv, CallsFit, Fits, OfSession, Proper, Foreign, NotOwner, IsMember, accountVars, secretVars
  <2> QED
    BY <2>2, <2>3 DEF IInv
<1> QED
  BY <1>1, <1>2, <1>3, <1>4, <1>5, <1>6 DEF IdentityNext

LEMMA InvHolds ==
  IdentitySpec => []IInv
BY InitHolds, NextKeepsInv, PTL DEF IdentitySpec

-----------------------------------------------------------------------------

\* The tables keep their shape through every handler, whatever overlaps.
THEOREM IdentityTypeCorrect == IdentitySpec => []IdentityTypeOK
<1>1. IInv => IdentityTypeOK
  BY DEF IInv
<1> QED
  BY <1>1, InvHolds, PTL

\* Nobody but the one who made a workspace ever is its owner, and the founder
\* stays owner and active there, whichever lookups, sign-ups, invites and changes
\* of members overlap; but for the founder whose role an administrator changed
\* elsewhere, with the home read before the default workspace moved and the role
\* written after it.
THEOREM OwnersAreKept == IdentitySpec => []OwnersStay
<1>1. IInv => OwnersStay
  BY DEF IInv, Tables
<1> QED
  BY <1>1, InvHolds, PTL
-----------------------------------------------------------------------------
(* How often what was mailed is used, and how many seats are taken.  A     *)
(* request that has passed the check of a token, of an invite or of the    *)
(* seats counts as if it had done already what it may yet do.              *)

Redeeming(k, u) ==
  {r \in Requests :
     call[r].at \in {"redeem", "found", "settle"} /\ call[r].item = k /\ call[r].user = u}
RedeemingOld(k, u) == {r \in Redeeming(k, u) : call[r].seen \notin tokens[k][u].fresh}
Accepting(i) == {r \in Requests : call[r].at \in {"invited", "accept"} /\ call[r].item = i}
Adding(w) == {r \in Requests : call[r].at \in {"hire", "join", "enable"} /\ call[r].ws = w}
Invited(w) ==
  {u \in Users : \E i \in Invites :
     invites[i].used > 0 /\ invites[i].user = u /\ invites[i].ws = w}
Seated(w) == Active(w) \ Invited(w)

\* A token that is fresh may yet be used by width requests, one that is not by
\* those that found it fresh.
TokenLeft(k, u) ==
  /\ tokens[k][u].fresh \subseteq 1..tokens[k][u].made
  /\ tokens[k][u].used + Cardinality(RedeemingOld(k, u)) + Cardinality(tokens[k][u].fresh) * width
       <= tokens[k][u].made * width
InviteLeft(i) ==
  invites[i].used > 0 =>
    invites[i].made /\ invites[i].used + Cardinality(Accepting(i)) <= width
SeatLeft(w) == Cardinality(Seated(w)) + Cardinality(Adding(w)) <= seats + width - 1

\* An account is a member at home, and a request knows whose its invite is.
HomesJoined == \A u \in Users : users[u].made => IsMember(u, users[u].home)
OfInvite(c) ==
  invites[c.item].made /\ invites[c.item].user = c.user /\ invites[c.item].ws = c.ws
Knows(c) ==
  /\ c.at \in {"upsert", "realign"} => IsMember(c.user, c.home)
  /\ c.at \in {"revoke", "invited", "accept"} => OfInvite(c)

CInv ==
  /\ Cardinality(Running) <= width
  /\ HomesJoined
  /\ \A r \in Requests : Knows(call[r])
  /\ \A k \in Kind, u \in Users : TokenLeft(k, u)
  /\ \A i \in Invites : InviteLeft(i)
  /\ \A w \in Workspaces : SeatLeft(w)

-----------------------------------------------------------------------------
(* One request at a time: what it has read is still so.                    *)

Current(c) ==
  /\ c.at \in {"upsert", "pick", "enter"} /\ c.item \notin Sessions =>
       c.seen = Resets(c.user) /\ ~users[c.user].redacted
  /\ c.at = "upsert" => c.role = users[c.user].role /\ c.home = users[c.user].home
  /\ c.at = "realign" => c.role = members[c.user][c.home].role
  /\ c.at = "enter" => members[c.user][c.ws].active /\ c.item \notin Sessions
  /\ c.at = "pick" => c.item \notin Sessions
  /\ c.at = "move" => members[c.user][c.to].active
  /\ c.at \in {"issue", "mail", "found"} /\ c.item # "signup" => ~users[c.user].redacted
  /\ c.at \in {"redeem", "settle", "open", "invite", "accept", "join"} => ~users[c.user].redacted
  /\ c.at = "join" /\ c.met = "home" => users[c.user].home = c.ws
  /\ c.at = "rerole" => (c.met = "home") = (users[c.user].home = c.ws)
  /\ c.at = "redact" => users[c.user].made

HomeRole(u) ==
  users[u].made =>
    \/ users[u].role = members[u][users[u].home].role
    \/ \E i \in Invites : invites[i].used > 0 /\ invites[i].user = u
Entitled(s) ==
  sessions[s].live =>
    /\ members[sessions[s].user][sessions[s].ws].active
    /\ sessions[s].resets = Resets(sessions[s].user)
    /\ ~users[sessions[s].user].redacted
NothingLeft(u) ==
  users[u].redacted =>
    /\ users[u].made /\ ~users[u].linked /\ ~users[u].secret
    /\ tokens["reset"][u].fresh = {} /\ tokens["verify"][u].fresh = {}
    /\ \A w \in Workspaces : OpenInvites(u, w) = {}

SInv ==
  width = 1 =>
    /\ \A r \in Requests : Current(call[r])
    /\ \A u \in Users : HomeRole(u) /\ NothingLeft(u)
    /\ \A s \in Sessions : Entitled(s)
-----------------------------------------------------------------------------
(* One request moves, and the requests of a kind are one more or one less  *)

Moves(r) ==
  /\ \A q \in Requests \ {r} : call'[q] = call[q]
  /\ Cardinality(Running) < width \/ call[r].at # "idle" \/ call'[r].at = "idle"
  /\ UNCHANGED planVars

LEMMA RequestsFinite ==
  ASSUME NEW S \in SUBSET Requests
  PROVE  IsFiniteSet(S) /\ Cardinality(S) \in Nat
BY FS_Subset, FS_CardinalityType

LEMMA OneMoves ==
  ASSUME NEW S \in SUBSET Requests, NEW T \in SUBSET Requests, NEW r \in Requests,
         \A q \in T : q # r => q \in S
  PROVE  /\ Cardinality(T) <= Cardinality(S) + 1
         /\ r \in S \/ r \notin T => Cardinality(T) <= Cardinality(S)
         /\ r \in S /\ r \notin T => Cardinality(T) + 1 <= Cardinality(S)
<1>1. /\ IsFiniteSet(S) /\ Cardinality(S) \in Nat
      /\ IsFiniteSet(T) /\ Cardinality(T) \in Nat
  BY RequestsFinite
<1>2. Cardinality(T) <= Cardinality(S) + 1
  <2>1. /\ IsFiniteSet(S \cup {r})
        /\ Cardinality(S \cup {r}) = Cardinality(S) \/ Cardinality(S \cup {r}) = Cardinality(S) + 1
    BY <1>1, FS_AddElement
  <2>2. T \subseteq S \cup {r}
    OBVIOUS
  <2>3. Cardinality(T) <= Cardinality(S \cup {r}) /\ Cardinality(S \cup {r}) \in Nat
    BY <2>1, <2>2, FS_Subset, FS_CardinalityType
  <2> QED BY <1>1, <2>1, <2>3
<1>3. r \in S \/ r \notin T => Cardinality(T) <= Cardinality(S)
  <2>1. r \in S \/ r \notin T => T \subseteq S
    OBVIOUS
  <2> QED BY <1>1, <2>1, FS_Subset
<1>4. ASSUME r \in S, r \notin T PROVE Cardinality(T) + 1 <= Cardinality(S)
  <2>1. IsFiniteSet(S \ {r}) /\ Cardinality(S \ {r}) = Cardinality(S) - 1
    BY <1>1, <1>4, FS_RemoveElement
  <2>2. T \subseteq S \ {r}
    BY <1>4
  <2>3. Cardinality(T) <= Cardinality(S \ {r})
    BY <2>1, <2>2, FS_Subset
  <2> QED BY <1>1, <2>1, <2>3
<1> QED
  BY <1>2, <1>3, <1>4

LEMMA StartsMoves ==
  ASSUME IInv, NEW r \in Requests, NEW c, Starts(r, c), UNCHANGED planVars
  PROVE  Moves(r) /\ call'[r] = c /\ call[r].at = "idle"
BY CallFacts DEF Starts, Moves

LEMMA EndsMoves ==
  ASSUME IInv, NEW r \in Requests, Ends(r), UNCHANGED planVars
  PROVE  Moves(r) /\ call'[r] = Idle /\ call'[r].at = "idle"
BY CallFacts DEF Ends, Moves, Idle

LEMMA BecomesMoves ==
  ASSUME IInv, NEW r \in Requests, NEW c, call' = [call EXCEPT ![r] = c], UNCHANGED planVars,
         call[r].at # "idle"
  PROVE  Moves(r) /\ call'[r] = c
BY CallFacts DEF Moves

LEMMA GoesMoves ==
  ASSUME IInv, NEW r \in Requests, NEW to, Goes(r, to), UNCHANGED planVars, call[r].at # "idle"
  PROVE  /\ Moves(r) /\ call'[r].at = to
         /\ call'[r].user = call[r].user /\ call'[r].ws = call[r].ws
         /\ call'[r].home = call[r].home /\ call'[r].role = call[r].role
         /\ call'[r].item = call[r].item /\ call'[r].seen = call[r].seen
         /\ call'[r].to = call[r].to
<1>1. call[r] \in Call /\ call' = [call EXCEPT ![r] = [call[r] EXCEPT !.at = to]]
  BY CallFacts DEF Goes
<1>2. Moves(r) /\ call'[r] = [call[r] EXCEPT !.at = to]
  BY <1>1, BecomesMoves
<1> QED
  BY <1>1, <1>2 DEF Call

LEMMA RunningStays ==
  ASSUME IInv, CInv, NEW r \in Requests, Moves(r)
  PROVE  (Cardinality(Running) <= width)'
<1>1. Running \in SUBSET Requests /\ Running' \in SUBSET Requests
  BY DEF Running
<1>2. \A q \in Running' : q # r => q \in Running
  BY DEF Running, Moves
<1>3. Cardinality(Running) \in Nat /\ Cardinality(Running') \in Nat
  BY <1>1, RequestsFinite
<1>4. /\ Cardinality(Running') <= Cardinality(Running) + 1
      /\ r \in Running \/ r \notin Running' => Cardinality(Running') <= Cardinality(Running)
  BY <1>1, <1>2, OneMoves
<1>5. Cardinality(Running) < width \/ r \in Running \/ r \notin Running'
  BY DEF Moves, Running
<1>6. width \in Nat /\ width' = width /\ Cardinality(Running) <= width
  BY DEF CInv, IInv, IdentityTypeOK, Moves, planVars
<1> QED
  BY <1>3, <1>4, <1>5, <1>6

\* Requests of one kind are at most as many as run at all.
LEMMA FewerThanRun ==
  ASSUME IInv, CInv, NEW S \in SUBSET Running
  PROVE  Cardinality(S) \in Nat /\ Cardinality(S) <= width
<1>1. Running \in SUBSET Requests
  BY DEF Running
<1>2. IsFiniteSet(Running) /\ Cardinality(Running) \in Nat
  BY <1>1, RequestsFinite
<1>3. Cardinality(S) <= Cardinality(Running) /\ IsFiniteSet(S)
  BY <1>2, FS_Subset
<1>4. Cardinality(S) \in Nat
  BY <1>3, FS_CardinalityType
<1> QED
  BY <1>2, <1>3, <1>4 DEF CInv, IInv, IdentityTypeOK
-----------------------------------------------------------------------------
(* The counts, table by table                                              *)

LEMMA WidthFacts ==
  ASSUME IInv
  PROVE  /\ width \in Nat /\ seats \in Nat /\ width >= 1 /\ seats >= 1
BY DEF IInv, IdentityTypeOK

LEMMA Times ==
  ASSUME NEW m \in Nat, NEW n \in Nat
  PROVE  m * n \in Nat /\ (m + 1) * n = m * n + n
OBVIOUS

LEMMA TimesGrows ==
  ASSUME NEW l \in Nat, NEW m \in Nat, NEW n \in Nat, l <= m
  PROVE  l * n <= m * n
<1>1. PICK d \in Nat : m = l + d
  <2>1. m - l \in Nat /\ m = l + (m - l)
    OBVIOUS
  <2> QED BY <2>1
<1>2. m * n = l * n + d * n /\ d * n \in Nat /\ l * n \in Nat
  BY <1>1
<1> QED
  BY <1>2

\* Each element that leaves F makes up for n.
LEMMA FewerLeft ==
  ASSUME NEW F, IsFiniteSet(F), NEW G \in SUBSET F,
         NEW n \in Nat, NEW o \in Nat, NEW p \in Nat, p <= n, G = F => p <= o
  PROVE  /\ Cardinality(F) \in Nat /\ IsFiniteSet(G) /\ Cardinality(G) \in Nat
         /\ p + Cardinality(G) * n <= o + Cardinality(F) * n
<1>1. IsFiniteSet(G) /\ Cardinality(F) \in Nat /\ Cardinality(G) \in Nat
  BY FS_Subset, FS_CardinalityType
<1>2. CASE G = F
  BY <1>1, <1>2, Times
<1>3. CASE G # F
  <2>1. PICK x \in F : x \notin G
    BY <1>3
  <2>2. IsFiniteSet(F \ {x}) /\ Cardinality(F \ {x}) = Cardinality(F) - 1
    BY <2>1, FS_RemoveElement
  <2>3. G \subseteq F \ {x}
    BY <2>1
  <2>4. Cardinality(G) <= Cardinality(F) - 1
    BY <2>2, <2>3, FS_Subset
  <2>5. PICK a \in Nat, b \in Nat : a = Cardinality(G) /\ b = Cardinality(F)
    BY <1>1
  <2>6. (a + 1) * n <= b * n
    BY <1>1, <2>4, <2>5, TimesGrows
  <2>7. (a + 1) * n = a * n + n /\ a * n \in Nat /\ b * n \in Nat
    BY <2>5, Times
  <2>8. p + a * n <= o + b * n
    BY <2>6, <2>7
  <2> QED
    BY <1>1, <2>5, <2>8
<1> QED
  BY <1>1, <1>2, <1>3

LEMMA TokenCounts ==
  ASSUME IInv, CInv, NEW k \in Kind, NEW u \in Users
  PROVE  /\ tokens[k][u].made \in Nat /\ tokens[k][u].used \in Nat
         /\ tokens[k][u].fresh \subseteq 1..tokens[k][u].made
         /\ IsFiniteSet(tokens[k][u].fresh)
         /\ Cardinality(RedeemingOld(k, u)) \in Nat
<1>1. tokens[k][u].made \in Nat /\ tokens[k][u].used \in Nat
  BY TokenFacts
<1>2. tokens[k][u].fresh \subseteq 1..tokens[k][u].made
  BY DEF CInv, TokenLeft
<1>3. IsFiniteSet(1..tokens[k][u].made)
  BY <1>1, FS_Interval
<1>4. RedeemingOld(k, u) \in SUBSET Requests
  BY DEF RedeemingOld, Redeeming
<1> QED
  BY <1>1, <1>2, <1>3, <1>4, FS_Subset, RequestsFinite

\* Of the fresh tokens at least those in G stay.
LEMMA FreshLeft ==
  ASSUME IInv, CInv, NEW r \in Requests, Moves(r), NEW k \in Kind, NEW u \in Users,
         NEW G \in SUBSET tokens[k][u].fresh, G \subseteq tokens'[k][u].fresh,
         r \in Redeeming(k, u)' =>
           \/ r \in Redeeming(k, u) /\ call'[r].seen = call[r].seen
           \/ call'[r].seen \in tokens'[k][u].fresh
  PROVE  /\ Cardinality(tokens[k][u].fresh) \in Nat
         /\ IsFiniteSet(G) /\ Cardinality(G) \in Nat
         /\ Cardinality(RedeemingOld(k, u)') \in Nat
         /\ Cardinality(RedeemingOld(k, u)') + Cardinality(G) * width
              <= Cardinality(RedeemingOld(k, u)) + Cardinality(tokens[k][u].fresh) * width
<1>1. /\ RedeemingOld(k, u) \in SUBSET Requests /\ RedeemingOld(k, u)' \in SUBSET Requests
      /\ RedeemingOld(k, u)' \subseteq Running' /\ Running' \in SUBSET Requests
  BY DEF Redeeming, RedeemingOld, Running
<1>2. /\ Cardinality(RedeemingOld(k, u)) \in Nat /\ Cardinality(RedeemingOld(k, u)') \in Nat
      /\ IsFiniteSet(Running') /\ Cardinality(Running') \in Nat
  BY <1>1, RequestsFinite
<1>3. Cardinality(RedeemingOld(k, u)') <= width
  <2>1. Cardinality(RedeemingOld(k, u)') <= Cardinality(Running')
    BY <1>1, <1>2, FS_Subset
  <2>2. Cardinality(Running') <= width
    BY RunningStays DEF Moves, planVars
  <2> QED
    BY <1>2, <2>1, <2>2, WidthFacts
<1>4. ASSUME G = tokens[k][u].fresh
      PROVE  Cardinality(RedeemingOld(k, u)') <= Cardinality(RedeemingOld(k, u))
  <2>1. /\ \A q \in RedeemingOld(k, u)' : q # r => q \in RedeemingOld(k, u)
        /\ r \in RedeemingOld(k, u)' => r \in RedeemingOld(k, u)
    BY <1>4 DEF Redeeming, RedeemingOld, Moves
  <2> QED
    BY <1>1, <2>1, OneMoves
<1>5. IsFiniteSet(tokens[k][u].fresh) /\ width \in Nat
  BY TokenCounts, WidthFacts
<1> QED
  BY <1>2, <1>3, <1>4, <1>5, FewerLeft

\* The request comes to hold no token but a fresh one: TokenLeft stays.
LEMMA TokenKept ==
  ASSUME IInv, CInv, NEW r \in Requests, Moves(r), NEW k \in Kind, NEW u \in Users,
         r \in Redeeming(k, u)' =>
           \/ r \in Redeeming(k, u) /\ call'[r].seen = call[r].seen
           \/ call'[r].seen \in tokens'[k][u].fresh,
         tokens'[k][u].made = tokens[k][u].made, tokens'[k][u].used = tokens[k][u].used,
         tokens'[k][u].fresh \subseteq tokens[k][u].fresh
  PROVE  TokenLeft(k, u)'
<1>1. PICK G : G = tokens'[k][u].fresh
  OBVIOUS
<1>2. /\ Cardinality(tokens[k][u].fresh) \in Nat
      /\ Cardinality(G) \in Nat
      /\ Cardinality(RedeemingOld(k, u)') \in Nat
      /\ Cardinality(RedeemingOld(k, u)') + Cardinality(G) * width
           <= Cardinality(RedeemingOld(k, u)) + Cardinality(tokens[k][u].fresh) * width
  BY <1>1, FreshLeft
<1>3. TokenLeft(k, u) /\ width \in Nat /\ width' = width
  BY WidthFacts DEF CInv, Moves, planVars
<1>4. /\ Cardinality(G) * width \in Nat
      /\ Cardinality(tokens[k][u].fresh) * width \in Nat /\ tokens[k][u].made * width \in Nat
  BY <1>2, <1>3, TokenCounts, Times
<1>5. tokens[k][u].used + Cardinality(RedeemingOld(k, u)') + Cardinality(G) * width
        <= tokens[k][u].made * width
  BY <1>2, <1>3, <1>4, TokenCounts DEF TokenLeft
<1>6. tokens'[k][u].fresh \subseteq 1..tokens'[k][u].made
  BY TokenCounts
<1> QED
  BY <1>1, <1>3, <1>5, <1>6 DEF TokenLeft

LEMMA TokensKeptLeft ==
  ASSUME IInv, CInv, NEW r \in Requests, Moves(r), UNCHANGED tokens,
         call'[r].at \in {"redeem", "found", "settle"} =>
           \/ call'[r].item \notin Kind
           \/ r \in Redeeming(call'[r].item, call'[r].user) /\ call'[r].seen = call[r].seen
  PROVE  \A k \in Kind, u \in Users : TokenLeft(k, u)'
<1> SUFFICES ASSUME NEW k \in Kind, NEW u \in Users PROVE TokenLeft(k, u)'
  OBVIOUS
<1>1. r \in Redeeming(k, u)' => r \in Redeeming(k, u) /\ call'[r].seen = call[r].seen
  BY DEF Redeeming
<1> QED
  BY <1>1, TokenKept

LEMMA InviteKept ==
  ASSUME IInv, CInv, NEW r \in Requests, Moves(r), NEW i \in Invites,
         r \in Accepting(i)' => r \in Accepting(i),
         invites'[i].used = invites[i].used, invites[i].made => invites'[i].made
  PROVE  InviteLeft(i)'
<1>1. Accepting(i) \in SUBSET Requests /\ Accepting(i)' \in SUBSET Requests
  BY DEF Accepting
<1>2. \A q \in Accepting(i)' : q # r => q \in Accepting(i)
  BY DEF Accepting, Moves
<1>3. Cardinality(Accepting(i)') <= Cardinality(Accepting(i))
  BY <1>1, <1>2, OneMoves
<1>4. Cardinality(Accepting(i)) \in Nat /\ Cardinality(Accepting(i)') \in Nat
  BY <1>1, RequestsFinite
<1>5. invites[i].used \in Nat /\ width \in Nat /\ width' = width
  BY WidthFacts DEF IInv, IdentityTypeOK, Invite, Moves, planVars
<1>6. InviteLeft(i)
  BY DEF CInv
<1> QED
  BY <1>3, <1>4, <1>5, <1>6 DEF InviteLeft

LEMMA InvitesKeptLeft ==
  ASSUME IInv, CInv, NEW r \in Requests, Moves(r), UNCHANGED invites,
         call'[r].at \in {"invited", "accept"} => r \in Accepting(call'[r].item)
  PROVE  \A i \in Invites : InviteLeft(i)'
<1> SUFFICES ASSUME NEW i \in Invites PROVE InviteLeft(i)'
  OBVIOUS
<1>1. r \in Accepting(i)' => r \in Accepting(i)
  BY DEF Accepting
<1> QED
  BY <1>1, InviteKept

LEMMA SeatedIsFinite ==
  ASSUME NEW w \in Workspaces
  PROVE  /\ IsFiniteSet(Active(w)) /\ Cardinality(Active(w)) \in Nat
         /\ IsFiniteSet(Seated(w)) /\ Cardinality(Seated(w)) \in Nat
         /\ Cardinality(Seated(w)) <= Cardinality(Active(w))
<1>1. Active(w) \in SUBSET Users /\ Seated(w) \in SUBSET Active(w)
  BY DEF Active, Seated
<1>2. IsFiniteSet(Active(w))
  BY <1>1, FS_Subset
<1>3. IsFiniteSet(Seated(w)) /\ Cardinality(Seated(w)) <= Cardinality(Active(w))
  BY <1>1, <1>2, FS_Subset
<1> QED
  BY <1>2, <1>3, FS_CardinalityType

LEMMA SeatKept ==
  ASSUME IInv, CInv, NEW r \in Requests, Moves(r), NEW w \in Workspaces,
         r \in Adding(w)' => r \in Adding(w), Seated(w)' \subseteq Seated(w)
  PROVE  SeatLeft(w)'
<1>1. Adding(w) \in SUBSET Requests /\ Adding(w)' \in SUBSET Requests
  BY DEF Adding
<1>2. \A q \in Adding(w)' : q # r => q \in Adding(w)
  BY DEF Adding, Moves
<1>3. Cardinality(Adding(w)') <= Cardinality(Adding(w))
  BY <1>1, <1>2, OneMoves
<1>4. Cardinality(Adding(w)) \in Nat /\ Cardinality(Adding(w)') \in Nat
  BY <1>1, RequestsFinite
<1>5. /\ Cardinality(Seated(w)') <= Cardinality(Seated(w)) /\ Cardinality(Seated(w)) \in Nat
      /\ IsFiniteSet(Seated(w)')
  BY SeatedIsFinite, FS_Subset
<1>6. Cardinality(Seated(w)') \in Nat
  BY <1>5, FS_CardinalityType
<1>7. seats' = seats /\ width' = width
  BY DEF Moves, planVars
<1>8. SeatLeft(w)
  BY DEF CInv
<1> QED
  BY <1>3, <1>4, <1>5, <1>6, <1>7, <1>8, WidthFacts DEF SeatLeft

LEMMA SeatsKeptLeft ==
  ASSUME IInv, CInv, NEW r \in Requests, Moves(r), call'[r].at \notin {"hire", "join", "enable"},
         \A w \in Workspaces : Seated(w)' \subseteq Seated(w)
  PROVE  \A w \in Workspaces : SeatLeft(w)'
<1> SUFFICES ASSUME NEW w \in Workspaces PROVE SeatLeft(w)'
  OBVIOUS
<1>1. r \notin Adding(w)'
  BY DEF Adding
<1> QED
  BY <1>1, SeatKept

\* The seat was checked: whoever else adds a member was admitted with it.
LEMMA SeatChecked ==
  ASSUME IInv, CInv, NEW r \in Requests, Moves(r), UNCHANGED <<members, invites>>,
         call'[r].at \in {"hire", "join", "enable"}, HasSeat(call'[r].ws)
  PROVE  \A w \in Workspaces : SeatLeft(w)'
<1> SUFFICES ASSUME NEW w \in Workspaces PROVE SeatLeft(w)'
  OBVIOUS
<1>1. Seated(w)' = Seated(w) /\ Active(w)' = Active(w)
  BY DEF Seated, Active, Invited
<1>2. CASE w # call'[r].ws
  <2>1. r \notin Adding(w)'
    BY <1>2 DEF Adding
  <2> QED
    BY <1>1, <2>1, SeatKept
<1>3. CASE w = call'[r].ws
  <2>1. Adding(w)' \subseteq Running' /\ Running' \in SUBSET Requests
    BY DEF Adding, Running
  <2>2. IsFiniteSet(Running') /\ Cardinality(Running') \in Nat
    BY <2>1, RequestsFinite
  <2>3. Cardinality(Adding(w)') <= Cardinality(Running') /\ IsFiniteSet(Adding(w)')
    BY <2>1, <2>2, FS_Subset
  <2>4. Cardinality(Running') <= width /\ width' = width /\ seats' = seats
    BY RunningStays DEF Moves, planVars
  <2>5. Cardinality(Adding(w)') \in Nat
    BY <2>3, FS_CardinalityType
  <2>6. Cardinality(Adding(w)') <= width
    BY <2>2, <2>3, <2>4, <2>5, WidthFacts
  <2>7. Cardinality(Active(w)) < seats
    BY <1>3 DEF HasSeat
  <2> QED
    BY <1>1, <2>4, <2>5, <2>6, <2>7, SeatedIsFinite, WidthFacts DEF SeatLeft
<1> QED
  BY <1>2, <1>3
\* Who is a member stays one, and an invite stays that of its address.
Rows ==
  /\ \A u \in Users, w \in Workspaces : IsMember(u, w) => IsMember(u, w)'
  /\ \A i \in Invites : invites[i].made =>
       invites'[i].made /\ invites'[i].user = invites[i].user /\ invites'[i].ws = invites[i].ws

LEMMA RowsUntouched ==
  ASSUME UNCHANGED <<members, invites>>
  PROVE  Rows
BY DEF Rows, IsMember

LEMMA KnowsStays ==
  ASSUME IInv, CInv, Rows, NEW r \in Requests, Moves(r), Knows(call[r])'
  PROVE  \A q \in Requests : Knows(call[q])'
<1> SUFFICES ASSUME NEW q \in Requests PROVE Knows(call[q])'
  OBVIOUS
<1>1. CASE q = r
  BY <1>1
<1>2. CASE q # r
  <2>1. call'[q] = call[q] /\ Knows(call[q]) /\ Fits(call[q])
        /\ call[q].user \in Users /\ call[q].home \in Workspaces
    BY <1>2, CallFacts DEF Moves, CInv
  <2>2. IsMember(call[q].user, call[q].home) => IsMember(call[q].user, call[q].home)'
    BY <2>1 DEF Rows
  <2>3. call[q].item \in Invites /\ OfInvite(call[q]) => OfInvite(call[q])'
    BY <2>1 DEF Rows, OfInvite
  <2>4. call[q].at \in {"revoke", "invited", "accept"} => call[q].item \in Invites
    BY <2>1 DEF Fits
  <2> QED
    BY <2>1, <2>2, <2>3, <2>4 DEF Knows
<1> QED
  BY <1>1, <1>2

LEMMA HomesKept ==
  ASSUME IInv, CInv, Rows, UNCHANGED users
  PROVE  HomesJoined'
<1>1. ASSUME NEW u \in Users, users'[u].made PROVE IsMember(u, users[u].home)'
  <2>1. users[u].home \in Workspaces
    BY DEF IInv, IdentityTypeOK, User
  <2> QED
    BY <1>1, <2>1 DEF CInv, HomesJoined, Rows
<1> QED
  BY <1>1 DEF HomesJoined

LEMMA HomeWritten ==
  ASSUME IInv, CInv, Rows, NEW v \in Users, NEW x, users' = [users EXCEPT ![v] = x],
         x.made => IsMember(v, x.home)'
  PROVE  HomesJoined'
<1>1. ASSUME NEW u \in Users, users'[u].made PROVE IsMember(u, users[u].home)'
  <2>1. CASE u = v
    BY <1>1, <2>1 DEF IInv, IdentityTypeOK
  <2>2. CASE u # v
    <3>1. users'[u] = users[u] /\ users[u].home \in Workspaces
      BY <2>2 DEF IInv, IdentityTypeOK, User
    <3> QED
      BY <1>1, <3>1 DEF CInv, HomesJoined, Rows, IsMember
  <2> QED BY <2>1, <2>2
<1> QED
  BY <1>1 DEF HomesJoined, IsMember

\* Users, members, invites and tokens stay as they are, and nothing is taken.
LEMMA TakesNothing ==
  ASSUME IInv, CInv, NEW r \in Requests, Moves(r), UNCHANGED <<users, members, invites, tokens>>,
         Knows(call'[r]),
         call'[r].at \in {"redeem", "found", "settle"} =>
           \/ call'[r].item \notin Kind
           \/ r \in Redeeming(call'[r].item, call'[r].user) /\ call'[r].seen = call[r].seen,
         call'[r].at \in {"invited", "accept"} => r \in Accepting(call'[r].item),
         call'[r].at \in {"hire", "join", "enable"} =>
           HasSeat(call'[r].ws) \/ r \in Adding(call'[r].ws)
  PROVE  CInv'
<1>1. Rows
  BY RowsUntouched
<1>2. Knows(call[r])'
  BY DEF Knows, IsMember, OfInvite
<1>3. \A q \in Requests : Knows(call[q])'
  BY <1>1, <1>2, KnowsStays
<1>4. HomesJoined'
  BY <1>1, HomesKept
<1>5. \A k \in Kind, u \in Users : TokenLeft(k, u)'
  BY TokensKeptLeft
<1>6. \A i \in Invites : InviteLeft(i)'
  BY InvitesKeptLeft
<1>7. \A w \in Workspaces : SeatLeft(w)'
  <2>1. \A w \in Workspaces : Seated(w)' \subseteq Seated(w)
    BY DEF Seated, Active, Invited
  <2>2. CASE call'[r].at \in {"hire", "join", "enable"} /\ HasSeat(call'[r].ws)
    BY <2>2, SeatChecked
  <2>3. CASE call'[r].at \in {"hire", "join", "enable"} /\ r \in Adding(call'[r].ws)
    <3>1. \A w \in Workspaces : r \in Adding(w)' => r \in Adding(w)
      BY <2>3 DEF Adding
    <3> QED
      BY <2>1, <3>1, SeatKept
  <2>4. CASE call'[r].at \notin {"hire", "join", "enable"}
    BY <2>1, <2>4, SeatsKeptLeft
  <2> QED BY <2>2, <2>3, <2>4
<1> QED
  BY <1>3, <1>4, <1>5, <1>6, <1>7, RunningStays DEF CInv

LEMMA ReadsKeeps ==
  ASSUME IInv, CInv, NEW r \in Requests, Moves(r), UNCHANGED <<accountVars, secretVars>>,
         Knows(call'[r]),
         call'[r].at \in {"redeem", "found", "settle"} =>
           \/ call'[r].item \notin Kind
           \/ r \in Redeeming(call'[r].item, call'[r].user) /\ call'[r].seen = call[r].seen,
         call'[r].at \in {"invited", "accept"} => r \in Accepting(call'[r].item),
         call'[r].at \in {"hire", "join", "enable"} =>
           HasSeat(call'[r].ws) \/ r \in Adding(call'[r].ws)
  PROVE  CInv'
<1>1. UNCHANGED <<users, members, invites, tokens>>
  BY DEF accountVars, secretVars
<1> QED
  BY <1>1, TakesNothing

LEMMA EndsReading ==
  ASSUME IInv, CInv, NEW r \in Requests, Ends(r), UNCHANGED planVars,
         UNCHANGED <<accountVars, secretVars>>
  PROVE  CInv'
<1>1. Moves(r) /\ call'[r].at = "idle"
  BY EndsMoves
<1> QED
  BY <1>1, ReadsKeeps DEF Knows

LEMMA GoesReading ==
  ASSUME IInv, CInv, NEW r \in Requests, NEW to, Goes(r, to), UNCHANGED planVars,
         UNCHANGED <<accountVars, secretVars>>, call[r].at # "idle",
         to \notin {"upsert", "realign", "revoke", "invited", "accept", "redeem", "found", "settle",
                 "hire", "join"},
         to = "enable" => HasSeat(call[r].ws)
  PROVE  CInv'
<1>1. Moves(r) /\ call'[r].at = to /\ call'[r].ws = call[r].ws
  BY GoesMoves
<1> QED
  BY <1>1, ReadsKeeps DEF Knows

LEMMA FindTargetCounts ==
  ASSUME IInv, CInv, NEW r \in Requests, FindTarget(r)
  PROVE  CInv'
BY EndsReading, GoesReading DEF FindTarget

LEMMA FindSessionAgainCounts ==
  ASSUME IInv, CInv, NEW r \in Requests, FindSessionAgain(r)
  PROVE  CInv'
<1> DEFINE s == sessions[call[r].item]
<1>1. Fits(call[r]) /\ call[r].at = "again" /\ call[r] \in Call
  BY CallFacts DEF FindSessionAgain
<1>2. OfSession(call[r]) /\ s.user = call[r].user /\ users[s.user].made /\ s.user \in Users
  BY <1>1, CallFacts DEF Fits, OfSession, IInv, Tables, SessionsFit
<1>3. CASE s.live
  <2>1. Moves(r)
        /\ call'[r] = [call[r] EXCEPT !.at = "upsert", !.ws = s.ws, !.home = users[s.user].home,
                                 !.role = users[s.user].role, !.to = Nothing]
    BY <1>1, <1>3, BecomesMoves DEF FindSessionAgain
  <2>2. call'[r].at = "upsert" /\ call'[r].user = s.user /\ call'[r].home = users[s.user].home
    BY ZenonT(60), <1>1, <1>2, <2>1 DEF Call
  <2>3. IsMember(s.user, users[s.user].home)
    BY <1>2 DEF CInv, HomesJoined
  <2>4. Knows(call'[r])
    BY <2>2, <2>3 DEF Knows
  <2> QED
    BY <2>1, <2>2, <2>4, ReadsKeeps DEF FindSessionAgain
<1>4. CASE ~s.live
  BY <1>4, EndsReading DEF FindSessionAgain
<1> QED
  BY <1>3, <1>4

LEMMA RecogniseCounts ==
  ASSUME IInv, CInv, NEW r \in Requests, Recognise(r)
  PROVE  CInv'
<1>1. PICK u \in Users, how \in {Nothing, "link"} :
        /\ users[u].made
        /\ Starts(r, [Idle EXCEPT !.at = "upsert", !.user = u, !.home = users[u].home,
                        !.role = users[u].role, !.item = how, !.seen = Resets(u)])
        /\ UNCHANGED <<accountVars, secretVars, planVars>>
  BY DEF Recognise
<1>2. Moves(r)
      /\ call'[r] = [Idle EXCEPT !.at = "upsert", !.user = u, !.home = users[u].home,
                        !.role = users[u].role, !.item = how, !.seen = Resets(u)]
  BY <1>1, StartsMoves
<1>3. call'[r].at = "upsert" /\ call'[r].user = u /\ call'[r].home = users[u].home
  BY <1>2 DEF Idle
<1>4. IsMember(u, users[u].home)
  BY <1>1 DEF CInv, HomesJoined
<1>5. Knows(call'[r])
  BY <1>3, <1>4 DEF Knows
<1> QED
  BY <1>1, <1>2, <1>3, <1>5, ReadsKeeps

LEMMA PickWorkspaceCounts ==
  ASSUME IInv, CInv, NEW r \in Requests, PickWorkspace(r)
  PROVE  CInv'
<1>1. call[r].at = "pick" /\ call[r] \in Call
  BY CallFacts DEF PickWorkspace
<1>2. ASSUME NEW w, call' = [call EXCEPT ![r] = [call[r] EXCEPT !.at = "enter", !.ws = w]]
      PROVE  CInv'
  <2>1. Moves(r) /\ call'[r] = [call[r] EXCEPT !.at = "enter", !.ws = w]
    BY <1>1, <1>2, BecomesMoves DEF PickWorkspace
  <2>2. call'[r].at = "enter"
    BY <1>1, <2>1 DEF Call
  <2> QED
    BY <2>1, <2>2, ReadsKeeps DEF PickWorkspace, Knows
<1>3. Ends(r) => CInv'
  BY EndsReading DEF PickWorkspace
<1> QED
  BY <1>2, <1>3 DEF PickWorkspace

\* The start of a request that takes nothing with its first read.
LEMMA StartsReading ==
  ASSUME IInv, CInv, NEW r \in Requests, NEW c, Starts(r, c),
         UNCHANGED <<accountVars, secretVars, planVars>>,
         c.at \notin {"upsert", "realign", "revoke", "invited", "accept", "redeem", "settle",
                   "hire", "join"},
         c.at = "found" => c.item \notin Kind, c.at = "enable" => HasSeat(c.ws)
  PROVE  CInv'
<1>1. Moves(r) /\ call'[r] = c
  BY StartsMoves
<1> QED
  BY <1>1, ReadsKeeps DEF Knows

LEMMA RequestTokenCounts ==
  ASSUME IInv, CInv, NEW r \in Requests, RequestToken(r)
  PROVE  CInv'
<1>1. PICK k \in Kind, u \in Users :
        Starts(r, [Idle EXCEPT !.at = "issue", !.user = u, !.item = k])
  BY DEF RequestToken
<1>2. [Idle EXCEPT !.at = "issue", !.user = u, !.item = k].at = "issue"
  BY DEF Idle
<1> QED
  BY <1>1, <1>2, StartsReading DEF RequestToken

LEMMA FindAddressFreeCounts ==
  ASSUME IInv, CInv, NEW r \in Requests, FindAddressFree(r)
  PROVE  CInv'
<1>1. PICK u \in Users : Starts(r, [Idle EXCEPT !.at = "found", !.user = u])
  BY DEF FindAddressFree
<1>2. /\ [Idle EXCEPT !.at = "found", !.user = u].at = "found"
      /\ [Idle EXCEPT !.at = "found", !.user = u].item = Nothing
  BY DEF Idle
<1>3. Nothing \notin Kind
  BY DEF Kind
<1> QED
  BY <1>1, <1>2, <1>3, StartsReading DEF FindAddressFree

LEMMA CheckNoMemberCounts ==
  ASSUME IInv, CInv, NEW r \in Requests, CheckNoMember(r)
  PROVE  CInv'
<1>1. PICK u \in Users, w \in Workspaces, role \in Grantable :
        Starts(r, [Idle EXCEPT !.at = "open", !.user = u, !.ws = w, !.role = role])
  BY DEF CheckNoMember
<1>2. [Idle EXCEPT !.at = "open", !.user = u, !.ws = w, !.role = role].at = "open"
  BY DEF Idle
<1> QED
  BY <1>1, <1>2, StartsReading DEF CheckNoMember

LEMMA CheckNoInviteCounts ==
  ASSUME IInv, CInv, NEW r \in Requests, CheckNoInvite(r)
  PROVE  CInv'
BY EndsReading, GoesReading DEF CheckNoInvite

LEMMA CheckHireCounts ==
  ASSUME IInv, CInv, NEW r \in Requests, CheckHire(r)
  PROVE  CInv'
<1>1. PICK u \in Users, w \in Workspaces, role \in Grantable :
        /\ HasSeat(w)
        /\ Starts(r, [Idle EXCEPT !.at = "hire", !.user = u, !.ws = w, !.role = role])
        /\ UNCHANGED <<accountVars, secretVars, planVars>>
  BY DEF CheckHire
<1>2. Moves(r) /\ call'[r] = [Idle EXCEPT !.at = "hire", !.user = u, !.ws = w, !.role = role]
  BY <1>1, StartsMoves
<1>3. call'[r].at = "hire" /\ call'[r].ws = w
  BY <1>2 DEF Idle
<1> QED
  BY <1>1, <1>2, <1>3, ReadsKeeps DEF Knows

LEMMA AdministerCounts ==
  ASSUME IInv, CInv, NEW r \in Requests, Administer(r)
  PROVE  CInv'
<1>1. PICK at \in {"role", "disable", "seat", "redact"}, u \in Users, w \in Workspaces,
           role \in Grantable :
        Starts(r, [Idle EXCEPT !.at = at, !.user = u, !.ws = w,
                     !.role = IF at = "role" THEN role ELSE Nothing])
  BY DEF Administer
<1>2. [Idle EXCEPT !.at = at, !.user = u, !.ws = w,
                   !.role = IF at = "role" THEN role ELSE Nothing].at = at
  BY DEF Idle
<1> QED
  BY <1>1, <1>2, StartsReading DEF Administer

LEMMA FindHomeCounts ==
  ASSUME IInv, CInv, NEW r \in Requests, FindHome(r)
  PROVE  CInv'
BY EndsReading, GoesReading DEF FindHome

LEMMA FindNextHomeCounts ==
  ASSUME IInv, CInv, NEW r \in Requests, FindNextHome(r)
  PROVE  CInv'
<1>1. call[r].at = "next" /\ call[r] \in Call /\ call[r].user \in Users
  BY CallFacts DEF FindNextHome
<1>2. ASSUME NEW w \in Workspaces, members[call[r].user][w].active,
             call' = [call EXCEPT ![r] =
               [call[r] EXCEPT !.at = "realign", !.home = w,
                               !.role = members[call[r].user][w].role]]
      PROVE  CInv'
  <2>1. Moves(r) /\ call'[r] = [call[r] EXCEPT !.at = "realign", !.home = w,
                                               !.role = members[call[r].user][w].role]
    BY <1>1, <1>2, BecomesMoves DEF FindNextHome
  <2>2. call'[r].at = "realign" /\ call'[r].user = call[r].user /\ call'[r].home = w
    BY <1>1, <2>1 DEF Call
  <2>3. IsMember(call[r].user, w)
    BY <1>1, <1>2 DEF IInv, Tables, MembersBelong
  <2>4. Knows(call'[r])
    BY <2>2, <2>3 DEF Knows
  <2> QED
    BY <2>1, <2>2, <2>4, ReadsKeeps DEF FindNextHome
<1>3. Ends(r) => CInv'
  BY EndsReading DEF FindNextHome
<1> QED
  BY <1>2, <1>3 DEF FindNextHome

LEMMA CheckSeatCounts ==
  ASSUME IInv, CInv, NEW r \in Requests, CheckSeat(r)
  PROVE  CInv'
BY EndsReading, GoesReading DEF CheckSeat

LEMMA FindInvitedCounts ==
  ASSUME IInv, CInv, NEW r \in Requests, FindInvited(r)
  PROVE  CInv'
<1>1. call[r].at = "invited" /\ call[r] \in Call /\ Fits(call[r]) /\ Knows(call[r])
  BY CallFacts DEF FindInvited, CInv
<1>2. ASSUME call' = [call EXCEPT ![r] =
              [call[r] EXCEPT !.at = "accept", !.seen = IF users[call[r].user].made THEN 1 ELSE 0]]
      PROVE  CInv'
  <2>1. Moves(r)
        /\ call'[r] = [call[r] EXCEPT !.at = "accept",
                                      !.seen = IF users[call[r].user].made THEN 1 ELSE 0]
    BY <1>1, <1>2, BecomesMoves DEF FindInvited
  <2>2. /\ call'[r].at = "accept" /\ call'[r].item = call[r].item
        /\ call'[r].user = call[r].user /\ call'[r].ws = call[r].ws
    BY <1>1, <2>1 DEF Call
  <2>3. Knows(call'[r])
    BY <1>1, <2>2 DEF Knows, OfInvite
  <2>4. r \in Accepting(call'[r].item)
    BY <1>1, <2>2 DEF Accepting
  <2> QED
    BY <2>1, <2>2, <2>3, <2>4, ReadsKeeps DEF FindInvited
<1>3. Ends(r) => CInv'
  BY EndsReading DEF FindInvited
<1> QED
  BY <1>2, <1>3 DEF FindInvited

\* A fresh token, or an invite that is not used: whoever finds it runs.
LEMMA FindTokenCounts ==
  ASSUME IInv, CInv, NEW r \in Requests, FindToken(r)
  PROVE  CInv'
<1>1. PICK k \in Kind, u \in Users :
        /\ \E n \in tokens[k][u].fresh :
             Starts(r, [Idle EXCEPT !.at = IF k = "signup" THEN "found" ELSE "redeem",
                          !.user = u, !.item = k, !.seen = n])
        /\ UNCHANGED <<accountVars, secretVars, planVars>>
  BY DEF FindToken
<1>2. PICK n \in tokens[k][u].fresh :
        Starts(r, [Idle EXCEPT !.at = IF k = "signup" THEN "found" ELSE "redeem",
                     !.user = u, !.item = k, !.seen = n])
  BY <1>1
<1>3. Moves(r)
      /\ call'[r] = [Idle EXCEPT !.at = IF k = "signup" THEN "found" ELSE "redeem",
                       !.user = u, !.item = k, !.seen = n]
  BY <1>1, <1>2, StartsMoves
<1>4. /\ call'[r].at \in {"found", "redeem"} /\ call'[r].user = u /\ call'[r].item = k
      /\ call'[r].seen = n
  BY <1>3 DEF Idle
<1>5. UNCHANGED <<users, members, sessions, invites, tokens>>
  BY <1>1 DEF accountVars, secretVars
<1>6. Rows
  BY <1>5, RowsUntouched
<1>7. \A q \in Requests : Knows(call[q])'
  <2>1. Knows(call[r])'
    BY <1>4 DEF Knows
  <2> QED
    BY <1>3, <1>6, <2>1, KnowsStays
<1>8. HomesJoined'
  BY <1>5, <1>6, HomesKept
<1>9. ASSUME NEW j \in Kind, NEW v \in Users PROVE TokenLeft(j, v)'
  <2>1. r \in Redeeming(j, v)' => call'[r].seen \in tokens'[j][v].fresh
    BY <1>4, <1>5 DEF Redeeming
  <2> QED
    BY <1>3, <1>5, <2>1, TokenKept
<1>10. \A i \in Invites : InviteLeft(i)'
  BY <1>3, <1>4, <1>5, InvitesKeptLeft
<1>11. \A w \in Workspaces : SeatLeft(w)'
  <2>1. \A w \in Workspaces : Seated(w)' \subseteq Seated(w)
    BY <1>5 DEF Seated, Active, Invited
  <2> QED
    BY <1>3, <1>4, <2>1, SeatsKeptLeft
<1> QED
  BY <1>3, <1>7, <1>8, <1>9, <1>10, <1>11, RunningStays DEF CInv

LEMMA FindTokensCounts ==
  ASSUME IInv, CInv, NEW r \in Requests, FindTokens(r)
  PROVE  CInv'
<1>1. call[r].at = "issue" /\ call[r] \in Call
  BY CallFacts DEF FindTokens
<1>2. PICK n : Moves(r) /\ call'[r] = [call[r] EXCEPT !.at = "mail", !.seen = n]
  BY <1>1, BecomesMoves DEF FindTokens
<1>3. call'[r].at = "mail"
  BY <1>1, <1>2 DEF Call
<1> QED
  BY <1>2, <1>3, ReadsKeeps DEF FindTokens, Knows

\* The request goes on holding the token, or the seat, that it held.
LEMMA FindOwnerCounts ==
  ASSUME IInv, CInv, NEW r \in Requests, FindOwner(r)
  PROVE  CInv'
<1>1. /\ call[r].at = "found" /\ call[r] \in Call
      /\ call[r].item \in Kind /\ call[r].user \in Users
  BY CallFacts DEF FindOwner, Kind
<1>2. ASSUME NEW met, call' = [call EXCEPT ![r] = [call[r] EXCEPT !.at = "settle", !.met = met]]
      PROVE  CInv'
  <2>1. Moves(r) /\ call'[r] = [call[r] EXCEPT !.at = "settle", !.met = met]
    BY <1>1, <1>2, BecomesMoves DEF FindOwner
  <2>2. /\ call'[r].at = "settle" /\ call'[r].item = call[r].item
        /\ call'[r].user = call[r].user /\ call'[r].seen = call[r].seen
    BY <1>1, <2>1 DEF Call
  <2>3. r \in Redeeming(call'[r].item, call'[r].user)
    BY <1>1, <2>2 DEF Redeeming
  <2> QED
    BY <2>1, <2>2, <2>3, ReadsKeeps DEF FindOwner, Knows
<1>3. Ends(r) => CInv'
  BY EndsReading DEF FindOwner
<1> QED
  BY <1>2, <1>3 DEF FindOwner

LEMMA FindHiredCounts ==
  ASSUME IInv, CInv, NEW r \in Requests, FindHired(r)
  PROVE  CInv'
<1>1. call[r].at = "hire" /\ call[r] \in Call
  BY CallFacts DEF FindHired
<1>2. ASSUME NEW met, call' = [call EXCEPT ![r] = [call[r] EXCEPT !.at = "join", !.met = met]]
      PROVE  CInv'
  <2>1. Moves(r) /\ call'[r] = [call[r] EXCEPT !.at = "join", !.met = met]
    BY <1>1, <1>2, BecomesMoves DEF FindHired
  <2>2. call'[r].at = "join" /\ call'[r].ws = call[r].ws
    BY <1>1, <2>1 DEF Call
  <2>3. r \in Adding(call'[r].ws)
    BY <1>1, <2>2 DEF Adding
  <2> QED
    BY <2>1, <2>2, <2>3, ReadsKeeps DEF FindHired, Knows
<1>3. Ends(r) => CInv'
  BY EndsReading DEF FindHired
<1> QED
  BY <1>2, <1>3 DEF FindHired

LEMMA LockMemberCounts ==
  ASSUME IInv, CInv, NEW r \in Requests, LockMember(r)
  PROVE  CInv'
<1>1. call[r].at = "role" /\ call[r] \in Call
  BY CallFacts DEF LockMember
<1>2. PICK met : Moves(r) /\ call'[r] = [call[r] EXCEPT !.at = "rerole", !.met = met]
  BY <1>1, BecomesMoves DEF LockMember
<1>3. call'[r].at = "rerole"
  BY <1>1, <1>2 DEF Call
<1> QED
  BY <1>2, <1>3, ReadsKeeps DEF LockMember, Knows

LEMMA FindInviteCounts ==
  ASSUME IInv, CInv, NEW r \in Requests, FindInvite(r)
  PROVE  CInv'
<1>1. PICK i \in Invites, at \in {"revoke", "accept"} :
        /\ invites[i].made /\ (at = "accept" => invites[i].used = 0)
        /\ Starts(r, [Idle EXCEPT !.at = IF at = "accept" THEN "invited" ELSE at,
                        !.user = invites[i].user, !.ws = invites[i].ws,
                        !.role = invites[i].role, !.item = i])
        /\ UNCHANGED <<accountVars, secretVars, planVars>>
  BY DEF FindInvite
<1>2. Moves(r)
      /\ call'[r] = [Idle EXCEPT !.at = IF at = "accept" THEN "invited" ELSE at,
                        !.user = invites[i].user, !.ws = invites[i].ws,
                        !.role = invites[i].role, !.item = i]
  BY <1>1, StartsMoves
<1>3. /\ call'[r].at = IF at = "accept" THEN "invited" ELSE at
      /\ call'[r].user = invites[i].user /\ call'[r].ws = invites[i].ws /\ call'[r].item = i
  BY <1>2 DEF Idle
<1>4. UNCHANGED <<users, members, sessions, invites, tokens>>
  BY <1>1 DEF accountVars, secretVars
<1>5. Rows
  BY <1>4, RowsUntouched
<1>6. \A q \in Requests : Knows(call[q])'
  <2>1. Knows(call[r])'
    BY <1>1, <1>3, <1>4 DEF Knows, OfInvite
  <2> QED
    BY <1>2, <1>5, <2>1, KnowsStays
<1>7. HomesJoined'
  BY <1>4, <1>5, HomesKept
<1>8. \A k \in Kind, u \in Users : TokenLeft(k, u)'
  BY <1>2, <1>3, <1>4, TokensKeptLeft
<1>9. ASSUME NEW j \in Invites PROVE InviteLeft(j)'
  <2>1. CASE r \in Accepting(j)'
    <3>1. invites'[j].used = 0
      BY <1>1, <1>3, <1>4, <2>1 DEF Accepting
    <3> QED BY <3>1 DEF InviteLeft
  <2>2. CASE r \notin Accepting(j)'
    BY <1>2, <1>4, <2>2, InviteKept
  <2> QED BY <2>1, <2>2
<1>10. \A w \in Workspaces : SeatLeft(w)'
  <2>1. \A w \in Workspaces : Seated(w)' \subseteq Seated(w)
    BY <1>4 DEF Seated, Active, Invited
  <2> QED
    BY <1>2, <1>3, <2>1, SeatsKeptLeft
<1> QED
  BY <1>2, <1>6, <1>7, <1>8, <1>9, <1>10, RunningStays DEF CInv
-----------------------------------------------------------------------------
(* Steps that write: the sessions, which count for nothing here, then the  *)
(* other tables                                                            *)

LEMMA FindSessionCounts ==
  ASSUME IInv, CInv, NEW r \in Requests, FindSession(r)
  PROVE  CInv'
<1>1. PICK s \in Sessions, to \in Workspaces \cup {Nothing} :
        /\ sessions[s].live
        /\ \/ Starts(r, Idle)
           \/ Starts(r, [Idle EXCEPT !.at = "upsert", !.user = sessions[s].user,
                       !.ws = sessions[s].ws, !.home = users[sessions[s].user].home,
                       !.role = users[sessions[s].user].role, !.item = s, !.to = to])
        /\ UNCHANGED <<accountVars, invites, tokens, planVars>>
  BY DEF FindSession
<1>2. UNCHANGED <<users, members, invites, tokens, planVars>>
  BY <1>1 DEF accountVars
<1>3. CASE Starts(r, Idle)
  <2>1. Moves(r) /\ call'[r].at = "idle"
    BY <1>2, <1>3, StartsMoves DEF Idle
  <2> QED
    BY <1>2, <2>1, TakesNothing DEF Knows
<1>4. CASE Starts(r, [Idle EXCEPT !.at = "upsert", !.user = sessions[s].user,
                       !.ws = sessions[s].ws, !.home = users[sessions[s].user].home,
                       !.role = users[sessions[s].user].role, !.item = s, !.to = to])
  <2>1. Moves(r)
        /\ call'[r] = [Idle EXCEPT !.at = "upsert", !.user = sessions[s].user,
                       !.ws = sessions[s].ws, !.home = users[sessions[s].user].home,
                       !.role = users[sessions[s].user].role, !.item = s, !.to = to]
    BY <1>2, <1>4, StartsMoves
  <2>2. /\ call'[r].at = "upsert" /\ call'[r].user = sessions[s].user
        /\ call'[r].home = users[sessions[s].user].home
    BY <2>1 DEF Idle
  <2>3. users[sessions[s].user].made /\ sessions[s].user \in Users
    BY <1>1 DEF IInv, Tables, SessionsFit, IdentityTypeOK, Session
  <2>4. Knows(call'[r])
    BY <2>2, <2>3 DEF Knows, CInv, HomesJoined
  <2> QED
    BY <1>2, <2>1, <2>2, <2>4, TakesNothing
<1> QED
  BY <1>1, <1>3, <1>4

LEMMA AdmitSessionCounts ==
  ASSUME IInv, CInv, NEW r \in Requests, AdmitSession(r)
  PROVE  CInv'
<1>1. UNCHANGED <<users, members, invites, tokens, planVars>> /\ call[r].at = "admit"
  BY DEF AdmitSession, accountVars
<1>2. Ends(r) \/ Goes(r, "target")
  BY DEF AdmitSession
<1>3. Moves(r) /\ call'[r].at \in {"idle", "target"}
  BY <1>1, <1>2, EndsMoves, GoesMoves
<1> QED
  BY <1>1, <1>3, TakesNothing DEF Knows

LEMMA MoveSessionCounts ==
  ASSUME IInv, CInv, NEW r \in Requests, MoveSession(r)
  PROVE  CInv'
<1>1. /\ UNCHANGED <<users, members, invites, tokens, planVars>> /\ call[r].at = "move"
      /\ Goes(r, "again")
  BY DEF MoveSession, accountVars
<1>2. Moves(r) /\ call'[r].at = "again"
  BY <1>1, GoesMoves
<1> QED
  BY <1>1, <1>2, TakesNothing DEF Knows

LEMMA LogoutCounts ==
  ASSUME IInv, CInv, NEW r \in Requests, Logout(r)
  PROVE  CInv'
<1>1. UNCHANGED <<users, members, invites, tokens, planVars>> /\ Starts(r, Idle)
  BY DEF Logout, accountVars
<1>2. Moves(r) /\ call'[r].at = "idle"
  BY <1>1, StartsMoves DEF Idle
<1> QED
  BY <1>1, <1>2, TakesNothing DEF Knows

\* The request has ended; what is left to show is what the tables hold.
LEMMA EndsCounted ==
  ASSUME IInv, CInv, NEW r \in Requests, Ends(r), UNCHANGED planVars, Rows, HomesJoined',
         \A k \in Kind, u \in Users : TokenLeft(k, u)',
         \A i \in Invites : InviteLeft(i)',
         \A w \in Workspaces : SeatLeft(w)'
  PROVE  CInv'
<1>1. Moves(r) /\ call'[r].at = "idle"
  BY EndsMoves
<1>2. Knows(call[r])'
  BY <1>1 DEF Knows
<1> QED
  BY <1>1, <1>2, KnowsStays, RunningStays DEF CInv

\* A request that ends holds no token, no invite and no seat.
LEMMA EndsKeepsCounts ==
  ASSUME IInv, CInv, NEW r \in Requests, Ends(r), UNCHANGED planVars
  PROVE  /\ UNCHANGED tokens => \A k \in Kind, u \in Users : TokenLeft(k, u)'
         /\ UNCHANGED invites => \A i \in Invites : InviteLeft(i)'
         /\ UNCHANGED <<members, invites>> => \A w \in Workspaces : SeatLeft(w)'
<1>1. Moves(r) /\ call'[r].at = "idle"
  BY EndsMoves
<1>2. UNCHANGED <<members, invites>> => \A w \in Workspaces : Seated(w)' \subseteq Seated(w)
  BY DEF Seated, Active, Invited
<1> QED
  BY <1>1, <1>2, TokensKeptLeft, InvitesKeptLeft, SeatsKeptLeft

LEMMA EnterCounts ==
  ASSUME IInv, CInv, NEW r \in Requests, Enter(r)
  PROVE  CInv'
<1>1. PICK c \in Call : c = call[r]
  BY CallFacts
<1>2. c.user \in Users /\ users[c.user].made
  BY <1>1, CallFacts DEF Enter, Fits
<1>3. Ends(r) /\ UNCHANGED <<members, invites, tokens, planVars>>
  BY DEF Enter
<1>4. Rows
  BY <1>3, RowsUntouched
<1>5. HomesJoined'
  <2>1. CASE UNCHANGED users
    BY <1>4, <2>1, HomesKept
  <2>2. ASSUME users' = [users EXCEPT ![c.user].linked = @ \/ c.item = "link",
                                      ![c.user].verified = @ \/ c.item = "link"]
        PROVE  HomesJoined'
    <3>1. PICK x \in User : x = users[c.user]
      BY <1>2 DEF IInv, IdentityTypeOK
    <3> DEFINE y == [x EXCEPT !.linked = x.linked \/ c.item = "link",
                              !.verified = x.verified \/ c.item = "link"]
    <3>2. y.home = x.home
      BY DEF User
    <3>3. users' = [users EXCEPT ![c.user] = y]
      BY <1>2, <2>2, <3>1 DEF IInv, IdentityTypeOK, User
    <3> HIDE DEF y
    <3>4. IsMember(c.user, x.home)
      BY <1>2, <3>1 DEF CInv, HomesJoined
    <3>5. IsMember(c.user, y.home)'
      BY <1>3, <3>2, <3>4 DEF IsMember
    <3> QED
      BY <1>2, <1>4, <3>3, <3>5, HomeWritten
  <2> QED
    BY <1>1, <2>1, <2>2 DEF Enter
<1> QED
  BY <1>3, <1>4, <1>5, EndsCounted, EndsKeepsCounts

\* One membership is written, of somebody who is a member then.
LEMMA MemberRow ==
  ASSUME IInv, NEW u \in Users, NEW w \in Workspaces, NEW m, m.role # Nothing,
         members' = [members EXCEPT ![u] = [members[u] EXCEPT ![w] = m]]
  PROVE  /\ \A v \in Users, x \in Workspaces :
              members'[v][x] = IF v = u /\ x = w THEN m ELSE members[v][x]
         /\ \A v \in Users, x \in Workspaces : IsMember(v, x) => IsMember(v, x)'
         /\ IsMember(u, w)'
         /\ \A x \in Workspaces :
              Active(x)' \subseteq Active(x) \cup (IF x = w /\ m.active THEN {u} ELSE {})
<1>1. \A v \in Users, x \in Workspaces :
        members'[v][x] = IF v = u /\ x = w THEN m ELSE members[v][x]
  BY DEF IInv, IdentityTypeOK
<1>2. \A v \in Users, x \in Workspaces : IsMember(v, x) => IsMember(v, x)'
  BY <1>1 DEF IsMember
<1>3. IsMember(u, w)'
  BY <1>1 DEF IsMember
<1>4. ASSUME NEW x \in Workspaces, NEW v \in Active(x)', v \notin Active(x)
      PROVE  x = w /\ m.active /\ v = u
  BY <1>1, <1>4 DEF Active
<1> QED
  BY <1>1, <1>2, <1>3, <1>4

\* A membership of another role, or one less that is active.
LEMMA NoSeatTaken ==
  ASSUME IInv, CInv, NEW r \in Requests, Moves(r), call'[r].at \notin {"hire", "join", "enable"},
         UNCHANGED invites, \A w \in Workspaces : Active(w)' \subseteq Active(w)
  PROVE  \A w \in Workspaces : SeatLeft(w)'
<1>1. \A w \in Workspaces : Seated(w)' \subseteq Seated(w)
  BY DEF Seated, Invited
<1> QED
  BY <1>1, SeatsKeptLeft

\* The seat that the request was given before is taken.
LEMMA SeatTaken ==
  ASSUME IInv, CInv, NEW r \in Requests, Moves(r), NEW w \in Workspaces, NEW u \in Users,
         r \in Adding(w), call'[r].at = "idle", UNCHANGED invites,
         \A x \in Workspaces : Active(x)' \subseteq Active(x) \cup (IF x = w THEN {u} ELSE {})
  PROVE  \A x \in Workspaces : SeatLeft(x)'
<1> SUFFICES ASSUME NEW x \in Workspaces PROVE SeatLeft(x)'
  OBVIOUS
<1>1. \A y \in Workspaces : r \notin Adding(y)'
  BY DEF Adding
<1>2. CASE x # w
  <2>1. Seated(x)' \subseteq Seated(x)
    BY <1>2 DEF Seated, Invited
  <2> QED
    BY <1>1, <2>1, SeatKept
<1>3. CASE x = w
  <2>1. Adding(w) \in SUBSET Requests /\ Adding(w)' \in SUBSET Requests
    BY DEF Adding
  <2>2. \A q \in Adding(w)' : q # r => q \in Adding(w)
    BY DEF Adding, Moves
  <2>3. Cardinality(Adding(w)') + 1 <= Cardinality(Adding(w))
    BY <1>1, <2>1, <2>2, OneMoves
  <2>4. Cardinality(Adding(w)) \in Nat /\ Cardinality(Adding(w)') \in Nat
    BY <2>1, RequestsFinite
  <2>5. Seated(w)' \subseteq Seated(w) \cup {u}
    BY DEF Seated, Invited
  <2>6. /\ IsFiniteSet(Seated(w) \cup {u})
        /\ \/ Cardinality(Seated(w) \cup {u}) = Cardinality(Seated(w))
           \/ Cardinality(Seated(w) \cup {u}) = Cardinality(Seated(w)) + 1
    BY SeatedIsFinite, FS_AddElement
  <2>7. IsFiniteSet(Seated(w)') /\ Cardinality(Seated(w)') <= Cardinality(Seated(w) \cup {u})
    BY <2>5, <2>6, FS_Subset
  <2>8. Cardinality(Seated(w)') \in Nat /\ Cardinality(Seated(w) \cup {u}) \in Nat
        /\ Cardinality(Seated(w)) \in Nat
    BY <2>6, <2>7, SeatedIsFinite, FS_CardinalityType
  <2>9. SeatLeft(w) /\ seats' = seats /\ width' = width
    BY DEF CInv, Moves, planVars
  <2> QED
    BY <1>3, <2>3, <2>4, <2>6, <2>7, <2>8, <2>9, WidthFacts DEF SeatLeft
<1> QED
  BY <1>2, <1>3

LEMMA EnsurePrimaryMembershipCounts ==
  ASSUME IInv, CInv, NEW r \in Requests, EnsurePrimaryMembership(r)
  PROVE  CInv'
<1>1. PICK c \in Call : c = call[r]
  BY CallFacts
<1>2. /\ c.at = "upsert" /\ c.user \in Users /\ c.home \in Workspaces /\ c.role \in Role
      /\ IsMember(c.user, c.home)
  BY <1>1, CallFacts DEF EnsurePrimaryMembership, Fits, CInv, Knows
<1> DEFINE m == [role |-> c.role, active |-> members[c.user][c.home].active]
<1>3. members' = [members EXCEPT ![c.user] = [members[c.user] EXCEPT ![c.home] = m]]
  BY <1>1, <1>2 DEF EnsurePrimaryMembership
<1>4. m.role # Nothing /\ m.active = members[c.user][c.home].active
  BY <1>2 DEF Role
<1>5. UNCHANGED <<users, invites, tokens, planVars>>
  BY DEF EnsurePrimaryMembership, secretVars
<1> HIDE DEF m
<1>6. Rows
  BY <1>2, <1>3, <1>4, <1>5, MemberRow DEF Rows
<1>7. \A w \in Workspaces : Active(w)' \subseteq Active(w)
  BY <1>2, <1>3, <1>4, MemberRow DEF Active
<1>8. Moves(r) /\ call'[r].at \in {"admit", "pick"}
  BY <1>1, <1>2, <1>5, GoesMoves DEF EnsurePrimaryMembership
<1>9. Knows(call[r])'
  BY <1>8 DEF Knows
<1> QED
  BY <1>5, <1>6, <1>7, <1>8, <1>9, KnowsStays, HomesKept, TokensKeptLeft, InvitesKeptLeft,
     NoSeatTaken, RunningStays DEF CInv

LEMMA UpdateMemberCounts ==
  ASSUME IInv, CInv, NEW r \in Requests, UpdateMember(r)
  PROVE  CInv'
<1>1. PICK c \in Call : c = call[r]
  BY CallFacts
<1>2. c.user \in Users /\ c.ws \in Workspaces /\ c.role \in Grantable
  BY <1>1, CallFacts DEF UpdateMember, Fits
<1>3. Ends(r) /\ UNCHANGED <<invites, tokens, planVars>>
  BY DEF UpdateMember, secretVars
<1>4. PICK x \in Member : x = members[c.user][c.ws]
  BY <1>2 DEF IInv, IdentityTypeOK
<1> DEFINE m == [x EXCEPT !.role = c.role]
<1>5. m.role # Nothing /\ m.active = x.active
  BY <1>2 DEF Member
<1>6. members' = [members EXCEPT ![c.user] = [members[c.user] EXCEPT ![c.ws] = m]]
  BY <1>1, <1>2, <1>4 DEF UpdateMember, IInv, IdentityTypeOK
<1> HIDE DEF m
<1>7. Rows
  BY <1>2, <1>3, <1>5, <1>6, MemberRow DEF Rows
<1>8. \A w \in Workspaces : Active(w)' \subseteq Active(w)
  BY <1>2, <1>4, <1>5, <1>6, MemberRow DEF Active
<1>9. HomesJoined'
  <2>1. PICK u \in User : u = users[c.user]
    BY <1>2 DEF IInv, IdentityTypeOK
  <2> DEFINE y == [u EXCEPT !.role = IF c.met = "home" THEN c.role ELSE u.role]
  <2>2. y.made = u.made /\ y.home = u.home /\ u.home \in Workspaces
    BY DEF User
  <2>3. users' = [users EXCEPT ![c.user] = y]
    BY <1>1, <2>1 DEF UpdateMember
  <2> HIDE DEF y
  <2>4. u.made => IsMember(c.user, u.home)
    BY <1>2, <2>1 DEF CInv, HomesJoined
  <2>5. u.made => IsMember(c.user, u.home)'
    BY <1>2, <1>7, <2>2, <2>4 DEF Rows
  <2>6. y.made => IsMember(c.user, y.home)'
    BY <2>2, <2>5 DEF IsMember
  <2> QED
    BY <1>2, <1>7, <2>3, <2>6, HomeWritten
<1>10. \A w \in Workspaces : SeatLeft(w)'
  BY <1>3, <1>8, EndsMoves, NoSeatTaken
<1> QED
  BY <1>3, <1>7, <1>9, <1>10, EndsCounted, EndsKeepsCounts

LEMMA DisableMemberCounts ==
  ASSUME IInv, CInv, NEW r \in Requests, DisableMember(r)
  PROVE  CInv'
<1>1. PICK c \in Call : c = call[r]
  BY CallFacts
<1>2. /\ c.user \in Users /\ c.ws \in Workspaces /\ c.at = "disable"
      /\ IsMember(c.user, c.ws)
  BY <1>1, CallFacts DEF DisableMember, Fits
<1>3. Goes(r, "home") /\ UNCHANGED <<users, invites, tokens, planVars>>
  BY DEF DisableMember
<1>4. PICK x \in Member : x = members[c.user][c.ws]
  BY <1>2 DEF IInv, IdentityTypeOK
<1> DEFINE m == [x EXCEPT !.active = FALSE]
<1>5. m.role # Nothing /\ ~m.active
  BY <1>2, <1>4 DEF Member, IsMember
<1>6. members' = [members EXCEPT ![c.user] = [members[c.user] EXCEPT ![c.ws] = m]]
  BY <1>1, <1>2, <1>4 DEF DisableMember, IInv, IdentityTypeOK
<1> HIDE DEF m
<1>7. Rows
  BY <1>2, <1>3, <1>5, <1>6, MemberRow DEF Rows
<1>8. \A w \in Workspaces : Active(w)' \subseteq Active(w)
  BY <1>2, <1>5, <1>6, MemberRow
<1>9. Moves(r) /\ call'[r].at = "home"
  BY <1>1, <1>2, <1>3, GoesMoves
<1>10. Knows(call[r])'
  BY <1>9 DEF Knows
<1> QED
  BY <1>3, <1>7, <1>8, <1>9, <1>10, KnowsStays, HomesKept, TokensKeptLeft, InvitesKeptLeft,
     NoSeatTaken, RunningStays DEF CInv

LEMMA EnableMemberCounts ==
  ASSUME IInv, CInv, NEW r \in Requests, EnableMember(r)
  PROVE  CInv'
<1>1. PICK c \in Call : c = call[r]
  BY CallFacts
<1>2. c.user \in Users /\ c.ws \in Workspaces /\ c.at = "enable" /\ IsMember(c.user, c.ws)
  BY <1>1, CallFacts DEF EnableMember, Fits
<1>3. Ends(r) /\ UNCHANGED <<users, invites, tokens, planVars>>
  BY DEF EnableMember, secretVars
<1>4. PICK x \in Member : x = members[c.user][c.ws]
  BY <1>2 DEF IInv, IdentityTypeOK
<1> DEFINE m == [x EXCEPT !.active = TRUE]
<1>5. m.role # Nothing
  BY <1>2, <1>4 DEF Member, IsMember
<1>6. members' = [members EXCEPT ![c.user] = [members[c.user] EXCEPT ![c.ws] = m]]
  BY <1>1, <1>2, <1>4 DEF EnableMember, IInv, IdentityTypeOK
<1> HIDE DEF m
<1>7. Rows
  BY <1>2, <1>3, <1>5, <1>6, MemberRow DEF Rows
<1>8. ASSUME NEW w \in Workspaces
      PROVE  Active(w)' \subseteq Active(w) \cup (IF w = c.ws THEN {c.user} ELSE {})
  <2>1. Active(w)' \subseteq Active(w) \cup (IF w = c.ws /\ m.active THEN {c.user} ELSE {})
    BY <1>2, <1>5, <1>6, MemberRow
  <2> QED BY <2>1
<1>9. Moves(r) /\ call'[r].at = "idle" /\ r \in Adding(c.ws)
  BY <1>1, <1>2, <1>3, EndsMoves DEF Adding
<1>10. \A w \in Workspaces : SeatLeft(w)'
  BY <1>2, <1>3, <1>8, <1>9, SeatTaken
<1> QED
  BY <1>3, <1>7, <1>10, HomesKept, EndsCounted, EndsKeepsCounts

LEMMA RealignUserCounts ==
  ASSUME IInv, CInv, NEW r \in Requests, RealignUser(r)
  PROVE  CInv'
<1>1. PICK c \in Call : c = call[r]
  BY CallFacts
<1>2. c.user \in Users /\ c.home \in Workspaces /\ IsMember(c.user, c.home)
  BY <1>1, CallFacts DEF RealignUser, CInv, Knows
<1>3. Ends(r) /\ UNCHANGED <<members, invites, tokens, planVars>>
  BY DEF RealignUser, secretVars
<1>4. Rows
  BY <1>3, RowsUntouched
<1>5. HomesJoined'
  <2>1. PICK u \in User : u = users[c.user]
    BY <1>2 DEF IInv, IdentityTypeOK
  <2> DEFINE y == [u EXCEPT !.home = c.home, !.role = c.role]
  <2>2. y.home = c.home
    BY DEF User
  <2>3. users' = [users EXCEPT ![c.user] = y]
    BY <1>1, <2>1 DEF RealignUser
  <2> HIDE DEF y
  <2>4. IsMember(c.user, y.home)'
    BY <1>2, <1>3, <2>2 DEF IsMember
  <2> QED
    BY <1>2, <1>4, <2>3, <2>4, HomeWritten
<1> QED
  BY <1>3, <1>4, <1>5, EndsCounted, EndsKeepsCounts

LEMMA CreateMemberCounts ==
  ASSUME IInv, CInv, NEW r \in Requests, CreateMember(r)
  PROVE  CInv'
<1>1. PICK c \in Call : c = call[r]
  BY CallFacts
<1>2. /\ c.user \in Users /\ c.ws \in Workspaces /\ c.role \in Grantable /\ c.at = "join"
      /\ c.met # "none" => users[c.user].made
  BY <1>1, CallFacts DEF CreateMember, Fits
<1>3. Ends(r) /\ UNCHANGED <<invites, tokens, planVars>>
  BY DEF CreateMember, secretVars
<1>4. PICK u \in User : u = users[c.user]
  BY <1>2 DEF IInv, IdentityTypeOK
<1>5. CASE UNCHANGED <<users, members, crossed>>
  BY <1>3, <1>5, RowsUntouched, HomesKept, EndsCounted, EndsKeepsCounts
<1>6. ASSUME users' = [users EXCEPT ![c.user] = Hired(u, c)],
             members' = [members EXCEPT ![c.user][c.ws] = [role |-> c.role, active |-> TRUE]]
      PROVE  CInv'
  <2> DEFINE m == [role |-> c.role, active |-> TRUE]
  <2>1. m.role # Nothing
    BY <1>2
  <2>2. members' = [members EXCEPT ![c.user] = [members[c.user] EXCEPT ![c.ws] = m]]
    BY <1>6
  <2> HIDE DEF m
  <2>3. Rows /\ IsMember(c.user, c.ws)'
    BY <1>2, <1>3, <2>1, <2>2, MemberRow DEF Rows
  <2>4. ASSUME NEW w \in Workspaces
        PROVE  Active(w)' \subseteq Active(w) \cup (IF w = c.ws THEN {c.user} ELSE {})
    <3>1. Active(w)' \subseteq Active(w) \cup (IF w = c.ws /\ m.active THEN {c.user} ELSE {})
      BY <1>2, <2>1, <2>2, MemberRow
    <3> QED BY <3>1
  <2>5. PICK x : x = Hired(u, c)
    OBVIOUS
  <2>6. users' = [users EXCEPT ![c.user] = x]
    BY <1>6, <2>5
  <2>7. IF c.met = "none" THEN x.home = c.ws ELSE x.home = u.home
    <3>1. CASE c.met = "none"
      BY <2>5, <3>1 DEF Hired, NoUser
    <3>2. CASE c.met \in {"bare", "home", "away"}
      BY <2>5, <3>2 DEF Hired, User
    <3> QED
      BY <3>1, <3>2 DEF Call, Met
  <2>8. u.made => IsMember(c.user, u.home)
    BY <1>2, <1>4 DEF CInv, HomesJoined
  <2>9. u.made => IsMember(c.user, u.home)'
    BY <1>2, <2>3, <2>8 DEF Rows, User
  <2>10. IsMember(c.user, x.home)'
    BY <1>2, <1>4, <2>3, <2>7, <2>9 DEF IsMember
  <2>11. HomesJoined'
    BY <1>2, <2>3, <2>6, <2>10, HomeWritten
  <2>12. Moves(r) /\ call'[r].at = "idle" /\ r \in Adding(c.ws)
    BY <1>1, <1>2, <1>3, EndsMoves DEF Adding
  <2>13. \A w \in Workspaces : SeatLeft(w)'
    BY <1>2, <1>3, <2>4, <2>12, SeatTaken
  <2> QED
    BY <1>3, <2>3, <2>11, <2>13, EndsCounted, EndsKeepsCounts
<1> QED
  BY <1>1, <1>4, <1>5, <1>6 DEF CreateMember
-----------------------------------------------------------------------------
(* Steps that write tokens and invites                                     *)

LEMMA IssuedRow ==
  ASSUME IInv, NEW k \in Kind, NEW u \in Users, NEW n, tokens' = Issued(k, u, n)
  PROVE  /\ \A j \in Kind, v \in Users : j # k \/ v # u => tokens'[j][v] = tokens[j][v]
         /\ tokens'[k][u].made = tokens[k][u].made + 1
         /\ tokens'[k][u].fresh =
              {m \in tokens[k][u].fresh : m > n} \cup {tokens[k][u].made + 1}
         /\ tokens'[k][u].used = tokens[k][u].used
<1>1. PICK t \in Token : t = tokens[k][u]
  BY TokenFacts
<1>2. PICK f : f = {m \in t.fresh : m > n} \cup {t.made + 1}
  OBVIOUS
<1>3. PICK x : x = [t EXCEPT !.made = t.made + 1, !.fresh = f]
  OBVIOUS
<1>4. tokens' = [tokens EXCEPT ![k] = [tokens[k] EXCEPT ![u] = x]]
  BY <1>1, <1>2, <1>3 DEF Issued
<1>5. x.made = t.made + 1 /\ x.fresh = f /\ x.used = t.used
  BY <1>3 DEF Token
<1>6. \A j \in Kind, v \in Users : tokens'[j][v] = IF j = k /\ v = u THEN x ELSE tokens[j][v]
  BY <1>4, TokenFacts DEF IInv, IdentityTypeOK
<1> QED
  BY <1>1, <1>2, <1>5, <1>6

LEMMA RedeemedRow ==
  ASSUME IInv, NEW k \in Kind, NEW u \in Users, NEW n, tokens' = Redeemed(k, u, n)
  PROVE  /\ \A j \in Kind, v \in Users : j # k \/ v # u => tokens'[j][v] = tokens[j][v]
         /\ tokens'[k][u].made = tokens[k][u].made
         /\ tokens'[k][u].fresh = tokens[k][u].fresh \ {n}
         /\ tokens'[k][u].used = tokens[k][u].used + 1
<1>1. PICK t \in Token : t = tokens[k][u]
  BY TokenFacts
<1>2. PICK f : f = t.fresh \ {n}
  OBVIOUS
<1>3. PICK x : x = [t EXCEPT !.used = t.used + 1, !.fresh = f]
  OBVIOUS
<1>4. tokens' = [tokens EXCEPT ![k] = [tokens[k] EXCEPT ![u] = x]]
  BY <1>1, <1>2, <1>3 DEF Redeemed
<1>5. x.used = t.used + 1 /\ x.made = t.made /\ x.fresh = f
  BY <1>3 DEF Token
<1>6. \A j \in Kind, v \in Users : tokens'[j][v] = IF j = k /\ v = u THEN x ELSE tokens[j][v]
  BY <1>4, TokenFacts DEF IInv, IdentityTypeOK
<1> QED
  BY <1>1, <1>2, <1>5, <1>6

\* The new token makes up for the uses of width requests, and so does each that
\* it uses up.
LEMMA TokenIssued ==
  ASSUME IInv, CInv, NEW r \in Requests, Moves(r), call'[r].at = "idle",
         NEW k \in Kind, NEW u \in Users, NEW n, tokens' = Issued(k, u, n)
  PROVE  \A j \in Kind, v \in Users : TokenLeft(j, v)'
<1> SUFFICES ASSUME NEW j \in Kind, NEW v \in Users PROVE TokenLeft(j, v)'
  OBVIOUS
<1>1. \A i \in Kind, x \in Users : r \notin Redeeming(i, x)'
  BY DEF Redeeming
<1>2. CASE j # k \/ v # u
  <2>1. tokens'[j][v] = tokens[j][v]
    BY <1>2, IssuedRow
  <2> QED
    BY <1>1, <2>1, TokenKept
<1>3. CASE j = k /\ v = u
  <2>1. PICK made \in Nat, used \in Nat :
          made = tokens[k][u].made /\ used = tokens[k][u].used
    BY TokenCounts
  <2>2. PICK G \in SUBSET tokens[k][u].fresh : G = {m \in tokens[k][u].fresh : m > n}
    OBVIOUS
  <2>3. /\ tokens'[k][u].made = made + 1 /\ tokens'[k][u].used = used
        /\ tokens'[k][u].fresh = G \cup {made + 1}
    BY <2>1, <2>2, IssuedRow
  <2>4. /\ IsFiniteSet(G) /\ Cardinality(G) \in Nat
        /\ Cardinality(tokens[k][u].fresh) \in Nat
        /\ Cardinality(RedeemingOld(k, u)') \in Nat
        /\ Cardinality(RedeemingOld(k, u)') + Cardinality(G) * width
             <= Cardinality(RedeemingOld(k, u)) + Cardinality(tokens[k][u].fresh) * width
    BY <1>1, <2>3, FreshLeft
  <2>5. /\ G \subseteq 1..made
        /\ used + Cardinality(RedeemingOld(k, u)) + Cardinality(tokens[k][u].fresh) * width
             <= made * width
    BY <2>1, TokenCounts DEF CInv, TokenLeft
  <2>6. made + 1 \notin G
    BY <2>5
  <2>7. Cardinality(G \cup {made + 1}) = Cardinality(G) + 1
    BY <2>4, <2>6, FS_AddElement
  <2>8. width \in Nat /\ width' = width
    BY WidthFacts DEF Moves, planVars
  <2>9. PICK g \in Nat, f \in Nat, o \in Nat, p \in Nat :
          /\ g = Cardinality(G) /\ f = Cardinality(tokens[k][u].fresh)
          /\ o = Cardinality(RedeemingOld(k, u)) /\ p = Cardinality(RedeemingOld(k, u)')
    BY <2>4, TokenCounts
  <2>10. /\ g * width \in Nat /\ (g + 1) * width = g * width + width
         /\ made * width \in Nat /\ (made + 1) * width = made * width + width
         /\ f * width \in Nat
    BY <2>8, Times
  <2>11. p + g * width <= o + f * width /\ used + o + f * width <= made * width
    BY <2>4, <2>5, <2>9
  <2>12. used + p + (g + 1) * width <= (made + 1) * width
    BY <2>8, <2>10, <2>11
  <2>13. G \cup {made + 1} \subseteq 1..(made + 1)
    BY <2>5
  <2> QED
    BY <1>3, <2>3, <2>7, <2>8, <2>9, <2>12, <2>13 DEF TokenLeft
<1> QED
  BY <1>2, <1>3

\* A token that was fresh makes up for the use; if it was used meanwhile, the
\* request was one of those that held it.
LEMMA TokenRedeemed ==
  ASSUME IInv, CInv, NEW r \in Requests, Moves(r), call'[r].at = "idle",
         NEW k \in Kind, NEW u \in Users, r \in Redeeming(k, u),
         tokens' = Redeemed(k, u, call[r].seen)
  PROVE  \A j \in Kind, v \in Users : TokenLeft(j, v)'
<1> SUFFICES ASSUME NEW j \in Kind, NEW v \in Users PROVE TokenLeft(j, v)'
  OBVIOUS
<1>1. \A i \in Kind, x \in Users : r \notin Redeeming(i, x)'
  BY DEF Redeeming
<1>2. CASE j # k \/ v # u
  <2>1. tokens'[j][v] = tokens[j][v]
    BY <1>2, RedeemedRow
  <2> QED
    BY <1>1, <2>1, TokenKept
<1>3. CASE j = k /\ v = u
  <2> DEFINE F == tokens[k][u].fresh
             G == F \ {call[r].seen}
  <2>1. G \in SUBSET F
    OBVIOUS
  <2>2. /\ tokens'[k][u].made = tokens[k][u].made /\ tokens'[k][u].used = tokens[k][u].used + 1
        /\ tokens'[k][u].fresh = G
    BY RedeemedRow
  <2>3. /\ RedeemingOld(k, u) \in SUBSET Requests /\ RedeemingOld(k, u)' \in SUBSET Requests
        /\ RedeemingOld(k, u)' \subseteq Redeeming(k, u)'
        /\ Redeeming(k, u) \in SUBSET Running /\ Redeeming(k, u) \in SUBSET Requests
        /\ Redeeming(k, u)' \in SUBSET Requests
    BY DEF Redeeming, RedeemingOld, Running
  <2>4. PICK o \in Nat, p \in Nat :
          o = Cardinality(RedeemingOld(k, u)) /\ p = Cardinality(RedeemingOld(k, u)')
    BY <2>3, RequestsFinite
  <2>5. p + 1 <= width
    <3>1. \A q \in Redeeming(k, u)' : q # r => q \in Redeeming(k, u)
      BY DEF Redeeming, Moves
    <3>2. Cardinality(Redeeming(k, u)') + 1 <= Cardinality(Redeeming(k, u))
      BY <1>1, <2>3, <3>1, OneMoves
    <3>3. /\ IsFiniteSet(Redeeming(k, u)') /\ Cardinality(Redeeming(k, u)') \in Nat
          /\ p <= Cardinality(Redeeming(k, u)')
      BY <2>3, <2>4, RequestsFinite, FS_Subset
    <3>4. Cardinality(Redeeming(k, u)) <= width /\ Cardinality(Redeeming(k, u)) \in Nat
      BY <2>3, FewerThanRun
    <3> QED
      BY <3>2, <3>3, <3>4, WidthFacts
  <2>6. ASSUME G = F PROVE p + 1 <= o
    <3>1. r \in RedeemingOld(k, u) /\ r \notin RedeemingOld(k, u)'
      BY <1>1, <2>6 DEF RedeemingOld
    <3>2. \A q \in RedeemingOld(k, u)' : q # r => q \in RedeemingOld(k, u)
      BY <2>2, <2>6 DEF Redeeming, RedeemingOld, Moves
    <3> QED
      BY <2>3, <2>4, <3>1, <3>2, OneMoves
  <2>7. width \in Nat /\ width' = width /\ IsFiniteSet(F) /\ F \subseteq 1..tokens[k][u].made
    BY WidthFacts, TokenCounts DEF Moves, planVars
  <2>8. PICK made \in Nat, used \in Nat :
          made = tokens[k][u].made /\ used = tokens[k][u].used
    BY TokenCounts
  <2>9. used + o + Cardinality(F) * width <= made * width
    BY <2>4, <2>8 DEF CInv, TokenLeft
  <2> HIDE DEF F, G
  <2>10. /\ Cardinality(F) \in Nat /\ Cardinality(G) \in Nat
         /\ (p + 1) + Cardinality(G) * width <= o + Cardinality(F) * width
    <3>1. PICK n \in Nat : n = p + 1
      OBVIOUS
    <3>2. n <= width /\ (G = F => n <= o)
      BY <2>5, <2>6, <3>1
    <3>3. /\ Cardinality(F) \in Nat /\ Cardinality(G) \in Nat
          /\ n + Cardinality(G) * width <= o + Cardinality(F) * width
      BY <2>1, <2>4, <2>7, <3>2, FewerLeft
    <3> QED
      BY <3>1, <3>3
  <2>11. /\ Cardinality(G) * width \in Nat /\ Cardinality(F) * width \in Nat
         /\ made * width \in Nat
    BY <2>7, <2>10, Times
  <2>12. used + 1 + p + Cardinality(G) * width <= made * width
    BY <2>10, <2>9, <2>11
  <2>13. G \subseteq 1..made
    BY <2>1, <2>7, <2>8 DEF F
  <2> QED
    BY <1>3, <2>2, <2>4, <2>7, <2>8, <2>12, <2>13 DEF TokenLeft
<1> QED
  BY <1>2, <1>3

LEMMA IssueTokenCounts ==
  ASSUME IInv, CInv, NEW r \in Requests, IssueToken(r)
  PROVE  CInv'
<1>1. call[r].item \in Kind /\ call[r].user \in Users
  BY CallFacts DEF IssueToken, Fits
<1>2. Ends(r) /\ UNCHANGED <<users, members, invites, planVars>>
  BY DEF IssueToken, accountVars
<1>3. Moves(r) /\ call'[r].at = "idle"
  BY <1>2, EndsMoves
<1>4. \A k \in Kind, u \in Users : TokenLeft(k, u)'
  BY <1>1, <1>3, TokenIssued DEF IssueToken
<1>5. Rows
  BY <1>2, RowsUntouched
<1>6. HomesJoined'
  BY <1>2, <1>5, HomesKept
<1> QED
  BY <1>2, <1>4, <1>5, <1>6, EndsCounted, EndsKeepsCounts

\* A field that says nothing of the home is written.
LEMMA HomeLeft ==
  ASSUME IInv, CInv, Rows, NEW u \in Users, NEW f, users' = [users EXCEPT ![u] = f],
         f.made = users[u].made, f.home = users[u].home
  PROVE  HomesJoined'
<1>1. users[u].home \in Workspaces
  BY DEF IInv, IdentityTypeOK, User
<1>2. f.made => IsMember(u, users[u].home)
  BY DEF CInv, HomesJoined
<1>3. f.made => IsMember(u, f.home)'
  <2>1. ASSUME f.made PROVE members'[u][users[u].home].role # Nothing
    BY <1>1, <1>2, <2>1 DEF Rows, IsMember
  <2> QED
    BY <2>1 DEF IsMember
<1> QED
  BY <1>3, HomeWritten

LEMMA RedeemTokenCounts ==
  ASSUME IInv, CInv, NEW r \in Requests, RedeemToken(r)
  PROVE  CInv'
<1>1. PICK c \in Call : c = call[r]
  BY CallFacts
<1>2. c.item \in Kind /\ c.user \in Users /\ c.at = "redeem"
  BY <1>1, CallFacts DEF RedeemToken, Fits
<1>3. Ends(r) /\ UNCHANGED <<members, invites, planVars>>
  BY DEF RedeemToken
<1>4. Moves(r) /\ call'[r].at = "idle"
  BY <1>3, EndsMoves
<1>5. r \in Redeeming(c.item, c.user)
  BY <1>1, <1>2 DEF Redeeming
<1>6. \A k \in Kind, u \in Users : TokenLeft(k, u)'
  BY <1>1, <1>2, <1>4, <1>5, TokenRedeemed DEF RedeemToken
<1>7. Rows
  BY <1>3, RowsUntouched
<1>8. HomesJoined'
  <2>1. PICK x \in User : x = users[c.user]
    BY <1>2 DEF IInv, IdentityTypeOK
  <2>2. \/ users' = [users EXCEPT ![c.user] = [x EXCEPT !.secret = TRUE]]
        \/ users' = [users EXCEPT ![c.user] = [x EXCEPT !.verified = TRUE]]
    BY <1>1, <2>1 DEF RedeemToken
  <2>3. PICK f : /\ users' = [users EXCEPT ![c.user] = f]
                 /\ f.made = x.made /\ f.home = x.home
    BY <2>2 DEF User
  <2> QED
    BY <1>2, <1>7, <2>1, <2>3, HomeLeft
<1> QED
  BY <1>3, <1>6, <1>7, <1>8, EndsCounted, EndsKeepsCounts

\* An invite is written that was not used, or whose use is left as it is.
LEMMA InvitesLeftRows ==
  ASSUME IInv, CInv,
         \A i \in Invites : invites[i].made =>
           /\ invites'[i].made /\ invites'[i].used = invites[i].used
           /\ invites'[i].user = invites[i].user /\ invites'[i].ws = invites[i].ws,
         \A i \in Invites : ~invites[i].made => invites'[i].used = 0
                                                \/ invites'[i].used = invites[i].used,
         UNCHANGED members
  PROVE  /\ Rows
         /\ \A w \in Workspaces : Seated(w)' \subseteq Seated(w)
<1>1. Rows
  BY DEF Rows, IsMember
<1>2. ASSUME NEW i \in Invites, invites[i].used > 0 PROVE invites[i].made
  BY <1>2 DEF CInv, InviteLeft
<1>3. ASSUME NEW w \in Workspaces, NEW u \in Invited(w) PROVE u \in Invited(w)'
  <2>1. PICK i \in Invites : invites[i].used > 0 /\ invites[i].user = u /\ invites[i].ws = w
    BY <1>3 DEF Invited
  <2>2. invites'[i].used > 0 /\ invites'[i].user = u /\ invites'[i].ws = w
    BY <1>2, <2>1
  <2> QED
    BY <1>3, <2>2 DEF Invited
<1> QED
  BY <1>1, <1>3 DEF Seated, Active

LEMMA CreateInviteCounts ==
  ASSUME IInv, CInv, NEW r \in Requests, CreateInvite(r)
  PROVE  CInv'
<1>1. PICK c \in Call : c = call[r]
  BY CallFacts
<1>2. Ends(r) /\ UNCHANGED <<users, members, tokens, planVars>>
  BY DEF CreateInvite, accountVars
<1>3. Moves(r) /\ call'[r].at = "idle"
  BY <1>2, EndsMoves
<1>4. PICK i \in Invites :
        /\ ~invites[i].made
        /\ invites' = [invites EXCEPT ![i] =
             [NoInvite EXCEPT !.made = TRUE, !.user = c.user, !.ws = c.ws, !.role = c.role]]
  BY <1>1 DEF CreateInvite
<1>5. /\ invites'[i].used = 0
      /\ \A j \in Invites : j # i => invites'[j] = invites[j]
  BY <1>4 DEF NoInvite, IInv, IdentityTypeOK
<1>6. Rows /\ \A w \in Workspaces : Seated(w)' \subseteq Seated(w)
  BY <1>2, <1>4, <1>5, InvitesLeftRows
<1>7. HomesJoined'
  BY <1>2, <1>6, HomesKept
<1>8. ASSUME NEW j \in Invites PROVE InviteLeft(j)'
  <2>1. CASE j = i
    BY <1>5, <2>1 DEF InviteLeft
  <2>2. CASE j # i
    BY <1>3, <1>5, <2>2, InviteKept DEF Accepting
  <2> QED BY <2>1, <2>2
<1> QED
  BY <1>2, <1>3, <1>6, <1>7, <1>8, SeatsKeptLeft, EndsCounted, EndsKeepsCounts

LEMMA RevokeInviteCounts ==
  ASSUME IInv, CInv, NEW r \in Requests, RevokeInvite(r)
  PROVE  CInv'
<1>1. PICK c \in Call : c = call[r]
  BY CallFacts
<1>2. c.item \in Invites
  BY <1>1, CallFacts DEF RevokeInvite, Fits
<1>3. Ends(r) /\ UNCHANGED <<users, members, tokens, planVars>>
  BY DEF RevokeInvite, accountVars
<1>4. Moves(r) /\ call'[r].at = "idle"
  BY <1>3, EndsMoves
<1>5. PICK x \in Invite : x = invites[c.item]
  BY <1>2 DEF IInv, IdentityTypeOK
<1>6. PICK y \in Invite : /\ y.made = x.made /\ y.user = x.user /\ y.ws = x.ws /\ y.used = x.used
                          /\ invites' = [invites EXCEPT ![c.item] = y]
  BY <1>1, <1>5 DEF RevokeInvite, Invite
<1>7. \A j \in Invites :
        /\ invites'[j].made = invites[j].made /\ invites'[j].user = invites[j].user
        /\ invites'[j].ws = invites[j].ws /\ invites'[j].used = invites[j].used
  BY <1>2, <1>5, <1>6 DEF IInv, IdentityTypeOK
<1>8. Rows /\ \A w \in Workspaces : Seated(w)' \subseteq Seated(w)
  BY <1>3, <1>7, InvitesLeftRows
<1>9. HomesJoined'
  BY <1>3, <1>8, HomesKept
<1>10. \A j \in Invites : InviteLeft(j)'
  BY <1>4, <1>7, InviteKept DEF Accepting
<1> QED
  BY <1>3, <1>4, <1>8, <1>9, <1>10, SeatsKeptLeft, EndsCounted, EndsKeepsCounts

\* No request moves.
LEMMA InviteExpiresCounts ==
  ASSUME IInv, CInv, InviteExpires
  PROVE  CInv'
<1>1. UNCHANGED <<users, members, tokens, call, seats, width>>
  BY DEF InviteExpires, accountVars, planVars
<1>2. PICK i \in Invites : invites' = [invites EXCEPT ![i].expired = TRUE]
  BY DEF InviteExpires
<1>3. PICK x \in Invite : x = invites[i]
  BY DEF IInv, IdentityTypeOK
<1>4. PICK y \in Invite : /\ y.made = x.made /\ y.user = x.user /\ y.ws = x.ws /\ y.used = x.used
                          /\ invites' = [invites EXCEPT ![i] = y]
  BY <1>2, <1>3 DEF Invite
<1>5. \A j \in Invites :
        /\ invites'[j].made = invites[j].made /\ invites'[j].user = invites[j].user
        /\ invites'[j].ws = invites[j].ws /\ invites'[j].used = invites[j].used
  BY <1>3, <1>4 DEF IInv, IdentityTypeOK
<1>6. Rows /\ \A w \in Workspaces : Seated(w)' \subseteq Seated(w)
  BY <1>1, <1>5, InvitesLeftRows
<1>7. HomesJoined'
  BY <1>1, <1>6, HomesKept
<1>8. ASSUME NEW q \in Requests PROVE Knows(call[q])'
  <2>1. call'[q] = call[q]
    BY <1>1
  <2>2. Knows(call[q]) /\ Fits(call[q])
    BY CallFacts DEF CInv
  <2> QED
    BY <1>1, <1>5, <2>1, <2>2 DEF Knows, Fits, OfInvite, IsMember
<1>9. ASSUME NEW k \in Kind, NEW u \in Users PROVE TokenLeft(k, u)'
  <2>1. Redeeming(k, u)' = Redeeming(k, u) /\ RedeemingOld(k, u)' = RedeemingOld(k, u)
    BY <1>1 DEF Redeeming, RedeemingOld
  <2> QED
    BY <1>1, <2>1 DEF TokenLeft, CInv
<1>10. ASSUME NEW j \in Invites PROVE InviteLeft(j)'
  <2>1. Accepting(j)' = Accepting(j)
    BY <1>1 DEF Accepting
  <2> QED
    BY <1>1, <1>5, <2>1 DEF InviteLeft, CInv
<1>11. ASSUME NEW w \in Workspaces PROVE SeatLeft(w)'
  <2>1. Adding(w)' = Adding(w)
    BY <1>1 DEF Adding
  <2>2. Adding(w) \in SUBSET Requests /\ IsFiniteSet(Seated(w)')
    BY <1>6, SeatedIsFinite, FS_Subset DEF Adding
  <2>3. Cardinality(Adding(w)) \in Nat /\ Cardinality(Seated(w)') \in Nat
    BY <2>2, RequestsFinite, FS_CardinalityType
  <2>4. Cardinality(Seated(w)') <= Cardinality(Seated(w)) /\ Cardinality(Seated(w)) \in Nat
    BY <1>6, SeatedIsFinite, FS_Subset
  <2>5. SeatLeft(w)
    BY DEF CInv
  <2> QED
    BY <1>1, <2>1, <2>3, <2>4, <2>5, WidthFacts DEF SeatLeft
<1>12. Running' = Running
  BY <1>1 DEF Running
<1> QED
  BY <1>1, <1>7, <1>8, <1>9, <1>10, <1>11, <1>12 DEF CInv

LEMMA AcceptInviteCounts ==
  ASSUME IInv, CInv, NEW r \in Requests, AcceptInvite(r)
  PROVE  CInv'
<1>1. PICK c \in Call : c = call[r]
  BY CallFacts
<1>2. /\ c.user \in Users /\ c.ws \in Workspaces /\ c.role \in Grantable /\ c.item \in Invites
      /\ (c.seen = 1 => users[c.user].made) /\ OfInvite(c) /\ c.at = "accept"
  BY <1>1, CallFacts DEF AcceptInvite, Fits, CInv, Knows
<1>3. Ends(r) /\ UNCHANGED <<tokens, planVars>>
  BY DEF AcceptInvite
<1>4. Moves(r) /\ call'[r].at = "idle"
  BY <1>3, EndsMoves
<1>5. CASE UNCHANGED <<users, members, sessions, invites>>
  BY <1>3, <1>5, RowsUntouched, HomesKept, EndsCounted, EndsKeepsCounts
<1>6. ASSUME c.seen = 1 \/ ~users[c.user].made,
             users' = [users EXCEPT ![c.user] =
               IF c.seen = 1 THEN [users[c.user] EXCEPT !.verified = TRUE]
               ELSE [NoUser EXCEPT !.made = TRUE, !.home = c.ws, !.role = c.role,
                                   !.secret = TRUE, !.verified = TRUE]],
             members' = [members EXCEPT ![c.user][c.ws] = [role |-> c.role, active |-> TRUE]],
             invites' = [invites EXCEPT ![c.item].used = @ + 1]
      PROVE  CInv'
  <2>1. PICK x \in Invite : x = invites[c.item]
    BY <1>2 DEF IInv, IdentityTypeOK
  <2>2. x.used + 1 \in Nat /\ x.made /\ x.user = c.user /\ x.ws = c.ws
    BY <1>2, <2>1 DEF Invite, OfInvite
  <2>3. PICK y \in Invite : /\ y.made = x.made /\ y.user = x.user /\ y.ws = x.ws
                            /\ y.used = x.used + 1
                            /\ invites' = [invites EXCEPT ![c.item] = y]
    BY <1>6, <2>1, <2>2 DEF Invite
  <2>4. /\ \A j \in Invites : j # c.item => invites'[j] = invites[j]
        /\ invites'[c.item] = y
    BY <1>2, <2>3 DEF IInv, IdentityTypeOK
  <2> DEFINE m == [role |-> c.role, active |-> TRUE]
  <2>5. m.role # Nothing
    BY <1>2
  <2>6. members' = [members EXCEPT ![c.user] = [members[c.user] EXCEPT ![c.ws] = m]]
    BY <1>6
  <2> HIDE DEF m
  <2>7. /\ \A v \in Users, w \in Workspaces : IsMember(v, w) => IsMember(v, w)'
        /\ IsMember(c.user, c.ws)'
    BY <1>2, <2>5, <2>6, MemberRow
  <2>8. Rows
    BY <2>1, <2>2, <2>3, <2>4, <2>7 DEF Rows
  <2>9. HomesJoined'
    <3>1. CASE c.seen = 1
      <4>1. PICK u \in User : u = users[c.user]
        BY <1>2 DEF IInv, IdentityTypeOK
      <4>2. users' = [users EXCEPT ![c.user] = [u EXCEPT !.verified = TRUE]]
        BY <1>6, <3>1, <4>1
      <4>3. PICK f : f = [u EXCEPT !.verified = TRUE]
        OBVIOUS
      <4>4. f.made = u.made /\ f.home = u.home
        BY <4>3 DEF User
      <4> QED
        BY <1>2, <2>8, <4>1, <4>2, <4>3, <4>4, HomeLeft
    <3>2. CASE c.seen # 1
      <4>1. PICK f : f = [NoUser EXCEPT !.made = TRUE, !.home = c.ws, !.role = c.role,
                                        !.secret = TRUE, !.verified = TRUE]
        OBVIOUS
      <4>2. f.home = c.ws
        BY <4>1 DEF NoUser
      <4>3. users' = [users EXCEPT ![c.user] = f]
        BY <1>6, <3>2, <4>1
      <4>4. IsMember(c.user, f.home)'
        BY <2>7, <4>2 DEF IsMember
      <4> QED
        BY <1>2, <2>8, <4>3, <4>4, HomeWritten
    <3> QED BY <3>1, <3>2
  <2>10. ASSUME NEW j \in Invites PROVE InviteLeft(j)'
    <3>1. \A i \in Invites : r \notin Accepting(i)'
      BY <1>4 DEF Accepting
    <3>2. CASE j # c.item
      BY <1>4, <2>4, <3>1, <3>2, InviteKept
    <3>3. CASE j = c.item
      <4>1. /\ Accepting(j) \in SUBSET Running /\ Accepting(j) \in SUBSET Requests
            /\ Accepting(j)' \in SUBSET Requests /\ r \in Accepting(j)
        BY <1>1, <1>2, <3>3 DEF Accepting, Running
      <4>2. \A q \in Accepting(j)' : q # r => q \in Accepting(j)
        BY <1>4 DEF Accepting, Moves
      <4>3. Cardinality(Accepting(j)') + 1 <= Cardinality(Accepting(j))
        BY <3>1, <4>1, <4>2, OneMoves
      <4>4. Cardinality(Accepting(j)) <= width /\ Cardinality(Accepting(j)) \in Nat
            /\ Cardinality(Accepting(j)') \in Nat
        BY <4>1, FewerThanRun, RequestsFinite
      <4>5. x.used \in Nat /\ width \in Nat /\ width' = width
        BY <1>4, WidthFacts DEF Invite, Moves, planVars
      <4>6. x.used > 0 => x.used + Cardinality(Accepting(j)) <= width
        BY <2>1, <3>3 DEF CInv, InviteLeft
      <4>7. y.used + Cardinality(Accepting(j)') <= width'
        BY <2>3, <4>3, <4>4, <4>5, <4>6
      <4> QED
        BY <2>2, <2>3, <2>4, <3>3, <4>7 DEF InviteLeft
    <3> QED BY <3>2, <3>3
  <2>11. ASSUME NEW w \in Workspaces PROVE Seated(w)' \subseteq Seated(w)
    <3>1. Active(w)' \subseteq Active(w) \cup (IF w = c.ws /\ m.active THEN {c.user} ELSE {})
      BY <1>2, <2>5, <2>6, MemberRow
    <3>2. ASSUME NEW u \in Invited(w) PROVE u \in Invited(w)'
      <4>1. PICK i \in Invites : invites[i].used > 0 /\ invites[i].user = u /\ invites[i].ws = w
        BY <3>2 DEF Invited
      <4>2. x.used \in Nat
        BY DEF Invite
      <4>3. invites'[i].used > 0 /\ invites'[i].user = u /\ invites'[i].ws = w
        BY <2>1, <2>3, <2>4, <4>1, <4>2
      <4> QED
        BY <3>2, <4>3 DEF Invited
    <3>3. c.user \in Invited(c.ws)'
      <4>1. invites'[c.item].used > 0
        BY <2>1, <2>3, <2>4 DEF Invite
      <4> QED
        BY <1>2, <2>2, <2>3, <2>4, <4>1 DEF Invited
    <3> QED
      BY <3>1, <3>2, <3>3 DEF Seated
  <2> QED
    BY <1>3, <1>4, <2>8, <2>9, <2>10, <2>11, SeatsKeptLeft, EndsCounted, EndsKeepsCounts
<1> QED
  BY <1>1, <1>5, <1>6 DEF AcceptInvite

LEMMA FoundWorkspaceCounts ==
  ASSUME IInv, CInv, NEW r \in Requests, FoundWorkspace(r)
  PROVE  CInv'
<1>1. PICK c \in Call : c = call[r]
  BY CallFacts
<1> DEFINE oauth == c.at = "settle"
<1>2. c.user \in Users /\ (oauth => c.item = "signup")
  BY <1>1, CallFacts DEF FoundWorkspace, Fits
<1>3. Ends(r) /\ UNCHANGED <<invites, planVars>>
  BY DEF FoundWorkspace
<1>4. Moves(r) /\ call'[r].at = "idle"
  BY <1>3, EndsMoves
<1>5. CASE UNCHANGED <<accountVars, sessions, tokens>>
  <2>1. UNCHANGED <<users, members, tokens>>
    BY <1>5 DEF accountVars
  <2> QED
    BY <1>3, <2>1, RowsUntouched, HomesKept, EndsCounted, EndsKeepsCounts
<1>6. ASSUME NEW w \in Workspaces, founder[w] = Nothing,
             users' = [users EXCEPT ![c.user] = Founded(c.user, w, oauth)],
             members' = [members EXCEPT ![c.user][w] = [role |-> "owner", active |-> TRUE]],
             tokens' = IF oauth THEN Redeemed("signup", c.user, c.seen)
                                ELSE Issued("verify", c.user, 0)
      PROVE  CInv'
  <2> DEFINE m == [role |-> "owner", active |-> TRUE]
  <2>1. m.role # Nothing
    OBVIOUS
  <2>2. members' = [members EXCEPT ![c.user] = [members[c.user] EXCEPT ![w] = m]]
    BY <1>6
  <2>3. PICK x : x.home = w /\ users' = [users EXCEPT ![c.user] = x]
    <3>1. Founded(c.user, w, oauth).home = w
      BY <1>2 DEF Founded, IInv, IdentityTypeOK, User
    <3> QED
      BY <1>6, <3>1
  <2> HIDE DEF m
  <2>4. Rows /\ IsMember(c.user, w)'
    BY <1>2, <1>3, <2>1, <2>2, MemberRow DEF Rows
  <2>5. IsMember(c.user, x.home)'
    BY <2>3, <2>4 DEF IsMember
  <2>6. HomesJoined'
    BY <1>2, <2>3, <2>4, <2>5, HomeWritten
  <2>7. \A k \in Kind, u \in Users : TokenLeft(k, u)'
    <3>1. CASE oauth
      <4>1. r \in Redeeming("signup", c.user)
        BY <1>1, <1>2, <3>1 DEF Redeeming
      <4>2. "signup" \in Kind
        BY DEF Kind
      <4> QED
        BY <1>1, <1>2, <1>4, <1>6, <3>1, <4>1, <4>2, TokenRedeemed
    <3>2. CASE ~oauth
      <4>1. "verify" \in Kind
        BY DEF Kind
      <4> QED
        BY <1>2, <1>4, <1>6, <3>2, <4>1, TokenIssued
    <3> QED BY <3>1, <3>2
  <2>8. ASSUME NEW y \in Workspaces PROVE SeatLeft(y)'
    <3>1. r \notin Adding(y)'
      BY <1>4 DEF Adding
    <3>2. Active(y)' \subseteq Active(y) \cup (IF y = w /\ m.active THEN {c.user} ELSE {})
      BY <1>2, <2>1, <2>2, MemberRow
    <3>3. CASE y # w
      <4>1. Seated(y)' \subseteq Seated(y)
        BY <1>3, <3>2, <3>3 DEF Seated, Invited
      <4> QED
        BY <1>4, <3>1, <4>1, SeatKept
    <3>4. CASE y = w
      <4>1. Active(w) = {}
        BY <1>6 DEF Active, IInv, Tables, MembersBelong
      <4>2. Seated(w)' \subseteq {c.user}
        BY <3>2, <3>4, <4>1 DEF Seated
      <4>3. Cardinality(Seated(w)') <= 1 /\ Cardinality(Seated(w)') \in Nat
        <5>1. IsFiniteSet({c.user}) /\ Cardinality({c.user}) = 1
          BY FS_Singleton
        <5>2. IsFiniteSet(Seated(w)') /\ Cardinality(Seated(w)') <= 1
          BY <4>2, <5>1, FS_Subset
        <5> QED
          BY <5>2, FS_CardinalityType
      <4>4. Adding(w)' = {}
        <5>1. ASSUME NEW q \in Adding(w)' PROVE FALSE
          <6>1. q \in Requests /\ q # r
            BY <3>1, <3>4, <5>1 DEF Adding
          <6>2. call[q].at \in {"hire", "join", "enable"} /\ call[q].ws = w
            BY <1>4, <5>1, <6>1 DEF Adding, Moves
          <6>3. Fits(call[q]) /\ call[q].user \in Users
            BY <6>1, CallFacts
          <6>4. Foreign(call[q].user, w) \/ IsMember(call[q].user, w)
            BY <6>2, <6>3 DEF Fits
          <6> QED
            BY <1>6, <6>3, <6>4 DEF Foreign, IInv, Tables, MembersBelong
        <5> QED BY <5>1
      <4>5. Cardinality(Adding(w)') = 0
        BY <4>4, FS_EmptySet
      <4>6. seats' = seats /\ width' = width
        BY <1>4 DEF Moves, planVars
      <4> QED
        BY <3>4, <4>3, <4>5, <4>6, WidthFacts DEF SeatLeft
    <3> QED BY <3>3, <3>4
  <2> QED
    BY <1>3, <2>4, <2>6, <2>7, <2>8, EndsCounted, EndsKeepsCounts
<1>7. \/ UNCHANGED <<accountVars, sessions, tokens>>
      \/ \E w \in Workspaces :
           /\ founder[w] = Nothing
           /\ users' = [users EXCEPT ![c.user] = Founded(c.user, w, oauth)]
           /\ members' = [members EXCEPT ![c.user][w] = [role |-> "owner", active |-> TRUE]]
           /\ tokens' = IF oauth THEN Redeemed("signup", c.user, c.seen)
                                 ELSE Issued("verify", c.user, 0)
  BY <1>1, Zenon DEF FoundWorkspace
<1> QED
  BY <1>5, <1>6, <1>7

LEMMA AnonymizeMemberCounts ==
  ASSUME IInv, CInv, NEW r \in Requests, AnonymizeMember(r)
  PROVE  CInv'
<1>1. PICK c \in Call : c = call[r]
  BY CallFacts
<1>2. c.user \in Users
  BY <1>1, CallFacts
<1>3. Ends(r) /\ UNCHANGED <<members, planVars>>
  BY DEF AnonymizeMember
<1>4. Moves(r) /\ call'[r].at = "idle"
  BY <1>3, EndsMoves
<1>5. ASSUME NEW i \in Invites
      PROVE  /\ invites'[i].made = invites[i].made /\ invites'[i].user = invites[i].user
             /\ invites'[i].ws = invites[i].ws /\ invites'[i].used = invites[i].used
  <2>1. PICK x \in Invite : x = invites[i]
    BY DEF IInv, IdentityTypeOK
  <2>2. invites'[i] = x \/ invites'[i] = [x EXCEPT !.revoked = TRUE]
    BY <2>1 DEF AnonymizeMember
  <2>3. CASE invites'[i] = x
    BY <2>1, <2>3
  <2>4. CASE invites'[i] = [x EXCEPT !.revoked = TRUE]
    BY <2>1, <2>4 DEF Invite
  <2> QED BY <2>2, <2>3, <2>4
<1>6. Rows /\ \A w \in Workspaces : Seated(w)' \subseteq Seated(w)
  BY <1>3, <1>5, InvitesLeftRows
<1>7. HomesJoined'
  <2>1. PICK u \in User : u = users[c.user]
    BY <1>2 DEF IInv, IdentityTypeOK
  <2>2. PICK f : f = Redacted(u)
    OBVIOUS
  <2>3. users' = [users EXCEPT ![c.user] = f]
    BY <1>1, <2>1, <2>2 DEF AnonymizeMember
  <2>4. f.made = u.made /\ f.home = u.home
    BY <2>2 DEF Redacted, User
  <2> QED
    BY <1>2, <1>6, <2>1, <2>3, <2>4, HomeLeft
<1>8. ASSUME NEW k \in Kind, NEW u \in Users PROVE TokenLeft(k, u)'
  <2>1. r \notin Redeeming(k, u)'
    BY <1>4 DEF Redeeming
  <2>2. PICK t \in [Users -> Token] : t = tokens[k]
    BY TokenFacts
  <2>3. tokens'[k] = t \/ tokens'[k] = [t EXCEPT ![c.user].fresh = {}]
    BY <1>1, <2>2 DEF AnonymizeMember
  <2>4. tokens'[k][u] = t[u] \/ tokens'[k][u] = [t[u] EXCEPT !.fresh = {}]
    BY <2>2, <2>3
  <2>5. t[u] \in Token
    BY <2>2
  <2>6. /\ tokens'[k][u].made = t[u].made /\ tokens'[k][u].used = t[u].used
        /\ tokens'[k][u].fresh \subseteq t[u].fresh
    <3>1. CASE tokens'[k][u] = t[u]
      BY <3>1
    <3>2. CASE tokens'[k][u] = [t[u] EXCEPT !.fresh = {}]
      BY <2>5, <3>2 DEF Token
    <3> QED BY <2>4, <3>1, <3>2
  <2> QED
    BY <1>4, <2>1, <2>2, <2>6, TokenKept
<1>9. \A i \in Invites : InviteLeft(i)'
  BY <1>4, <1>5, InviteKept DEF Accepting
<1>10. \A w \in Workspaces : SeatLeft(w)'
  BY <1>4, <1>6, SeatsKeptLeft
<1> QED
  BY <1>3, <1>6, <1>7, <1>8, <1>9, <1>10, EndsCounted

LEMMA NextCounts ==
  IInv /\ CInv /\ [IdentityNext]_identityVars => CInv'
<1> SUFFICES ASSUME IInv, CInv, [IdentityNext]_identityVars PROVE CInv'
  OBVIOUS
<1>1. CASE InviteExpires
  BY <1>1, InviteExpiresCounts
<1>2. ASSUME NEW r \in Requests, SessionStep(r) PROVE CInv'
  BY <1>2, FindSessionCounts, EnsurePrimaryMembershipCounts, AdmitSessionCounts,
     FindTargetCounts, MoveSessionCounts, FindSessionAgainCounts, LogoutCounts, RecogniseCounts,
     PickWorkspaceCounts, EnterCounts DEF SessionStep
<1>3. ASSUME NEW r \in Requests, TokenStep(r) PROVE CInv'
  BY <1>3, RequestTokenCounts, FindTokensCounts, IssueTokenCounts, FindTokenCounts,
     RedeemTokenCounts, FindAddressFreeCounts, FindOwnerCounts, FoundWorkspaceCounts DEF TokenStep
<1>4. ASSUME NEW r \in Requests, InviteStep(r) PROVE CInv'
  BY <1>4, CheckNoMemberCounts, CheckNoInviteCounts, CreateInviteCounts, FindInviteCounts,
     RevokeInviteCounts, FindInvitedCounts, AcceptInviteCounts DEF InviteStep
<1>5. ASSUME NEW r \in Requests, AdminStep(r) PROVE CInv'
  BY <1>5, CheckHireCounts, FindHiredCounts, CreateMemberCounts, AdministerCounts,
     LockMemberCounts, UpdateMemberCounts,
     DisableMemberCounts, FindHomeCounts, FindNextHomeCounts, RealignUserCounts,
     CheckSeatCounts, EnableMemberCounts, AnonymizeMemberCounts DEF AdminStep
<1>6. CASE UNCHANGED identityVars
  <2>1. UNCHANGED <<users, members, invites, tokens, call, seats, width>>
    BY <1>6 DEF identityVars
  <2>2. Running' = Running
    BY <2>1 DEF Running
  <2>3. HomesJoined' /\ \A r \in Requests : Knows(call[r])'
    BY <2>1 DEF CInv, HomesJoined, Knows, OfInvite, IsMember
  <2>4. ASSUME NEW k \in Kind, NEW u \in Users PROVE TokenLeft(k, u)'
    <3>1. Redeeming(k, u)' = Redeeming(k, u) /\ RedeemingOld(k, u)' = RedeemingOld(k, u)
      BY <2>1 DEF Redeeming, RedeemingOld
    <3> QED
      BY <2>1, <3>1 DEF TokenLeft, CInv
  <2>5. ASSUME NEW i \in Invites PROVE InviteLeft(i)'
    <3>1. Accepting(i)' = Accepting(i)
      BY <2>1 DEF Accepting
    <3> QED
      BY <2>1, <3>1 DEF InviteLeft, CInv
  <2>6. ASSUME NEW w \in Workspaces PROVE SeatLeft(w)'
    <3>1. Adding(w)' = Adding(w) /\ Seated(w)' = Seated(w)
      BY <2>1 DEF Adding, Seated, Active, Invited
    <3> QED
      BY <2>1, <3>1 DEF SeatLeft, CInv
  <2> QED
    BY <2>1, <2>2, <2>3, <2>4, <2>5, <2>6 DEF CInv
<1> QED
  BY <1>1, <1>2, <1>3, <1>4, <1>5, <1>6 DEF IdentityNext

LEMMA InitCounts ==
  IdentityInit => CInv
<1> SUFFICES ASSUME IdentityInit PROVE CInv
  OBVIOUS
<1>1. PICK sites \in (SUBSET Workspaces) \ {{}}, guests \in SUBSET (Users \ {Founder}),
           given \in Grantable :
        \E home \in [Users -> sites] : FirstAccounts(sites, guests, given, home)
  BY DEF IdentityInit
<1>2. PICK home \in [Users -> sites] : FirstAccounts(sites, guests, given, home)
  BY <1>1
<1> DEFINE there == guests \cup {Founder}
<1>3. IInv
  BY InitHolds
<1>4. /\ invites = [i \in Invites |-> NoInvite]
      /\ \A r \in Requests : call[r].at = "idle"
  BY DEF IdentityInit, Idle
<1>5. \A S \in SUBSET Requests : S = {} => Cardinality(S) = 0
  BY FS_EmptySet
<1>6. Cardinality(Running) <= width
  <2>1. Running = {}
    BY <1>4 DEF Running
  <2> QED
    BY <1>3, <1>5, <2>1, WidthFacts
<1>7. HomesJoined
  <2> SUFFICES ASSUME NEW u \in Users, users[u].made PROVE IsMember(u, users[u].home)
    BY DEF HomesJoined
  <2>1. users[u].home = home[u] /\ u \in there
    <3>1. CASE u \in there
      <4>1. users[u] = [NoUser EXCEPT !.made = TRUE, !.home = home[u],
                          !.role = RoleOf(u, given), !.secret = TRUE]
        BY <1>2, <3>1 DEF FirstAccounts
      <4> QED
        BY <3>1, <4>1 DEF NoUser
    <3>2. CASE u \notin there
      <4>1. users[u] = NoUser
        BY <1>2, <3>2 DEF FirstAccounts
      <4> QED
        BY <4>1 DEF NoUser
    <3> QED BY <3>1, <3>2
  <2>2. members[u][home[u]] = [role |-> RoleOf(u, given), active |-> TRUE]
    BY <1>2, <2>1 DEF FirstAccounts
  <2>3. RoleOf(u, given) # Nothing
    BY DEF RoleOf
  <2> QED
    BY <2>1, <2>2, <2>3 DEF IsMember
<1>8. \A r \in Requests : Knows(call[r])
  BY <1>4 DEF Knows
<1>9. ASSUME NEW k \in Kind, NEW u \in Users PROVE TokenLeft(k, u)
  <2>1. RedeemingOld(k, u) = {}
    BY <1>4 DEF Redeeming, RedeemingOld
  <2>2. Cardinality(RedeemingOld(k, u)) = 0
    BY <1>5, <2>1
  <2>3. tokens[k][u].used = 0
    BY InitialTokens
  <2>4. CASE tokens[k][u].made = 0 /\ tokens[k][u].fresh = {}
    <3>1. Cardinality({}) = 0
      BY FS_EmptySet
    <3> QED
      BY <1>3, <2>2, <2>3, <2>4, <3>1, WidthFacts DEF TokenLeft
  <2>5. CASE tokens[k][u].made = 1 /\ tokens[k][u].fresh = {1}
    <3>1. Cardinality({1}) = 1
      BY FS_Singleton
    <3> QED
      BY <1>3, <2>2, <2>3, <2>5, <3>1, WidthFacts DEF TokenLeft
  <2> QED
    BY <2>4, <2>5, InitialTokens
<1>10. \A i \in Invites : InviteLeft(i)
  BY <1>4 DEF InviteLeft, NoInvite
<1>11. ASSUME NEW w \in Workspaces PROVE SeatLeft(w)
  <2>1. Adding(w) = {}
    BY <1>4 DEF Adding
  <2>2. Cardinality(Adding(w)) = 0
    BY <1>5, <2>1
  <2>3. Active(w) \subseteq there
    BY <1>2 DEF Active, FirstAccounts, NoMember
  <2>4. IsFiniteSet(there) /\ there \in SUBSET Users
    BY FS_Subset
  <2>5. Cardinality(Active(w)) <= Cardinality(there)
    BY <2>3, <2>4, FS_Subset
  <2>6. Cardinality(there) <= seats /\ Cardinality(there) \in Nat
    <3>1. Cardinality(there) \in Nat
      BY <2>4, FS_CardinalityType
    <3>2. seats \in Cardinality(there)..MaxSeats
      BY <1>2 DEF FirstAccounts
    <3> HIDE DEF there
    <3> QED
      BY <3>1, <3>2
  <2> QED
    BY <1>3, <2>2, <2>5, <2>6, SeatedIsFinite, WidthFacts DEF SeatLeft
<1> QED
  BY <1>6, <1>7, <1>8, <1>9, <1>10, <1>11 DEF CInv

LEMMA CountsHold ==
  IdentitySpec => [](IInv /\ CInv)
<1>1. IdentityInit => IInv /\ CInv
  BY InitHolds, InitCounts
<1>2. IInv /\ CInv /\ [IdentityNext]_identityVars => (IInv /\ CInv)'
  BY NextKeepsInv, NextCounts
<1> QED
  BY <1>1, <1>2, PTL DEF IdentitySpec

\* A mailed token, a provider's sign-up token and an invite are used once, or
\* at most as often as requests run at once: none looks at the token again in
\* its transaction, so those that found it fresh together all succeed.
THEOREM TokensAreUsedAtMostOnce == IdentitySpec => []TokensAreUsedUp
<1>1. ASSUME IInv, CInv PROVE TokensAreUsedUp
  <2>1. ASSUME NEW k \in Kind, NEW u \in Users
        PROVE  tokens[k][u].used <= tokens[k][u].made * width
    <3>1. PICK o \in Nat : o = Cardinality(RedeemingOld(k, u))
      BY <1>1, TokenCounts
    <3>2. Cardinality(tokens[k][u].fresh) \in Nat
      BY <1>1, TokenCounts, FS_CardinalityType
    <3>3. /\ tokens[k][u].used \in Nat /\ tokens[k][u].made * width \in Nat
          /\ Cardinality(tokens[k][u].fresh) * width \in Nat
      BY <1>1, <3>2, TokenFacts, WidthFacts, Times
    <3> QED
      BY <1>1, <3>1, <3>3 DEF CInv, TokenLeft
  <2>2. ASSUME NEW i \in Invites
        PROVE  invites[i].used <= width
    <3>1. Accepting(i) \in SUBSET Requests
      BY DEF Accepting
    <3>2. Cardinality(Accepting(i)) \in Nat
      BY <3>1, RequestsFinite
    <3>3. invites[i].used \in Nat
      BY <1>1 DEF IInv, IdentityTypeOK, Invite
    <3> QED
      BY <1>1, <3>2, <3>3, WidthFacts DEF CInv, InviteLeft
  <2> QED
    BY <2>1, <2>2 DEF TokensAreUsedUp
<1> QED
  BY <1>1, CountsHold, PTL

\* The active members of a workspace exceed its seats by no more than the
\* requests that took the last seat together, and the members that came by an
\* invite, which nobody checks against the seats.
THEOREM SeatsAreKept == IdentitySpec => []SeatsHold
<1>1. ASSUME IInv, CInv PROVE SeatsHold
  <2> SUFFICES ASSUME NEW w \in Workspaces
               PROVE  Cardinality(Active(w)) <= seats + width - 1 + Cardinality(Invited(w))
    BY DEF SeatsHold, Invited
  <2>1. Invited(w) \in SUBSET Users
    BY DEF Invited
  <2>2. IsFiniteSet(Invited(w)) /\ Cardinality(Invited(w)) \in Nat
    BY <2>1, FS_Subset, FS_CardinalityType
  <2>3. /\ IsFiniteSet(Seated(w)) /\ Cardinality(Seated(w)) \in Nat
        /\ Cardinality(Active(w)) \in Nat
    BY SeatedIsFinite
  <2>4. IsFiniteSet(Seated(w) \cup Invited(w))
    BY <2>2, <2>3, FS_Union
  <2>5. Cardinality(Seated(w) \cup Invited(w)) <= Cardinality(Seated(w)) + Cardinality(Invited(w))
    <3>1. Cardinality(Seated(w) \cup Invited(w)) =
            Cardinality(Seated(w)) + Cardinality(Invited(w)) - Cardinality(Seated(w) \cap Invited(w))
      BY <2>2, <2>3, FS_Union
    <3>2. Seated(w) \cap Invited(w) = {}
      BY DEF Seated
    <3>3. Cardinality(Seated(w) \cap Invited(w)) = 0
      BY <3>2, FS_EmptySet
    <3> QED
      BY <2>2, <2>3, <3>1, <3>3
  <2>6. Active(w) \subseteq Seated(w) \cup Invited(w)
    BY DEF Seated
  <2>7. Cardinality(Active(w)) <= Cardinality(Seated(w) \cup Invited(w))
        /\ Cardinality(Seated(w) \cup Invited(w)) \in Nat
    BY <2>4, <2>6, FS_Subset, FS_CardinalityType
  <2>8. Cardinality(Adding(w)) \in Nat
    BY RequestsFinite DEF Adding
  <2>9. SeatLeft(w)
    BY <1>1 DEF CInv
  <2> QED
    BY <1>1, <2>2, <2>3, <2>5, <2>7, <2>8, <2>9, WidthFacts DEF SeatLeft
<1> QED
  BY <1>1, CountsHold, PTL
-----------------------------------------------------------------------------
(* One request at a time                                                   *)

Runs(r) == Moves(r) /\ (call[r].at # "idle" \/ Cardinality(Running) < width)

\* Where one request runs at a time, no other is anywhere.
LEMMA Alone ==
  ASSUME IInv, CInv, NEW r \in Requests, Runs(r), width = 1, NEW q \in Requests, q # r
  PROVE  call[q].at = "idle" /\ call'[q] = call[q]
<1>1. call'[q] = call[q]
  BY DEF Runs, Moves
<1>2. ASSUME call[q].at # "idle" PROVE FALSE
  <2>1. Running \in SUBSET Requests /\ q \in Running
    BY <1>2 DEF Running
  <2>2. IsFiniteSet(Running) /\ Cardinality(Running) \in Nat /\ Cardinality(Running) <= 1
    BY <2>1, RequestsFinite DEF CInv
  <2>3. IsFiniteSet({q}) /\ Cardinality({q}) = 1
    BY FS_Singleton
  <2>4. Cardinality({q}) <= Cardinality(Running)
    BY <2>1, <2>2, FS_Subset
  <2>5. r \in Running
    BY <2>2, <2>3, <2>4 DEF Runs, Running
  <2>6. {q, r} \subseteq Running /\ IsFiniteSet({q, r})
    BY <2>1, <2>2, <2>5, FS_Subset
  <2>7. Cardinality({q, r}) <= Cardinality(Running)
    BY <2>2, <2>6, FS_Subset
  <2>8. Cardinality({q} \cup {r}) = Cardinality({q}) + 1
    BY <2>3, FS_AddElement
  <2>9. {q, r} = {q} \cup {r}
    OBVIOUS
  <2> QED
    BY <2>2, <2>3, <2>7, <2>8, <2>9
<1> QED
  BY <1>1, <1>2

LEMMA SerialStep ==
  ASSUME IInv, CInv, NEW r \in Requests, Runs(r),
         width = 1 => /\ Current(call[r])'
                      /\ \A u \in Users : HomeRole(u)' /\ NothingLeft(u)'
                      /\ \A s \in Sessions : Entitled(s)'
  PROVE  SInv'
<1>1. width' = width
  BY DEF Runs, Moves, planVars
<1>2. ASSUME width = 1, NEW q \in Requests PROVE Current(call[q])'
  <2>1. CASE q = r
    BY <1>2, <2>1
  <2>2. CASE q # r
    <3>1. call'[q].at = "idle"
      BY <1>2, <2>2, Alone
    <3> QED
      BY <3>1 DEF Current
  <2> QED BY <2>1, <2>2
<1> QED
  BY <1>1, <1>2 DEF SInv

LEMMA SerialReads ==
  ASSUME IInv, CInv, SInv, NEW r \in Requests, Runs(r), UNCHANGED <<accountVars, secretVars>>,
         width = 1 => Current(call'[r])
  PROVE  SInv'
<1>1. UNCHANGED <<users, members, sessions, invites, tokens>>
  BY DEF accountVars, secretVars
<1>2. ASSUME width = 1, NEW u \in Users PROVE HomeRole(u)' /\ NothingLeft(u)'
  BY <1>1, <1>2 DEF SInv, HomeRole, NothingLeft, OpenInvites
<1>3. ASSUME width = 1, NEW s \in Sessions PROVE Entitled(s)'
  BY <1>1, <1>3 DEF SInv, Entitled, Resets
<1>4. ASSUME width = 1 PROVE Current(call[r])'
  BY <1>1, <1>4 DEF Current, Resets
<1> QED
  BY <1>2, <1>3, <1>4, SerialStep

LEMMA StartsRuns ==
  ASSUME IInv, NEW r \in Requests, NEW c, Starts(r, c), UNCHANGED planVars
  PROVE  Runs(r) /\ call'[r] = c
BY StartsMoves DEF Runs, Starts

LEMMA EndsRuns ==
  ASSUME IInv, NEW r \in Requests, Ends(r), UNCHANGED planVars, call[r].at # "idle"
  PROVE  Runs(r) /\ Current(call'[r]) /\ Current(call[r])'
<1>1. Runs(r) /\ call'[r].at = "idle"
  BY EndsMoves DEF Runs
<1> QED
  BY <1>1 DEF Current

LEMMA GoesRuns ==
  ASSUME IInv, NEW r \in Requests, NEW to, Goes(r, to), UNCHANGED planVars, call[r].at # "idle"
  PROVE  /\ Runs(r) /\ call'[r].at = to
         /\ call'[r].user = call[r].user /\ call'[r].ws = call[r].ws
         /\ call'[r].home = call[r].home /\ call'[r].role = call[r].role
         /\ call'[r].item = call[r].item /\ call'[r].seen = call[r].seen
         /\ call'[r].to = call[r].to
BY GoesMoves DEF Runs

LEMMA SerialEnds ==
  ASSUME IInv, CInv, SInv, NEW r \in Requests, Ends(r), UNCHANGED planVars, call[r].at # "idle",
         UNCHANGED <<accountVars, secretVars>>
  PROVE  SInv'
BY EndsRuns, SerialReads

\* The request goes on to a step that relies on nothing it has read.
LEMMA SerialGoes ==
  ASSUME IInv, CInv, SInv, NEW r \in Requests, NEW to, Goes(r, to), UNCHANGED planVars,
         call[r].at # "idle", UNCHANGED <<accountVars, secretVars>>,
         to \notin {"upsert", "pick", "enter", "realign", "move", "issue", "mail", "redeem",
                    "found", "settle", "open", "invite", "accept", "join", "rerole", "redact"}
  PROVE  SInv'
<1>1. Runs(r) /\ call'[r].at = to
  BY GoesRuns
<1> QED
  BY <1>1, SerialReads DEF Current

LEMMA SerialStarts ==
  ASSUME IInv, CInv, SInv, NEW r \in Requests, NEW c, Starts(r, c),
         UNCHANGED <<accountVars, secretVars, planVars>>, width = 1 => Current(c)
  PROVE  SInv'
<1>1. Runs(r) /\ call'[r] = c
  BY StartsRuns
<1> QED
  BY <1>1, SerialReads

LEMMA FindTargetSerial ==
  ASSUME IInv, CInv, SInv, NEW r \in Requests, FindTarget(r)
  PROVE  SInv'
<1>1. call[r].at = "target" /\ UNCHANGED planVars /\ UNCHANGED <<accountVars, secretVars>>
  BY DEF FindTarget
<1>2. CASE members[call[r].user][call[r].to].active /\ Goes(r, "move")
  <2>1. /\ Runs(r) /\ call'[r].at = "move" /\ call'[r].user = call[r].user
        /\ call'[r].to = call[r].to
    BY <1>1, <1>2, GoesRuns
  <2>2. Current(call'[r])
    BY <1>2, <2>1 DEF Current
  <2> QED
    BY <1>1, <2>1, <2>2, SerialReads
<1>3. CASE Ends(r)
  BY <1>1, <1>3, SerialEnds
<1> QED
  BY <1>2, <1>3 DEF FindTarget

LEMMA FindSessionAgainSerial ==
  ASSUME IInv, CInv, SInv, NEW r \in Requests, FindSessionAgain(r)
  PROVE  SInv'
<1> DEFINE s == sessions[call[r].item]
<1>1. /\ Fits(call[r]) /\ call[r].at = "again" /\ call[r] \in Call
      /\ UNCHANGED planVars /\ UNCHANGED <<accountVars, secretVars>>
  BY CallFacts DEF FindSessionAgain
<1>2. OfSession(call[r]) /\ s.user = call[r].user
  BY <1>1 DEF Fits, OfSession
<1>3. CASE s.live
  <2>1. Moves(r)
        /\ call'[r] = [call[r] EXCEPT !.at = "upsert", !.ws = s.ws, !.home = users[s.user].home,
                                 !.role = users[s.user].role, !.to = Nothing]
    BY <1>1, <1>3, BecomesMoves DEF FindSessionAgain
  <2>2. /\ call'[r].at = "upsert" /\ call'[r].user = s.user /\ call'[r].item = call[r].item
        /\ call'[r].home = users[s.user].home /\ call'[r].role = users[s.user].role
    BY ZenonT(60), <1>1, <1>2, <2>1 DEF Call
  <2>3. Current(call'[r])
    BY <1>2, <2>2 DEF Current, OfSession
  <2> QED
    BY <1>1, <2>1, <2>3, SerialReads DEF Runs
<1>4. CASE ~s.live
  BY <1>1, <1>4, SerialEnds DEF FindSessionAgain
<1> QED
  BY <1>3, <1>4

LEMMA RecogniseSerial ==
  ASSUME IInv, CInv, SInv, NEW r \in Requests, Recognise(r)
  PROVE  SInv'
<1>1. PICK u \in Users, how \in {Nothing, "link"} :
        /\ IF how = "link" THEN Known(u) /\ ~users[u].linked
                           ELSE (Known(u) /\ users[u].secret) \/ users[u].linked
        /\ Starts(r, [Idle EXCEPT !.at = "upsert", !.user = u, !.home = users[u].home,
                        !.role = users[u].role, !.item = how, !.seen = Resets(u)])
        /\ UNCHANGED <<accountVars, secretVars, planVars>>
  BY DEF Recognise
<1>2. ASSUME width = 1 PROVE ~users[u].redacted
  <2>1. Known(u) \/ users[u].linked
    BY <1>1
  <2>2. NothingLeft(u)
    BY <1>2 DEF SInv
  <2> QED
    BY <2>1, <2>2 DEF Known, NothingLeft
<1> DEFINE c == [Idle EXCEPT !.at = "upsert", !.user = u, !.home = users[u].home,
                        !.role = users[u].role, !.item = how, !.seen = Resets(u)]
<1>3. /\ c.at = "upsert" /\ c.user = u /\ c.home = users[u].home /\ c.role = users[u].role
      /\ c.seen = Resets(u)
  BY DEF Idle
<1>4. Starts(r, c)
  BY <1>1
<1> HIDE DEF c
<1>5. ASSUME width = 1 PROVE Current(c)
  BY <1>2, <1>3, <1>5 DEF Current
<1> QED
  BY <1>1, <1>4, <1>5, SerialStarts

LEMMA PickWorkspaceSerial ==
  ASSUME IInv, CInv, SInv, NEW r \in Requests, PickWorkspace(r)
  PROVE  SInv'
<1>1. /\ call[r].at = "pick" /\ call[r] \in Call
      /\ UNCHANGED planVars /\ UNCHANGED <<accountVars, secretVars>>
  BY CallFacts DEF PickWorkspace
<1>2. ASSUME NEW w \in Workspaces, members[call[r].user][w].active,
             call' = [call EXCEPT ![r] = [call[r] EXCEPT !.at = "enter", !.ws = w]]
      PROVE  SInv'
  <2>1. Moves(r) /\ call'[r] = [call[r] EXCEPT !.at = "enter", !.ws = w]
    BY <1>1, <1>2, BecomesMoves
  <2>2. /\ call'[r].at = "enter" /\ call'[r].ws = w /\ call'[r].user = call[r].user
        /\ call'[r].item = call[r].item /\ call'[r].seen = call[r].seen
    BY <1>1, <2>1 DEF Call
  <2>3. ASSUME width = 1 PROVE Current(call'[r])
    BY <1>1, <1>2, <2>2, <2>3 DEF Current, SInv
  <2> QED
    BY <1>1, <2>1, <2>3, SerialReads DEF Runs
<1>3. Ends(r) => SInv'
  BY <1>1, SerialEnds
<1>4. \/ Ends(r)
      \/ \E w \in Workspaces :
           /\ members[call[r].user][w].active
           /\ call' = [call EXCEPT ![r] = [call[r] EXCEPT !.at = "enter", !.ws = w]]
  BY DEF PickWorkspace
<1> QED
  BY <1>2, <1>3, <1>4

LEMMA RequestTokenSerial ==
  ASSUME IInv, CInv, SInv, NEW r \in Requests, RequestToken(r)
  PROVE  SInv'
<1>1. PICK k \in Kind, u \in Users :
        /\ CASE k = "reset" -> Known(u)
             [] k = "verify" -> Known(u) /\ ~users[u].verified
             [] OTHER -> ~users[u].made
        /\ Starts(r, [Idle EXCEPT !.at = "issue", !.user = u, !.item = k])
        /\ UNCHANGED <<accountVars, secretVars, planVars>>
  BY DEF RequestToken
<1>2. k # "signup" => ~users[u].redacted
  <2>1. k # "signup" => k = "reset" \/ k = "verify"
    BY DEF Kind
  <2>2. k = "reset" => Known(u)
    BY <1>1
  <2>3. k = "verify" => Known(u)
    BY <1>1
  <2> QED
    BY <2>1, <2>2, <2>3 DEF Known
<1> DEFINE c == [Idle EXCEPT !.at = "issue", !.user = u, !.item = k]
<1>3. c.at = "issue" /\ c.user = u /\ c.item = k
  BY DEF Idle
<1>4. Starts(r, c)
  BY <1>1
<1> HIDE DEF c
<1>5. Current(c)
  BY <1>2, <1>3 DEF Current
<1> QED
  BY <1>1, <1>4, <1>5, SerialStarts

LEMMA FindTokensSerial ==
  ASSUME IInv, CInv, SInv, NEW r \in Requests, FindTokens(r)
  PROVE  SInv'
<1>1. /\ call[r].at = "issue" /\ call[r] \in Call
      /\ UNCHANGED planVars /\ UNCHANGED <<accountVars, secretVars>>
  BY CallFacts DEF FindTokens
<1>2. PICK n : Moves(r) /\ call'[r] = [call[r] EXCEPT !.at = "mail", !.seen = n]
  BY <1>1, BecomesMoves DEF FindTokens
<1>3. call'[r].at = "mail" /\ call'[r].user = call[r].user /\ call'[r].item = call[r].item
  BY <1>1, <1>2 DEF Call
<1>4. ASSUME width = 1 PROVE Current(call'[r])
  BY <1>1, <1>3, <1>4 DEF Current, SInv
<1> QED
  BY <1>1, <1>2, <1>4, SerialReads DEF Runs

LEMMA FindTokenSerial ==
  ASSUME IInv, CInv, SInv, NEW r \in Requests, FindToken(r)
  PROVE  SInv'
<1>1. PICK k \in Kind, u \in Users :
        /\ \E n \in tokens[k][u].fresh :
             Starts(r, [Idle EXCEPT !.at = IF k = "signup" THEN "found" ELSE "redeem",
                          !.user = u, !.item = k, !.seen = n])
        /\ UNCHANGED <<accountVars, secretVars, planVars>>
  BY DEF FindToken
<1>2. PICK n \in tokens[k][u].fresh :
        Starts(r, [Idle EXCEPT !.at = IF k = "signup" THEN "found" ELSE "redeem",
                     !.user = u, !.item = k, !.seen = n])
  BY <1>1
<1>3. ASSUME width = 1, k # "signup" PROVE ~users[u].redacted
  <2>1. k = "reset" \/ k = "verify"
    BY <1>3 DEF Kind
  <2>2. NothingLeft(u)
    BY <1>3 DEF SInv
  <2> QED
    BY <1>2, <2>1, <2>2 DEF NothingLeft
<1> DEFINE c == [Idle EXCEPT !.at = IF k = "signup" THEN "found" ELSE "redeem",
                        !.user = u, !.item = k, !.seen = n]
<1>4. c.at = (IF k = "signup" THEN "found" ELSE "redeem") /\ c.user = u /\ c.item = k
  BY DEF Idle
<1>5. Starts(r, c)
  BY <1>2
<1> HIDE DEF c
<1>6. ASSUME width = 1 PROVE Current(c)
  BY <1>3, <1>4, <1>6 DEF Current
<1> QED
  BY <1>1, <1>5, <1>6, SerialStarts

\* A redacted account is there, so that an address without one is nobody's.
LEMMA FindAddressFreeSerial ==
  ASSUME IInv, CInv, SInv, NEW r \in Requests, FindAddressFree(r)
  PROVE  SInv'
<1>1. PICK u \in Users : ~users[u].made /\ Starts(r, [Idle EXCEPT !.at = "found", !.user = u])
  BY DEF FindAddressFree
<1> DEFINE c == [Idle EXCEPT !.at = "found", !.user = u]
<1>2. c.at = "found" /\ c.user = u
  BY DEF Idle
<1>3. Starts(r, c)
  BY <1>1
<1> HIDE DEF c
<1>4. ASSUME width = 1 PROVE Current(c)
  <2>1. NothingLeft(u)
    BY <1>4 DEF SInv
  <2> QED
    BY <1>1, <1>2, <2>1 DEF NothingLeft, Current
<1> QED
  BY <1>3, <1>4, SerialStarts DEF FindAddressFree

LEMMA FindOwnerSerial ==
  ASSUME IInv, CInv, SInv, NEW r \in Requests, FindOwner(r)
  PROVE  SInv'
<1>1. /\ call[r].at = "found" /\ call[r] \in Call
      /\ UNCHANGED planVars /\ UNCHANGED <<accountVars, secretVars>>
  BY CallFacts DEF FindOwner
<1>2. ASSUME NEW met, ~users[call[r].user].redacted,
             call' = [call EXCEPT ![r] = [call[r] EXCEPT !.at = "settle", !.met = met]]
      PROVE  SInv'
  <2>1. Moves(r) /\ call'[r] = [call[r] EXCEPT !.at = "settle", !.met = met]
    BY <1>1, <1>2, BecomesMoves
  <2>2. call'[r].at = "settle" /\ call'[r].user = call[r].user
    BY <1>1, <2>1 DEF Call
  <2>3. Current(call'[r])
    BY <1>2, <2>2 DEF Current
  <2> QED
    BY <1>1, <2>1, <2>3, SerialReads DEF Runs
<1>3. Ends(r) => SInv'
  BY <1>1, SerialEnds
<1> QED
  BY <1>2, <1>3 DEF FindOwner

LEMMA CheckNoMemberSerial ==
  ASSUME IInv, CInv, SInv, NEW r \in Requests, CheckNoMember(r)
  PROVE  SInv'
<1>1. PICK u \in Users, w \in Workspaces, role \in Grantable :
        /\ ~users[u].redacted
        /\ Starts(r, [Idle EXCEPT !.at = "open", !.user = u, !.ws = w, !.role = role])
        /\ UNCHANGED <<accountVars, secretVars, planVars>>
  BY DEF CheckNoMember
<1> DEFINE c == [Idle EXCEPT !.at = "open", !.user = u, !.ws = w, !.role = role]
<1>2. c.at = "open" /\ c.user = u
  BY DEF Idle
<1>3. Starts(r, c)
  BY <1>1
<1> HIDE DEF c
<1>4. Current(c)
  BY <1>1, <1>2 DEF Current
<1> QED
  BY <1>1, <1>3, <1>4, SerialStarts

LEMMA CheckNoInviteSerial ==
  ASSUME IInv, CInv, SInv, NEW r \in Requests, CheckNoInvite(r)
  PROVE  SInv'
<1>1. call[r].at = "open" /\ UNCHANGED planVars /\ UNCHANGED <<accountVars, secretVars>>
  BY DEF CheckNoInvite
<1>2. CASE Goes(r, "invite")
  <2>1. Runs(r) /\ call'[r].at = "invite" /\ call'[r].user = call[r].user
    BY <1>1, <1>2, GoesRuns
  <2>2. ASSUME width = 1 PROVE Current(call'[r])
    BY <1>1, <2>1, <2>2 DEF Current, SInv
  <2> QED
    BY <1>1, <2>1, <2>2, SerialReads
<1>3. CASE Ends(r)
  BY <1>1, <1>3, SerialEnds
<1> QED
  BY <1>2, <1>3 DEF CheckNoInvite

LEMMA FindInviteSerial ==
  ASSUME IInv, CInv, SInv, NEW r \in Requests, FindInvite(r)
  PROVE  SInv'
<1>1. PICK i \in Invites, at \in {"revoke", "accept"} :
        Starts(r, [Idle EXCEPT !.at = IF at = "accept" THEN "invited" ELSE at,
                     !.user = invites[i].user, !.ws = invites[i].ws,
                     !.role = invites[i].role, !.item = i])
  BY DEF FindInvite
<1> DEFINE c == [Idle EXCEPT !.at = IF at = "accept" THEN "invited" ELSE at,
                     !.user = invites[i].user, !.ws = invites[i].ws,
                     !.role = invites[i].role, !.item = i]
<1>2. c.at \in {"invited", "revoke"}
  BY DEF Idle
<1>3. Starts(r, c)
  BY <1>1
<1> HIDE DEF c
<1> QED
  BY <1>2, <1>3, SerialStarts DEF FindInvite, Current

LEMMA FindInvitedSerial ==
  ASSUME IInv, CInv, SInv, NEW r \in Requests, FindInvited(r)
  PROVE  SInv'
<1>1. /\ call[r].at = "invited" /\ call[r] \in Call
      /\ UNCHANGED planVars /\ UNCHANGED <<accountVars, secretVars>>
  BY CallFacts DEF FindInvited
<1>2. ASSUME ~users[call[r].user].redacted,
             call' = [call EXCEPT ![r] =
              [call[r] EXCEPT !.at = "accept", !.seen = IF users[call[r].user].made THEN 1 ELSE 0]]
      PROVE  SInv'
  <2>1. Moves(r)
        /\ call'[r] = [call[r] EXCEPT !.at = "accept",
                                      !.seen = IF users[call[r].user].made THEN 1 ELSE 0]
    BY <1>1, <1>2, BecomesMoves
  <2>2. call'[r].at = "accept" /\ call'[r].user = call[r].user
    BY <1>1, <2>1 DEF Call
  <2>3. Current(call'[r])
    BY <1>2, <2>2 DEF Current
  <2> QED
    BY <1>1, <2>1, <2>3, SerialReads DEF Runs
<1>3. Ends(r) => SInv'
  BY <1>1, SerialEnds
<1> QED
  BY <1>2, <1>3 DEF FindInvited

LEMMA CheckHireSerial ==
  ASSUME IInv, CInv, SInv, NEW r \in Requests, CheckHire(r)
  PROVE  SInv'
<1>1. PICK u \in Users, w \in Workspaces, role \in Grantable :
        Starts(r, [Idle EXCEPT !.at = "hire", !.user = u, !.ws = w, !.role = role])
  BY DEF CheckHire
<1>2. [Idle EXCEPT !.at = "hire", !.user = u, !.ws = w, !.role = role].at = "hire"
  BY DEF Idle
<1> QED
  BY <1>1, <1>2, SerialStarts DEF CheckHire, Current

LEMMA FindHiredSerial ==
  ASSUME IInv, CInv, SInv, NEW r \in Requests, FindHired(r)
  PROVE  SInv'
<1>1. /\ call[r].at = "hire" /\ call[r] \in Call
      /\ UNCHANGED planVars /\ UNCHANGED <<accountVars, secretVars>>
  BY CallFacts DEF FindHired
<1>2. ASSUME NEW met, ~users[call[r].user].redacted,
             met = "home" => users[call[r].user].home = call[r].ws,
             call' = [call EXCEPT ![r] = [call[r] EXCEPT !.at = "join", !.met = met]]
      PROVE  SInv'
  <2>1. Moves(r) /\ call'[r] = [call[r] EXCEPT !.at = "join", !.met = met]
    BY <1>1, <1>2, BecomesMoves
  <2>2. /\ call'[r].at = "join" /\ call'[r].user = call[r].user /\ call'[r].ws = call[r].ws
        /\ call'[r].met = met
    BY <1>1, <2>1 DEF Call
  <2>3. Current(call'[r])
    BY <1>2, <2>2 DEF Current
  <2> QED
    BY <1>1, <2>1, <2>3, SerialReads DEF Runs
<1>3. Ends(r) => SInv'
  BY <1>1, SerialEnds
<1> QED
  BY <1>2, <1>3 DEF FindHired

LEMMA LockMemberSerial ==
  ASSUME IInv, CInv, SInv, NEW r \in Requests, LockMember(r)
  PROVE  SInv'
<1>1. /\ call[r].at = "role" /\ call[r] \in Call
      /\ UNCHANGED planVars /\ UNCHANGED <<accountVars, secretVars>>
  BY CallFacts DEF LockMember
<1>2. PICK met : met = IF users[call[r].user].home = call[r].ws THEN "home" ELSE "away"
  OBVIOUS
<1>3. Moves(r) /\ call'[r] = [call[r] EXCEPT !.at = "rerole", !.met = met]
  BY <1>1, <1>2, BecomesMoves DEF LockMember
<1>4. /\ call'[r].at = "rerole" /\ call'[r].user = call[r].user /\ call'[r].ws = call[r].ws
      /\ call'[r].met = met
  BY <1>1, <1>3 DEF Call
<1>5. Current(call'[r])
  BY <1>2, <1>4 DEF Current
<1> QED
  BY <1>1, <1>3, <1>5, SerialReads DEF Runs

LEMMA AdministerSerial ==
  ASSUME IInv, CInv, SInv, NEW r \in Requests, Administer(r)
  PROVE  SInv'
<1>1. PICK at \in {"role", "disable", "seat", "redact"}, u \in Users, w \in Workspaces,
           role \in Grantable :
        /\ FindMember(at, u, w)
        /\ Starts(r, [Idle EXCEPT !.at = at, !.user = u, !.ws = w,
                        !.role = IF at = "role" THEN role ELSE Nothing])
  BY DEF Administer
<1> DEFINE c == [Idle EXCEPT !.at = at, !.user = u, !.ws = w,
                             !.role = IF at = "role" THEN role ELSE Nothing]
<1>2. c.at = at /\ c.user = u
  BY DEF Idle
<1>3. Starts(r, c)
  BY <1>1
<1> HIDE DEF c
<1>4. Current(c)
  BY <1>1, <1>2 DEF Current, FindMember, Known
<1> QED
  BY <1>3, <1>4, SerialStarts DEF Administer

LEMMA FindHomeSerial ==
  ASSUME IInv, CInv, SInv, NEW r \in Requests, FindHome(r)
  PROVE  SInv'
BY SerialEnds, SerialGoes DEF FindHome

LEMMA CheckSeatSerial ==
  ASSUME IInv, CInv, SInv, NEW r \in Requests, CheckSeat(r)
  PROVE  SInv'
BY SerialEnds, SerialGoes DEF CheckSeat

LEMMA FindNextHomeSerial ==
  ASSUME IInv, CInv, SInv, NEW r \in Requests, FindNextHome(r)
  PROVE  SInv'
<1>1. /\ call[r].at = "next" /\ call[r] \in Call
      /\ UNCHANGED planVars /\ UNCHANGED <<accountVars, secretVars>>
  BY CallFacts DEF FindNextHome
<1>2. ASSUME NEW w \in Workspaces,
             call' = [call EXCEPT ![r] =
               [call[r] EXCEPT !.at = "realign", !.home = w,
                               !.role = members[call[r].user][w].role]]
      PROVE  SInv'
  <2>1. Moves(r) /\ call'[r] = [call[r] EXCEPT !.at = "realign", !.home = w,
                                               !.role = members[call[r].user][w].role]
    BY <1>1, <1>2, BecomesMoves
  <2>2. /\ call'[r].at = "realign" /\ call'[r].user = call[r].user /\ call'[r].home = w
        /\ call'[r].role = members[call[r].user][w].role
    BY <1>1, <2>1 DEF Call
  <2>3. Current(call'[r])
    BY <2>2 DEF Current
  <2> QED
    BY <1>1, <2>1, <2>3, SerialReads DEF Runs
<1>3. Ends(r) => SInv'
  BY <1>1, SerialEnds
<1> QED
  BY <1>2, <1>3 DEF FindNextHome

-----------------------------------------------------------------------------
(* What the tables keep when one request runs at a time                    *)

\* An invite that was used stays so.
Uses == \A i \in Invites :
  invites[i].used > 0 => invites'[i].used > 0 /\ invites'[i].user = invites[i].user

LEMMA HomeRoleKept ==
  ASSUME SInv, width = 1, Uses, NEW u \in Users,
         users'[u].made =>
           /\ users[u].made /\ users'[u].home = users[u].home /\ users'[u].role = users[u].role
           /\ members'[u][users[u].home].role = members[u][users[u].home].role
  PROVE  HomeRole(u)'
BY DEF SInv, HomeRole, Uses

LEMMA NothingLeftKept ==
  ASSUME SInv, width = 1, NEW u \in Users,
         users'[u].redacted =>
           /\ users[u].redacted /\ (users[u].made => users'[u].made)
           /\ users'[u].linked => users[u].linked
           /\ users'[u].secret => users[u].secret
           /\ tokens'["reset"][u].fresh \subseteq tokens["reset"][u].fresh
           /\ tokens'["verify"][u].fresh \subseteq tokens["verify"][u].fresh
           /\ \A w \in Workspaces : OpenInvites(u, w)' \subseteq OpenInvites(u, w)
  PROVE  NothingLeft(u)'
<1>1. ASSUME users'[u].redacted, NEW w \in Workspaces PROVE OpenInvites(u, w)' = {}
  <2>1. OpenInvites(u, w) = {}
    BY <1>1 DEF SInv, NothingLeft
  <2> QED
    BY <1>1, <2>1
<1> QED
  BY <1>1 DEF SInv, NothingLeft

\* A session that stays live, of a user that keeps what the session rests on.
LEMMA EntitledKept ==
  ASSUME IInv, SInv, width = 1, NEW s \in Sessions,
         sessions'[s].live =>
           LET u == sessions[s].user IN
           /\ sessions[s].live /\ sessions'[s].user = u /\ sessions'[s].ws = sessions[s].ws
           /\ sessions'[s].resets = sessions[s].resets /\ Resets(u)' = Resets(u)
           /\ users'[u].redacted => users[u].redacted
           /\ members[u][sessions[s].ws].active => members'[u][sessions[s].ws].active
  PROVE  Entitled(s)'
<1> SUFFICES ASSUME sessions'[s].live
             PROVE  /\ members'[sessions'[s].user][sessions'[s].ws].active
                    /\ sessions'[s].resets = Resets(sessions[s].user)'
                    /\ ~users'[sessions'[s].user].redacted
  BY DEF Entitled, Resets
<1>1. Entitled(s)
  BY DEF SInv
<1> QED
  BY <1>1 DEF Entitled

LEMMA RevokedRow ==
  ASSUME IInv, NEW S, Revoke(S), NEW s \in Sessions
  PROVE  /\ sessions'[s].live => sessions[s].live /\ s \notin S
         /\ sessions'[s].user = sessions[s].user /\ sessions'[s].ws = sessions[s].ws
         /\ sessions'[s].resets = sessions[s].resets
<1>1. PICK x \in Session : x = sessions[s]
  BY DEF IInv, IdentityTypeOK
<1>2. sessions'[s] = IF s \in S THEN [x EXCEPT !.live = FALSE] ELSE x
  BY <1>1 DEF Revoke
<1>3. CASE s \in S
  BY <1>1, <1>2, <1>3 DEF Session
<1>4. CASE s \notin S
  BY <1>1, <1>2, <1>4
<1> QED BY <1>3, <1>4

\* Sessions are only revoked, and nothing else is written.
LEMMA SerialRevokes ==
  ASSUME IInv, CInv, SInv, NEW r \in Requests, Runs(r), NEW S, Revoke(S),
         UNCHANGED <<users, members, invites, tokens>>, width = 1 => Current(call[r])'
  PROVE  SInv'
<1>1. ASSUME width = 1, NEW u \in Users PROVE HomeRole(u)' /\ NothingLeft(u)'
  BY <1>1 DEF SInv, HomeRole, NothingLeft, OpenInvites
<1>2. ASSUME width = 1, NEW s \in Sessions PROVE Entitled(s)'
  BY <1>2, RevokedRow, EntitledKept DEF Resets
<1> QED
  BY <1>1, <1>2, SerialStep

LEMMA FindSessionSerial ==
  ASSUME IInv, CInv, SInv, NEW r \in Requests, FindSession(r)
  PROVE  SInv'
<1>1. PICK s \in Sessions, to \in Workspaces \cup {Nothing} :
        /\ \/ Starts(r, Idle) /\ Revoke({s})
           \/ /\ Starts(r, [Idle EXCEPT !.at = "upsert", !.user = sessions[s].user,
                       !.ws = sessions[s].ws, !.home = users[sessions[s].user].home,
                       !.role = users[sessions[s].user].role, !.item = s, !.to = to])
              /\ UNCHANGED sessions
        /\ UNCHANGED <<accountVars, invites, tokens, planVars>>
  BY DEF FindSession
<1>2. UNCHANGED <<users, members, invites, tokens, planVars>>
  BY <1>1 DEF accountVars
<1>3. CASE Starts(r, Idle) /\ Revoke({s})
  <2>1. Runs(r) /\ call'[r].at = "idle"
    BY <1>2, <1>3, StartsRuns DEF Idle
  <2>2. Current(call[r])'
    BY <2>1 DEF Current
  <2> QED
    BY <1>2, <1>3, <2>1, <2>2, SerialRevokes
<1>4. CASE /\ Starts(r, [Idle EXCEPT !.at = "upsert", !.user = sessions[s].user,
                       !.ws = sessions[s].ws, !.home = users[sessions[s].user].home,
                       !.role = users[sessions[s].user].role, !.item = s, !.to = to])
           /\ UNCHANGED sessions
  <2> DEFINE c == [Idle EXCEPT !.at = "upsert", !.user = sessions[s].user,
                       !.ws = sessions[s].ws, !.home = users[sessions[s].user].home,
                       !.role = users[sessions[s].user].role, !.item = s, !.to = to]
  <2>1. /\ c.at = "upsert" /\ c.user = sessions[s].user /\ c.item = s
        /\ c.home = users[sessions[s].user].home /\ c.role = users[sessions[s].user].role
    BY DEF Idle
  <2>2. Starts(r, c)
    BY <1>4
  <2> HIDE DEF c
  <2>3. Current(c)
    BY <2>1 DEF Current
  <2> QED
    BY <1>1, <1>4, <2>2, <2>3, SerialStarts DEF secretVars
<1> QED
  BY <1>1, <1>3, <1>4

LEMMA AdmitSessionSerial ==
  ASSUME IInv, CInv, SInv, NEW r \in Requests, AdmitSession(r)
  PROVE  SInv'
<1>1. call[r].at = "admit" /\ UNCHANGED <<accountVars, invites, tokens, planVars>>
  BY DEF AdmitSession
<1>2. UNCHANGED <<users, members, invites, tokens>>
  BY <1>1 DEF accountVars
<1>3. CASE Ends(r) /\ UNCHANGED sessions
  BY <1>1, <1>3, SerialEnds DEF secretVars
<1>4. CASE Goes(r, "target") /\ UNCHANGED sessions
  BY <1>1, <1>4, SerialGoes DEF secretVars
<1>5. CASE Ends(r) /\ Revoke(SessionsIn(call[r].user, call[r].ws))
  BY <1>1, <1>2, <1>5, EndsRuns, SerialRevokes
<1> QED
  BY <1>3, <1>4, <1>5 DEF AdmitSession

LEMMA LogoutSerial ==
  ASSUME IInv, CInv, SInv, NEW r \in Requests, Logout(r)
  PROVE  SInv'
<1>1. PICK s \in Sessions : Revoke({s})
  BY DEF Logout
<1>2. Starts(r, Idle) /\ UNCHANGED <<users, members, invites, tokens, planVars>>
  BY DEF Logout, accountVars
<1>3. Runs(r) /\ call'[r].at = "idle"
  BY <1>2, StartsRuns DEF Idle
<1>4. Current(call[r])'
  BY <1>3 DEF Current
<1> QED
  BY <1>1, <1>2, <1>3, <1>4, SerialRevokes

LEMMA MoveSessionSerial ==
  ASSUME IInv, CInv, SInv, NEW r \in Requests, MoveSession(r)
  PROVE  SInv'
<1>1. PICK c \in Call : c = call[r]
  BY CallFacts
<1>2. /\ OfSession(c) /\ c.at = "move" /\ (width = 1 => members[c.user][c.to].active)
  BY <1>1, CallFacts DEF MoveSession, Fits, SInv, Current
<1>3. Goes(r, "again") /\ UNCHANGED <<users, members, invites, tokens, planVars>>
  BY DEF MoveSession, accountVars
<1>4. Runs(r) /\ call'[r].at = "again"
  BY <1>1, <1>2, <1>3, GoesRuns
<1>5. Current(call[r])'
  BY <1>4 DEF Current
<1>6. PICK x \in Session : x = sessions[c.item]
  BY <1>2 DEF OfSession, IInv, IdentityTypeOK
<1>7. PICK y \in Session : y = [x EXCEPT !.ws = c.to]
  BY <1>1, <1>6, CallFacts DEF Session, Fits, MoveSession
<1>8. /\ y.user = x.user /\ y.live = x.live /\ y.resets = x.resets /\ y.ws = c.to
      /\ sessions' = [sessions EXCEPT ![c.item] = y]
  BY <1>1, <1>6, <1>7 DEF MoveSession, Session
<1>9. \A s \in Sessions : sessions'[s] = IF s = c.item THEN y ELSE sessions[s]
  BY <1>8 DEF IInv, IdentityTypeOK
<1>10. ASSUME width = 1, NEW u \in Users PROVE HomeRole(u)' /\ NothingLeft(u)'
  BY <1>3, <1>10 DEF SInv, HomeRole, NothingLeft, OpenInvites
<1>11. ASSUME width = 1, NEW s \in Sessions PROVE Entitled(s)'
  <2>1. CASE s = c.item
    <3>1. Entitled(s) /\ x.user = c.user
      BY <1>2, <1>6, <1>11, <2>1 DEF SInv, OfSession
    <3> QED
      BY <1>2, <1>3, <1>6, <1>8, <1>9, <1>11, <2>1, <3>1 DEF Entitled, Resets
  <2>2. CASE s # c.item
    BY <1>3, <1>9, <1>11, <2>2, EntitledKept DEF Resets
  <2> QED BY <2>1, <2>2
<1> QED
  BY <1>4, <1>5, <1>10, <1>11, SerialStep

LEMMA EnsurePrimaryMembershipSerial ==
  ASSUME IInv, CInv, SInv, NEW r \in Requests, EnsurePrimaryMembership(r)
  PROVE  SInv'
<1>1. PICK c \in Call : c = call[r]
  BY CallFacts
<1>2. /\ c.at = "upsert" /\ c.user \in Users /\ c.home \in Workspaces /\ c.role \in Role
      /\ IsMember(c.user, c.home)
  BY <1>1, CallFacts DEF EnsurePrimaryMembership, Fits, CInv, Knows
<1>3. UNCHANGED <<users, sessions, invites, tokens, planVars>>
  BY DEF EnsurePrimaryMembership, secretVars
<1>4. PICK m : m = [role |-> c.role, active |-> members[c.user][c.home].active]
  OBVIOUS
<1>5. members' = [members EXCEPT ![c.user] = [members[c.user] EXCEPT ![c.home] = m]]
  BY <1>1, <1>2, <1>4 DEF EnsurePrimaryMembership
<1>6. m.role = c.role /\ m.role # Nothing /\ m.active = members[c.user][c.home].active
  BY <1>2, <1>4 DEF Role
<1>7. \A v \in Users, x \in Workspaces :
        members'[v][x] = IF v = c.user /\ x = c.home THEN m ELSE members[v][x]
  BY <1>2, <1>5 DEF IInv, IdentityTypeOK
<1>8. /\ Runs(r) /\ call'[r].at = (IF c.item \in Sessions THEN "admit" ELSE "pick")
      /\ call'[r].user = c.user /\ call'[r].seen = c.seen /\ call'[r].item = c.item
  BY <1>1, <1>2, <1>3, GoesRuns DEF EnsurePrimaryMembership
<1>9. ASSUME width = 1 PROVE Current(call[r])'
  BY <1>1, <1>2, <1>3, <1>8, <1>9 DEF Current, SInv, Resets
<1>10. ASSUME width = 1, NEW u \in Users PROVE NothingLeft(u)'
  BY <1>3, <1>10 DEF SInv, NothingLeft, OpenInvites
<1>11. ASSUME width = 1, NEW u \in Users PROVE HomeRole(u)'
  <2>1. users[u].home \in Workspaces
    BY DEF IInv, IdentityTypeOK, User
  <2>2. CASE u = c.user
    <3>1. c.role = users[u].role /\ c.home = users[u].home
      BY <1>1, <1>2, <1>11, <2>2 DEF SInv, Current
    <3>2. members'[u][users[u].home].role = users[u].role
      BY <1>2, <1>6, <1>7, <2>2, <3>1
    <3> QED
      BY <1>3, <3>2 DEF HomeRole
  <2>3. CASE u # c.user
    BY <1>3, <1>7, <1>11, <2>1, <2>3, HomeRoleKept DEF Uses
  <2> QED BY <2>2, <2>3
<1>12. ASSUME width = 1, NEW s \in Sessions PROVE Entitled(s)'
  <2>1. sessions[s].user \in Users /\ sessions[s].ws \in Workspaces
    BY DEF IInv, IdentityTypeOK, Session
  <2>2. members[sessions[s].user][sessions[s].ws].active =>
          members'[sessions[s].user][sessions[s].ws].active
    BY <1>6, <1>7, <2>1
  <2> QED
    BY <1>3, <1>12, <2>2, EntitledKept DEF Resets
<1> QED
  BY <1>8, <1>9, <1>10, <1>11, <1>12, SerialStep
-----------------------------------------------------------------------------
(* Steps that write and end, one request at a time                         *)

LEMMA SerialWrites ==
  ASSUME IInv, CInv, SInv, NEW r \in Requests, Ends(r), UNCHANGED planVars, call[r].at # "idle",
         width = 1 => /\ \A u \in Users : HomeRole(u)' /\ NothingLeft(u)'
                      /\ \A s \in Sessions : Entitled(s)'
  PROVE  SInv'
BY EndsRuns, SerialStep

LEMMA CreatedRow ==
  ASSUME IInv, NEW u, NEW w, NEW n, CreateSession(u, w, n)
  PROVE  \E s \in Sessions :
           /\ sessions'[s].user = u /\ sessions'[s].ws = w /\ sessions'[s].resets = n
           /\ \A x \in Sessions : x # s => sessions'[x] = sessions[x]
<1>1. PICK s \in Sessions :
        sessions' = [sessions EXCEPT ![s] =
          [user |-> u, ws |-> w, made |-> TRUE, live |-> TRUE, resets |-> n]]
  BY DEF CreateSession
<1>2. sessions'[s] = [user |-> u, ws |-> w, made |-> TRUE, live |-> TRUE, resets |-> n]
  BY <1>1 DEF IInv, IdentityTypeOK
<1>3. \A x \in Sessions : x # s => sessions'[x] = sessions[x]
  BY <1>1 DEF IInv, IdentityTypeOK
<1> QED
  BY <1>2, <1>3

\* A session is created that is entitled, and no other loses what it rests on.
LEMMA SerialCreates ==
  ASSUME IInv, SInv, width = 1, NEW u \in Users, NEW w \in Workspaces,
         CreateSession(u, w, Resets(u)), members'[u][w].active, ~users'[u].redacted,
         \A v \in Users : Resets(v)' = Resets(v) /\ (users'[v].redacted => users[v].redacted),
         \A v \in Users, x \in Workspaces : members[v][x].active => members'[v][x].active,
         NEW s \in Sessions
  PROVE  Entitled(s)'
<1>1. PICK n \in Sessions :
        /\ sessions'[n].user = u /\ sessions'[n].ws = w /\ sessions'[n].resets = Resets(u)
        /\ \A x \in Sessions : x # n => sessions'[x] = sessions[x]
  BY CreatedRow
<1>2. CASE s = n
  <2>1. Resets(u)' = Resets(u)
    OBVIOUS
  <2>2. sessions'[n].resets = tokens'["reset"][u].used
    BY <1>1, <2>1 DEF Resets
  <2> QED
    BY <1>1, <1>2, <2>2 DEF Entitled, Resets
<1>3. CASE s # n
  <2>1. sessions'[s] = sessions[s]
    BY <1>1, <1>3
  <2>2. sessions[s].user \in Users /\ sessions[s].ws \in Workspaces
    BY DEF IInv, IdentityTypeOK, Session
  <2> QED
    BY <2>1, <2>2, EntitledKept
<1> QED BY <1>2, <1>3

LEMMA EnterSerial ==
  ASSUME IInv, CInv, SInv, NEW r \in Requests, Enter(r)
  PROVE  SInv'
<1>1. PICK c \in Call : c = call[r]
  BY CallFacts
<1>2. c.at = "enter" /\ c.user \in Users /\ c.ws \in Workspaces
  BY <1>1, CallFacts DEF Enter
<1>3. Ends(r) /\ UNCHANGED <<members, founder, crossed, invites, tokens, planVars>>
  BY DEF Enter
<1>4. CASE UNCHANGED <<users, sessions>>
  BY <1>1, <1>2, <1>3, <1>4, SerialEnds DEF accountVars, secretVars
<1>5. PICK u \in User : u = users[c.user]
  BY <1>2 DEF IInv, IdentityTypeOK
<1>6. ASSUME users' = [users EXCEPT ![c.user].linked = @ \/ c.item = "link",
                                    ![c.user].verified = @ \/ c.item = "link"],
             CreateSession(c.user, c.ws, c.seen)
      PROVE  SInv'
  <2>1. PICK l \in BOOLEAN, v \in BOOLEAN : users' = [users EXCEPT ![c.user] =
          [u EXCEPT !.linked = l, !.verified = v]]
    <3>1. PICK l \in BOOLEAN : l = (u.linked \/ c.item = "link")
      OBVIOUS
    <3>2. PICK v \in BOOLEAN : v = (u.verified \/ c.item = "link")
      OBVIOUS
    <3>3. users' = [users EXCEPT ![c.user] = [u EXCEPT !.linked = l, !.verified = v]]
      BY <1>2, <1>5, <1>6, <3>1, <3>2 DEF User, IInv, IdentityTypeOK
    <3> QED BY <3>3
  <2>2. PICK x : x = [u EXCEPT !.linked = l, !.verified = v]
    OBVIOUS
  <2>3. /\ x.made = u.made /\ x.home = u.home /\ x.role = u.role /\ x.redacted = u.redacted
    BY <2>2 DEF User
  <2>4. \A w \in Users : users'[w] = IF w = c.user THEN x ELSE users[w]
    BY <1>2, <2>1, <2>2 DEF IInv, IdentityTypeOK
  <2>5. ASSUME width = 1 PROVE c.seen = Resets(c.user) /\ ~u.redacted /\ members[c.user][c.ws].active
    <3>1. Current(c)
      BY <1>1, <2>5 DEF SInv
    <3> QED
      BY <1>2, <1>5, <3>1 DEF Current
  <2>6. ASSUME width = 1, NEW w \in Users PROVE HomeRole(w)' /\ NothingLeft(w)'
    <3>1. /\ users'[w].made = users[w].made /\ users'[w].home = users[w].home
          /\ users'[w].role = users[w].role /\ users'[w].redacted = users[w].redacted
      BY <1>5, <2>3, <2>4
    <3>2. HomeRole(w)'
      BY <1>3, <2>6, <3>1, HomeRoleKept DEF Uses
    <3>3. users'[w].redacted => users'[w] = users[w]
      BY <1>5, <2>3, <2>4, <2>5, <2>6
    <3>4. NothingLeft(w)'
      BY <1>3, <2>6, <3>3, NothingLeftKept DEF OpenInvites
    <3> QED BY <3>2, <3>4
  <2>7. ASSUME width = 1, NEW s \in Sessions PROVE Entitled(s)'
    <3>1. CreateSession(c.user, c.ws, Resets(c.user))
      BY <1>6, <2>5, <2>7
    <3>2. \A w \in Users : Resets(w)' = Resets(w) /\ (users'[w].redacted => users[w].redacted)
      BY <1>3, <1>5, <2>3, <2>4 DEF Resets
    <3>3. members'[c.user][c.ws].active /\ ~users'[c.user].redacted
      BY <1>2, <1>3, <2>3, <2>4, <2>5, <2>7
    <3> QED
      BY <1>2, <1>3, <2>7, <3>1, <3>2, <3>3, SerialCreates
  <2> QED
    BY <1>1, <1>2, <1>3, <2>6, <2>7, SerialWrites
<1> QED
  BY <1>1, <1>4, <1>6 DEF Enter

LEMMA IssueTokenSerial ==
  ASSUME IInv, CInv, SInv, NEW r \in Requests, IssueToken(r)
  PROVE  SInv'
<1>1. PICK c \in Call : c = call[r]
  BY CallFacts
<1>2. c.at = "mail" /\ c.item \in Kind /\ c.user \in Users
  BY <1>1, CallFacts DEF IssueToken, Fits
<1>3. /\ Ends(r) /\ UNCHANGED <<users, members, sessions, invites, planVars>>
      /\ tokens' = Issued(c.item, c.user, c.seen)
  BY <1>1 DEF IssueToken, accountVars
<1>4. /\ \A j \in Kind, v \in Users : j # c.item \/ v # c.user => tokens'[j][v] = tokens[j][v]
      /\ tokens'[c.item][c.user].used = tokens[c.item][c.user].used
  BY <1>2, <1>3, IssuedRow
<1>5. "reset" \in Kind /\ "verify" \in Kind
  BY DEF Kind
<1>6. \A v \in Users : Resets(v)' = Resets(v)
  BY <1>4, <1>5 DEF Resets
<1>7. ASSUME width = 1, NEW u \in Users PROVE HomeRole(u)' /\ NothingLeft(u)'
  <2>1. HomeRole(u)'
    BY <1>3, <1>7, HomeRoleKept DEF Uses
  <2>2. users[u].redacted => u # c.user \/ c.item = "signup"
    BY <1>1, <1>2, <1>7 DEF SInv, Current
  <2>3. users[u].redacted => tokens'["reset"][u] = tokens["reset"][u]
                             /\ tokens'["verify"][u] = tokens["verify"][u]
    BY <1>4, <1>5, <2>2
  <2>4. NothingLeft(u)'
    BY <1>3, <1>7, <2>3, NothingLeftKept DEF OpenInvites
  <2> QED BY <2>1, <2>4
<1>8. ASSUME width = 1, NEW s \in Sessions PROVE Entitled(s)'
  <2>1. sessions[s].user \in Users
    BY DEF IInv, IdentityTypeOK, Session
  <2> QED
    BY <1>3, <1>6, <1>8, <2>1, EntitledKept
<1> QED
  BY <1>1, <1>2, <1>3, <1>7, <1>8, SerialWrites

LEMMA RedeemTokenSerial ==
  ASSUME IInv, CInv, SInv, NEW r \in Requests, RedeemToken(r)
  PROVE  SInv'
<1>1. PICK c \in Call : c = call[r]
  BY CallFacts
<1>2. c.at = "redeem" /\ c.item \in Kind /\ c.user \in Users
  BY <1>1, CallFacts DEF RedeemToken, Fits
<1>3. /\ Ends(r) /\ UNCHANGED <<members, invites, planVars>>
      /\ tokens' = Redeemed(c.item, c.user, c.seen)
  BY <1>1 DEF RedeemToken
<1>4. \A j \in Kind, v \in Users : j # c.item \/ v # c.user => tokens'[j][v] = tokens[j][v]
  BY <1>2, <1>3, RedeemedRow
<1>5. "reset" \in Kind /\ "verify" \in Kind
  BY DEF Kind
<1>6. PICK u \in User : u = users[c.user]
  BY <1>2 DEF IInv, IdentityTypeOK
<1>7. \/ users' = [users EXCEPT ![c.user] = [u EXCEPT !.secret = TRUE]]
      \/ users' = [users EXCEPT ![c.user] = [u EXCEPT !.verified = TRUE]]
  BY <1>1, <1>6 DEF RedeemToken
<1>8. PICK x : /\ x.made = u.made /\ x.home = u.home /\ x.role = u.role /\ x.redacted = u.redacted
               /\ users' = [users EXCEPT ![c.user] = x]
  BY <1>7 DEF User
<1>9. \A v \in Users : users'[v] = IF v = c.user THEN x ELSE users[v]
  BY <1>2, <1>8 DEF IInv, IdentityTypeOK
<1>10. \A v \in Users : /\ users'[v].made = users[v].made /\ users'[v].home = users[v].home
                        /\ users'[v].role = users[v].role
                        /\ users'[v].redacted = users[v].redacted
  BY <1>6, <1>8, <1>9
<1>11. width = 1 => ~users[c.user].redacted
  BY <1>1, <1>2 DEF SInv, Current
<1>12. ASSUME width = 1, NEW v \in Users PROVE HomeRole(v)' /\ NothingLeft(v)'
  <2>1. HomeRole(v)'
    BY <1>3, <1>10, <1>12, HomeRoleKept DEF Uses
  <2>2. users'[v].redacted => /\ v # c.user /\ users'[v] = users[v]
                              /\ tokens'["reset"][v] = tokens["reset"][v]
                              /\ tokens'["verify"][v] = tokens["verify"][v]
    BY <1>4, <1>5, <1>9, <1>10, <1>11, <1>12
  <2>3. NothingLeft(v)'
    BY <1>3, <1>12, <2>2, NothingLeftKept DEF OpenInvites
  <2> QED BY <2>1, <2>3
<1>13. ASSUME width = 1, NEW s \in Sessions PROVE Entitled(s)'
  <2>1. sessions[s].user \in Users
    BY DEF IInv, IdentityTypeOK, Session
  <2>2. CASE c.item = "reset"
    <3>1. Revoke(SessionsOf(c.user))
      BY <1>1, <2>2 DEF RedeemToken
    <3>2. /\ sessions'[s].live => sessions[s].live /\ s \notin SessionsOf(c.user)
          /\ sessions'[s].user = sessions[s].user /\ sessions'[s].ws = sessions[s].ws
          /\ sessions'[s].resets = sessions[s].resets
      BY <3>1, RevokedRow
    <3>3. sessions[s].live => sessions[s].made
      BY DEF IInv, Tables, SessionsFit
    <3>4. sessions'[s].live => sessions[s].user # c.user
      BY <3>2, <3>3 DEF SessionsOf
    <3>5. sessions'[s].live => Resets(sessions[s].user)' = Resets(sessions[s].user)
      BY <1>4, <1>5, <2>1, <3>2, <3>4 DEF Resets
    <3> QED
      BY <1>3, <1>10, <1>13, <2>1, <3>2, <3>5, EntitledKept
  <2>3. CASE c.item # "reset"
    <3>1. UNCHANGED sessions
      BY <1>1, <2>3 DEF RedeemToken
    <3>2. Resets(sessions[s].user)' = Resets(sessions[s].user)
      BY <1>4, <1>5, <2>1, <2>3, <3>1 DEF Resets
    <3> QED
      BY <1>3, <1>10, <1>13, <2>1, <3>1, <3>2, EntitledKept
  <2> QED BY <2>2, <2>3
<1> QED
  BY <1>1, <1>2, <1>3, <1>12, <1>13, SerialWrites

\* Invites of others are as they were, and of this address none is opened.
LEMMA OpenInvitesLeft ==
  ASSUME NEW u \in Users,
         \A i \in Invites : invites'[i] = invites[i]
           \/ invites'[i].revoked \/ invites'[i].expired \/ invites'[i].used > 0
           \/ invites'[i].user # u
  PROVE  \A w \in Workspaces : OpenInvites(u, w)' \subseteq OpenInvites(u, w)
BY DEF OpenInvites

LEMMA CreateInviteSerial ==
  ASSUME IInv, CInv, SInv, NEW r \in Requests, CreateInvite(r)
  PROVE  SInv'
<1>1. PICK c \in Call : c = call[r]
  BY CallFacts
<1>2. c.at = "invite" /\ c.user \in Users
  BY <1>1, CallFacts DEF CreateInvite
<1>3. Ends(r) /\ UNCHANGED <<users, members, sessions, tokens, planVars>>
  BY DEF CreateInvite, accountVars
<1>4. PICK i \in Invites :
        /\ ~invites[i].made
        /\ invites' = [invites EXCEPT ![i] =
             [NoInvite EXCEPT !.made = TRUE, !.user = c.user, !.ws = c.ws, !.role = c.role]]
  BY <1>1 DEF CreateInvite
<1>5. /\ invites'[i].used = 0 /\ invites'[i].user = c.user
      /\ \A j \in Invites : j # i => invites'[j] = invites[j]
  BY <1>4 DEF NoInvite, IInv, IdentityTypeOK
<1>6. ~(invites[i].used > 0)
  BY <1>4 DEF CInv, InviteLeft
<1>7. ASSUME width = 1, NEW u \in Users PROVE HomeRole(u)' /\ NothingLeft(u)'
  <2>1. HomeRole(u)'
    BY <1>3, <1>5, <1>6, <1>7, HomeRoleKept DEF Uses
  <2>2. users[u].redacted => u # c.user
    BY <1>1, <1>2, <1>7 DEF SInv, Current
  <2>3. ASSUME users[u].redacted, NEW j \in Invites
        PROVE  invites'[j] = invites[j] \/ invites'[j].user # u
    <3>1. CASE j = i
      BY <1>5, <2>2, <2>3, <3>1
    <3>2. CASE j # i
      BY <1>5, <3>2
    <3> QED BY <3>1, <3>2
  <2>4. users[u].redacted => \A w \in Workspaces : OpenInvites(u, w)' \subseteq OpenInvites(u, w)
    BY <2>3, OpenInvitesLeft
  <2>5. NothingLeft(u)'
    BY <1>3, <1>7, <2>4, NothingLeftKept
  <2> QED BY <2>1, <2>5
<1>8. ASSUME width = 1, NEW s \in Sessions PROVE Entitled(s)'
  BY <1>3, <1>8, EntitledKept DEF Resets
<1> QED
  BY <1>1, <1>2, <1>3, <1>7, <1>8, SerialWrites

\* An invite is revoked or expires.
LEMMA InviteClosed ==
  ASSUME IInv, SInv, width = 1, NEW i \in Invites, NEW y, invites' = [invites EXCEPT ![i] = y],
         y.used = invites[i].used, y.user = invites[i].user, y.revoked \/ y.expired,
         UNCHANGED <<users, members, sessions, tokens>>
  PROVE  /\ \A u \in Users : HomeRole(u)' /\ NothingLeft(u)'
         /\ \A s \in Sessions : Entitled(s)'
<1>1. \A j \in Invites : invites'[j] = IF j = i THEN y ELSE invites[j]
  BY DEF IInv, IdentityTypeOK
<1>2. ASSUME NEW u \in Users PROVE HomeRole(u)' /\ NothingLeft(u)'
  <2>1. HomeRole(u)'
    BY <1>1, HomeRoleKept DEF Uses
  <2>2. \A w \in Workspaces : OpenInvites(u, w)' \subseteq OpenInvites(u, w)
    BY <1>1, OpenInvitesLeft
  <2>3. NothingLeft(u)'
    BY <2>2, NothingLeftKept
  <2> QED BY <2>1, <2>3
<1>3. ASSUME NEW s \in Sessions PROVE Entitled(s)'
  BY EntitledKept DEF Resets
<1> QED BY <1>2, <1>3

LEMMA RevokeInviteSerial ==
  ASSUME IInv, CInv, SInv, NEW r \in Requests, RevokeInvite(r)
  PROVE  SInv'
<1>1. PICK c \in Call : c = call[r]
  BY CallFacts
<1>2. c.at = "revoke" /\ c.item \in Invites
  BY <1>1, CallFacts DEF RevokeInvite, Fits
<1>3. Ends(r) /\ UNCHANGED <<users, members, sessions, tokens, planVars>>
  BY DEF RevokeInvite, accountVars
<1>4. PICK x \in Invite : x = invites[c.item]
  BY <1>2 DEF IInv, IdentityTypeOK
<1>5. PICK y : /\ y.user = x.user /\ y.used = x.used /\ y.revoked
               /\ invites' = [invites EXCEPT ![c.item] = y]
  <2>1. PICK y : y = [x EXCEPT !.revoked = TRUE]
    OBVIOUS
  <2>2. y.user = x.user /\ y.used = x.used /\ y.revoked
    BY <2>1 DEF Invite
  <2>3. invites' = [invites EXCEPT ![c.item] = y]
    BY <1>1, <1>4, <2>1 DEF RevokeInvite
  <2> QED BY <2>2, <2>3
<1> QED
  BY <1>1, <1>2, <1>3, <1>4, <1>5, InviteClosed, SerialWrites

\* No request moves.
LEMMA InviteExpiresSerial ==
  ASSUME IInv, CInv, SInv, InviteExpires
  PROVE  SInv'
<1>1. UNCHANGED <<users, members, sessions, tokens, call, seats, width>>
  BY DEF InviteExpires, accountVars, planVars
<1>2. PICK i \in Invites : invites' = [invites EXCEPT ![i].expired = TRUE]
  BY DEF InviteExpires
<1>3. PICK x \in Invite : x = invites[i]
  BY DEF IInv, IdentityTypeOK
<1>4. PICK y : /\ y.user = x.user /\ y.used = x.used /\ y.expired
               /\ invites' = [invites EXCEPT ![i] = y]
  <2>1. PICK y : y = [x EXCEPT !.expired = TRUE]
    OBVIOUS
  <2>2. y.user = x.user /\ y.used = x.used /\ y.expired
    BY <2>1 DEF Invite
  <2>3. invites' = [invites EXCEPT ![i] = y]
    BY <1>2, <1>3, <2>1
  <2> QED BY <2>2, <2>3
<1>5. ASSUME width = 1, NEW q \in Requests PROVE Current(call[q])'
  BY <1>1, <1>5 DEF SInv, Current, Resets
<1> QED
  BY <1>1, <1>3, <1>4, <1>5, InviteClosed DEF SInv

\* A membership is written that is active.
LEMMA JoinedRow ==
  ASSUME IInv, NEW u \in Users, NEW w \in Workspaces, NEW m, m.active,
         members' = [members EXCEPT ![u] = [members[u] EXCEPT ![w] = m]]
  PROVE  /\ members'[u][w] = m
         /\ \A v \in Users, x \in Workspaces : v # u \/ x # w => members'[v][x] = members[v][x]
         /\ \A v \in Users, x \in Workspaces : members[v][x].active => members'[v][x].active
<1>1. \A v \in Users, x \in Workspaces :
        members'[v][x] = IF v = u /\ x = w THEN m ELSE members[v][x]
  BY DEF IInv, IdentityTypeOK
<1> QED
  BY <1>1

LEMMA AcceptInviteSerial ==
  ASSUME IInv, CInv, SInv, NEW r \in Requests, AcceptInvite(r)
  PROVE  SInv'
<1>1. PICK c \in Call : c = call[r]
  BY CallFacts
<1>2. /\ c.user \in Users /\ c.ws \in Workspaces /\ c.item \in Invites
      /\ OfInvite(c) /\ c.at = "accept"
  BY <1>1, CallFacts DEF AcceptInvite, Fits, CInv, Knows
<1>3. Ends(r) /\ UNCHANGED <<founder, crossed, tokens, planVars>>
  BY DEF AcceptInvite
<1>4. CASE UNCHANGED <<users, members, sessions, invites>>
  BY <1>1, <1>2, <1>3, <1>4, SerialEnds DEF accountVars, secretVars
<1>5. ASSUME users' = [users EXCEPT ![c.user] =
               IF c.seen = 1 THEN [users[c.user] EXCEPT !.verified = TRUE]
               ELSE [NoUser EXCEPT !.made = TRUE, !.home = c.ws, !.role = c.role,
                                   !.secret = TRUE, !.verified = TRUE]],
             members' = [members EXCEPT ![c.user][c.ws] = [role |-> c.role, active |-> TRUE]],
             invites' = [invites EXCEPT ![c.item].used = @ + 1],
             CreateSession(c.user, c.ws, Resets(c.user))
      PROVE  SInv'
  <2>1. PICK x \in Invite : x = invites[c.item]
    BY <1>2 DEF IInv, IdentityTypeOK
  <2>2. PICK y \in Invite : /\ y.user = x.user /\ y.used = x.used + 1
                            /\ invites' = [invites EXCEPT ![c.item] = y]
    <3>1. x.used + 1 \in Nat
      BY DEF Invite
    <3> QED
      BY <1>5, <2>1, <3>1 DEF Invite
  <2>3. /\ \A j \in Invites : j # c.item => invites'[j] = invites[j]
        /\ invites'[c.item] = y
    BY <1>2, <2>2 DEF IInv, IdentityTypeOK
  <2>4. invites'[c.item].used > 0 /\ invites'[c.item].user = c.user
        /\ invites[c.item].user = c.user
    BY <1>2, <2>1, <2>2, <2>3 DEF OfInvite, Invite
  <2>5. Uses
    BY <2>3, <2>4 DEF Uses
  <2>6. PICK m : m = [role |-> c.role, active |-> TRUE]
    OBVIOUS
  <2>7. m.active /\ members' = [members EXCEPT ![c.user] = [members[c.user] EXCEPT ![c.ws] = m]]
    BY <1>5, <2>6
  <2>8. /\ members'[c.user][c.ws] = m
        /\ \A v \in Users, w \in Workspaces :
             v # c.user \/ w # c.ws => members'[v][w] = members[v][w]
        /\ \A v \in Users, w \in Workspaces : members[v][w].active => members'[v][w].active
    BY <1>2, <2>7, JoinedRow
  <2>9. PICK u \in User : u = users[c.user]
    BY <1>2 DEF IInv, IdentityTypeOK
  <2>10. PICK f : /\ users' = [users EXCEPT ![c.user] = f]
                  /\ f.redacted = IF c.seen = 1 THEN u.redacted ELSE FALSE
    <3>1. CASE c.seen = 1
      <4>1. PICK f : f = [u EXCEPT !.verified = TRUE]
        OBVIOUS
      <4>2. f.redacted = u.redacted
        BY <4>1 DEF User
      <4>3. users' = [users EXCEPT ![c.user] = f]
        BY <1>5, <2>9, <3>1, <4>1
      <4> QED BY <3>1, <4>2, <4>3
    <3>2. CASE c.seen # 1
      <4>1. PICK f : f = [NoUser EXCEPT !.made = TRUE, !.home = c.ws, !.role = c.role,
                                        !.secret = TRUE, !.verified = TRUE]
        OBVIOUS
      <4>2. f.redacted = FALSE
        BY <4>1 DEF NoUser
      <4>3. users' = [users EXCEPT ![c.user] = f]
        BY <1>5, <3>2, <4>1
      <4> QED BY <3>2, <4>2, <4>3
    <3> QED BY <3>1, <3>2
  <2>11. \A v \in Users : users'[v] = IF v = c.user THEN f ELSE users[v]
    BY <1>2, <2>10 DEF IInv, IdentityTypeOK
  <2>12. width = 1 => ~users'[c.user].redacted
    <3>1. width = 1 => ~users[c.user].redacted
      BY <1>1, <1>2 DEF SInv, Current
    <3> QED
      BY <1>2, <2>9, <2>10, <2>11, <3>1
  <2>13. ASSUME width = 1, NEW v \in Users PROVE HomeRole(v)' /\ NothingLeft(v)'
    <3>1. CASE v = c.user
      <4>1. HomeRole(v)'
        BY <1>2, <2>4, <3>1 DEF HomeRole
      <4>2. NothingLeft(v)'
        BY <2>12, <2>13, <3>1 DEF NothingLeft
      <4> QED BY <4>1, <4>2
    <3>2. CASE v # c.user
      <4>1. users'[v] = users[v] /\ users[v].home \in Workspaces
        BY <2>11, <3>2 DEF IInv, IdentityTypeOK, User
      <4>2. HomeRole(v)'
        BY <2>5, <2>8, <2>13, <3>2, <4>1, HomeRoleKept
      <4>3. \A w \in Workspaces : OpenInvites(v, w)' \subseteq OpenInvites(v, w)
        BY <2>3, <2>4, OpenInvitesLeft
      <4>4. NothingLeft(v)'
        BY <1>3, <2>13, <4>1, <4>3, NothingLeftKept
      <4> QED BY <4>2, <4>4
    <3> QED BY <3>1, <3>2
  <2>14. ASSUME width = 1, NEW s \in Sessions PROVE Entitled(s)'
    <3>1. \A v \in Users : Resets(v)' = Resets(v) /\ (users'[v].redacted => users[v].redacted)
      BY <1>3, <2>11, <2>12, <2>14 DEF Resets
    <3> QED
      BY <1>2, <1>5, <2>7, <2>8, <2>12, <2>14, <3>1, SerialCreates
  <2> QED
    BY <1>1, <1>2, <1>3, <2>13, <2>14, SerialWrites
<1> QED
  BY <1>1, <1>4, <1>5 DEF AcceptInvite

\* Accounts and memberships change, of nobody the password or what else opens
\* an account without it, and nobody's access ends.
LEMMA AccountsSerial ==
  ASSUME IInv, CInv, SInv, NEW r \in Requests, Ends(r), call[r].at # "idle",
         UNCHANGED <<secretVars, planVars>>,
         width = 1 => \A v \in Users :
           users'[v].redacted => /\ users[v].redacted /\ (users[v].made => users'[v].made)
                                 /\ users'[v].linked = users[v].linked
                                 /\ users'[v].secret = users[v].secret,
         \A v \in Users, w \in Workspaces : members[v][w].active => members'[v][w].active,
         width = 1 => \A v \in Users : HomeRole(v)'
  PROVE  SInv'
<1>1. UNCHANGED <<sessions, invites, tokens>>
  BY DEF secretVars
<1>2. ASSUME width = 1, NEW v \in Users PROVE NothingLeft(v)'
  BY <1>1, <1>2, NothingLeftKept DEF OpenInvites
<1>3. ASSUME width = 1, NEW s \in Sessions PROVE Entitled(s)'
  <2>1. sessions[s].user \in Users /\ sessions[s].ws \in Workspaces
    BY DEF IInv, IdentityTypeOK, Session
  <2> QED
    BY <1>1, <1>3, <2>1, EntitledKept DEF Resets
<1> QED
  BY <1>2, <1>3, SerialWrites

LEMMA CreateMemberSerial ==
  ASSUME IInv, CInv, SInv, NEW r \in Requests, CreateMember(r)
  PROVE  SInv'
<1>1. PICK c \in Call : c = call[r]
  BY CallFacts
<1>2. c.user \in Users /\ c.ws \in Workspaces /\ c.at = "join"
  BY <1>1, CallFacts DEF CreateMember
<1>3. Ends(r) /\ UNCHANGED <<founder, secretVars, planVars>>
  BY DEF CreateMember
<1>4. PICK u \in User : u = users[c.user]
  BY <1>2 DEF IInv, IdentityTypeOK
<1>5. CASE UNCHANGED <<users, members, crossed>>
  BY <1>1, <1>2, <1>3, <1>5, SerialEnds DEF accountVars, secretVars
<1>6. ASSUME ~IsMember(c.user, c.ws), c.met = "none" => ~u.made,
             users' = [users EXCEPT ![c.user] = Hired(u, c)],
             members' = [members EXCEPT ![c.user][c.ws] = [role |-> c.role, active |-> TRUE]]
      PROVE  SInv'
  <2>1. PICK m : m = [role |-> c.role, active |-> TRUE]
    OBVIOUS
  <2>2. /\ m.active /\ m.role = c.role
        /\ members' = [members EXCEPT ![c.user] = [members[c.user] EXCEPT ![c.ws] = m]]
    BY <1>6, <2>1
  <2>3. /\ members'[c.user][c.ws] = m
        /\ \A v \in Users, w \in Workspaces :
             v # c.user \/ w # c.ws => members'[v][w] = members[v][w]
        /\ \A v \in Users, w \in Workspaces : members[v][w].active => members'[v][w].active
    BY <1>2, <2>2, JoinedRow
  <2>4. u.made => u.home # c.ws
    BY <1>2, <1>4, <1>6 DEF CInv, HomesJoined
  <2>5. PICK f : f = Hired(u, c)
    OBVIOUS
  <2>6. c.met \in Met /\ (c.met # "none" => u.made)
    BY <1>1, <1>2, <1>4, CallFacts DEF Call, Fits
  <2>7. width = 1 => ~u.redacted /\ (c.met = "home" => u.home = c.ws)
    BY <1>1, <1>2, <1>4 DEF SInv, Current
  <2>8. ASSUME width = 1
        PROVE  /\ ~f.redacted
               /\ IF u.made THEN f.home = u.home /\ f.role = u.role
                            ELSE f.home = c.ws /\ f.role = c.role
    <3>1. CASE c.met = "none"
      <4>1. f = [NoUser EXCEPT !.made = TRUE, !.home = c.ws, !.role = c.role, !.secret = TRUE]
        BY <2>5, <3>1 DEF Hired
      <4>2. ~f.redacted /\ f.home = c.ws /\ f.role = c.role
        BY <4>1 DEF NoUser
      <4> QED BY <1>6, <3>1, <4>2
    <3>2. CASE c.met = "bare"
      <4>1. f = [u EXCEPT !.secret = TRUE]
        BY <2>5, <3>2 DEF Hired
      <4>2. f.redacted = u.redacted /\ f.home = u.home /\ f.role = u.role
        BY <4>1 DEF User
      <4> QED BY <2>6, <2>7, <2>8, <3>2, <4>2
    <3>3. CASE c.met = "home"
      BY <2>4, <2>6, <2>7, <2>8, <3>3
    <3>4. CASE c.met = "away"
      BY <2>5, <2>6, <2>7, <2>8, <3>4 DEF Hired
    <3> QED BY <2>6, <3>1, <3>2, <3>3, <3>4 DEF Met
  <2>9. \A v \in Users : users'[v] = IF v = c.user THEN f ELSE users[v]
    <3>1. users' = [users EXCEPT ![c.user] = f]
      BY <1>6, <2>5
    <3> QED
      BY <1>2, <3>1 DEF IInv, IdentityTypeOK
  <2>10. ASSUME width = 1, NEW v \in Users PROVE HomeRole(v)'
    <3>1. users[v].home \in Workspaces /\ Uses
      BY <1>3 DEF IInv, IdentityTypeOK, User, Uses, secretVars
    <3>2. CASE v # c.user
      BY <2>3, <2>9, <2>10, <3>1, <3>2, HomeRoleKept
    <3>3. CASE v = c.user /\ u.made
      <4>1. users'[v].home = users[v].home /\ users'[v].role = users[v].role
            /\ users[v].made
        BY <1>4, <2>8, <2>9, <2>10, <3>3
      <4>2. members'[v][users[v].home] = members[v][users[v].home]
        BY <1>2, <1>4, <2>3, <2>4, <3>1, <3>3
      <4> QED
        BY <2>10, <3>1, <4>1, <4>2, HomeRoleKept
    <3>4. CASE v = c.user /\ ~u.made
      <4>1. users'[v].home = c.ws /\ users'[v].role = c.role
        BY <2>8, <2>9, <2>10, <3>4
      <4>2. members'[v][users'[v].home].role = users'[v].role
        BY <2>2, <2>3, <3>4, <4>1
      <4> QED
        BY <4>2 DEF HomeRole
    <3> QED BY <3>2, <3>3, <3>4
  <2>11. width = 1 => \A v \in Users : users'[v].redacted => users'[v] = users[v]
    BY <2>8, <2>9
  <2> QED
    BY <1>1, <1>2, <1>3, <2>3, <2>10, <2>11, AccountsSerial
<1>7. \/ UNCHANGED <<users, members, crossed>>
      \/ /\ ~IsMember(c.user, c.ws) /\ (c.met = "none" => ~u.made)
         /\ users' = [users EXCEPT ![c.user] = Hired(u, c)]
         /\ members' = [members EXCEPT ![c.user][c.ws] = [role |-> c.role, active |-> TRUE]]
  BY <1>1, <1>2, <1>4 DEF CreateMember
<1> QED
  BY <1>5, <1>6, <1>7

LEMMA UpdateMemberSerial ==
  ASSUME IInv, CInv, SInv, NEW r \in Requests, UpdateMember(r)
  PROVE  SInv'
<1>1. PICK c \in Call : c = call[r]
  BY CallFacts
<1>2. c.user \in Users /\ c.ws \in Workspaces /\ c.at = "rerole"
  BY <1>1, CallFacts DEF UpdateMember, Fits
<1>3. Ends(r) /\ UNCHANGED <<founder, secretVars, planVars>>
  BY DEF UpdateMember
<1>4. PICK x \in Member : x = members[c.user][c.ws]
  BY <1>2 DEF IInv, IdentityTypeOK
<1>5. PICK m : m = [x EXCEPT !.role = c.role]
  OBVIOUS
<1>6. /\ m.active = x.active /\ m.role = c.role
      /\ members' = [members EXCEPT ![c.user] = [members[c.user] EXCEPT ![c.ws] = m]]
  BY <1>1, <1>2, <1>4, <1>5 DEF UpdateMember, Member, IInv, IdentityTypeOK
<1>7. \A v \in Users, w \in Workspaces :
        members'[v][w] = IF v = c.user /\ w = c.ws THEN m ELSE members[v][w]
  BY <1>2, <1>6 DEF IInv, IdentityTypeOK
<1>8. PICK u \in User : u = users[c.user]
  BY <1>2 DEF IInv, IdentityTypeOK
<1>9. PICK f : f = [u EXCEPT !.role = IF c.met = "home" THEN c.role ELSE u.role]
  OBVIOUS
<1>10. /\ users' = [users EXCEPT ![c.user] = f]
       /\ f.role = IF c.met = "home" THEN c.role ELSE u.role
       /\ f.made = u.made /\ f.home = u.home
       /\ f.redacted = u.redacted /\ f.linked = u.linked /\ f.secret = u.secret
  BY <1>1, <1>2, <1>8, <1>9 DEF UpdateMember, User, IInv, IdentityTypeOK
<1>11. \A v \in Users : users'[v] = IF v = c.user THEN f ELSE users[v]
  BY <1>2, <1>10 DEF IInv, IdentityTypeOK
<1>12. width = 1 => (c.met = "home") = (u.home = c.ws)
  BY <1>1, <1>2, <1>8 DEF SInv, Current
<1>13. ASSUME width = 1, NEW v \in Users PROVE HomeRole(v)'
  <2>1. users[v].home \in Workspaces /\ Uses
    BY <1>3 DEF IInv, IdentityTypeOK, User, Uses, secretVars
  <2>2. CASE v = c.user /\ u.home = c.ws
    <3>1. users'[v].home = c.ws /\ users'[v].role = c.role
      BY <1>8, <1>10, <1>11, <1>12, <1>13, <2>2
    <3>2. members'[v][users'[v].home].role = users'[v].role
      BY <1>2, <1>6, <1>7, <2>2, <3>1
    <3> QED
      BY <3>2 DEF HomeRole
  <2>3. CASE v # c.user \/ u.home # c.ws
    <3>1. /\ users'[v].made = users[v].made /\ users'[v].home = users[v].home
          /\ users'[v].role = users[v].role
      BY <1>8, <1>10, <1>11, <1>12, <1>13, <2>3
    <3>2. members'[v][users[v].home] = members[v][users[v].home]
      BY <1>7, <1>8, <2>1, <2>3
    <3> QED
      BY <1>13, <2>1, <3>1, <3>2, HomeRoleKept
  <2> QED BY <2>2, <2>3
<1>14. \A v \in Users : /\ users'[v].made = users[v].made
                        /\ users'[v].redacted = users[v].redacted
                        /\ users'[v].linked = users[v].linked
                        /\ users'[v].secret = users[v].secret
  BY <1>8, <1>10, <1>11
<1>15. \A v \in Users, w \in Workspaces : members[v][w].active => members'[v][w].active
  BY <1>4, <1>6, <1>7
<1> QED
  BY <1>1, <1>2, <1>3, <1>13, <1>14, <1>15, AccountsSerial

LEMMA EnableMemberSerial ==
  ASSUME IInv, CInv, SInv, NEW r \in Requests, EnableMember(r)
  PROVE  SInv'
<1>1. PICK c \in Call : c = call[r]
  BY CallFacts
<1>2. c.user \in Users /\ c.ws \in Workspaces /\ c.at = "enable"
  BY <1>1, CallFacts DEF EnableMember
<1>3. Ends(r) /\ UNCHANGED <<users, founder, secretVars, planVars>>
  BY DEF EnableMember
<1>4. PICK x \in Member : x = members[c.user][c.ws]
  BY <1>2 DEF IInv, IdentityTypeOK
<1>5. PICK m : m = [x EXCEPT !.active = TRUE]
  OBVIOUS
<1>6. /\ m.active /\ m.role = x.role
      /\ members' = [members EXCEPT ![c.user] = [members[c.user] EXCEPT ![c.ws] = m]]
  BY <1>1, <1>2, <1>4, <1>5 DEF EnableMember, Member, IInv, IdentityTypeOK
<1>7. \A v \in Users, w \in Workspaces :
        members'[v][w] = IF v = c.user /\ w = c.ws THEN m ELSE members[v][w]
  BY <1>2, <1>6 DEF IInv, IdentityTypeOK
<1>8. \A v \in Users, w \in Workspaces : /\ members'[v][w].role = members[v][w].role
                                         /\ members[v][w].active => members'[v][w].active
  BY <1>4, <1>6, <1>7
<1>9. ASSUME width = 1, NEW v \in Users PROVE HomeRole(v)'
  <2>1. users[v].home \in Workspaces /\ Uses
    BY <1>3 DEF IInv, IdentityTypeOK, User, Uses, secretVars
  <2> QED
    BY <1>3, <1>8, <1>9, <2>1, HomeRoleKept
<1> QED
  BY <1>1, <1>2, <1>3, <1>8, <1>9, AccountsSerial

LEMMA RealignUserSerial ==
  ASSUME IInv, CInv, SInv, NEW r \in Requests, RealignUser(r)
  PROVE  SInv'
<1>1. PICK c \in Call : c = call[r]
  BY CallFacts
<1>2. c.user \in Users /\ c.home \in Workspaces /\ c.at = "realign"
  BY <1>1, CallFacts DEF RealignUser
<1>3. Ends(r) /\ UNCHANGED <<members, founder, secretVars, planVars>>
  BY DEF RealignUser
<1>4. PICK u \in User : u = users[c.user]
  BY <1>2 DEF IInv, IdentityTypeOK
<1>5. PICK f : f = [u EXCEPT !.home = c.home, !.role = c.role]
  OBVIOUS
<1>6. /\ users' = [users EXCEPT ![c.user] = f]
      /\ f.made = u.made /\ f.home = c.home /\ f.role = c.role
      /\ f.redacted = u.redacted /\ f.linked = u.linked /\ f.secret = u.secret
  BY <1>1, <1>4, <1>5 DEF RealignUser, User
<1>7. \A v \in Users : users'[v] = IF v = c.user THEN f ELSE users[v]
  BY <1>2, <1>6 DEF IInv, IdentityTypeOK
<1>8. ASSUME width = 1, NEW v \in Users PROVE HomeRole(v)'
  <2>1. CASE v = c.user
    <3>1. c.role = members[c.user][c.home].role
      BY <1>1, <1>2, <1>8 DEF SInv, Current
    <3>2. users'[v].home = c.home /\ users'[v].role = c.role
      BY <1>6, <1>7, <2>1
    <3>3. members'[v][users'[v].home].role = users'[v].role
      BY <1>3, <2>1, <3>1, <3>2
    <3> QED
      BY <3>3 DEF HomeRole
  <2>2. CASE v # c.user
    <3>1. users'[v] = users[v] /\ Uses
      BY <1>3, <1>7, <2>2 DEF Uses, secretVars
    <3> QED
      BY <1>3, <1>8, <3>1, HomeRoleKept
  <2> QED BY <2>1, <2>2
<1>9. \A v \in Users : /\ users'[v].made = users[v].made
                       /\ users'[v].redacted = users[v].redacted
                       /\ users'[v].linked = users[v].linked
                       /\ users'[v].secret = users[v].secret
  BY <1>4, <1>6, <1>7
<1> QED
  BY <1>1, <1>2, <1>3, <1>8, <1>9, AccountsSerial

LEMMA DisableMemberSerial ==
  ASSUME IInv, CInv, SInv, NEW r \in Requests, DisableMember(r)
  PROVE  SInv'
<1>1. PICK c \in Call : c = call[r]
  BY CallFacts
<1>2. c.user \in Users /\ c.ws \in Workspaces /\ c.at = "disable"
  BY <1>1, CallFacts DEF DisableMember
<1>3. /\ Goes(r, "home") /\ UNCHANGED <<users, founder, invites, tokens, planVars>>
      /\ Revoke(SessionsIn(c.user, c.ws))
  BY <1>1 DEF DisableMember
<1>4. PICK x \in Member : x = members[c.user][c.ws]
  BY <1>2 DEF IInv, IdentityTypeOK
<1>5. PICK m : m = [x EXCEPT !.active = FALSE]
  OBVIOUS
<1>6. /\ m.role = x.role
      /\ members' = [members EXCEPT ![c.user] = [members[c.user] EXCEPT ![c.ws] = m]]
  BY <1>1, <1>2, <1>4, <1>5 DEF DisableMember, Member, IInv, IdentityTypeOK
<1>7. \A v \in Users, w \in Workspaces :
        members'[v][w] = IF v = c.user /\ w = c.ws THEN m ELSE members[v][w]
  BY <1>2, <1>6 DEF IInv, IdentityTypeOK
<1>8. Runs(r) /\ call'[r].at = "home"
  BY <1>1, <1>2, <1>3, GoesRuns
<1>9. Current(call[r])'
  BY <1>8 DEF Current
<1>10. ASSUME width = 1, NEW v \in Users PROVE HomeRole(v)' /\ NothingLeft(v)'
  <2>1. users[v].home \in Workspaces /\ Uses
    BY <1>3 DEF IInv, IdentityTypeOK, User, Uses
  <2>2. members'[v][users[v].home].role = members[v][users[v].home].role
    BY <1>4, <1>6, <1>7, <2>1
  <2>3. HomeRole(v)'
    BY <1>3, <1>10, <2>1, <2>2, HomeRoleKept
  <2>4. NothingLeft(v)'
    BY <1>3, <1>10, NothingLeftKept DEF OpenInvites
  <2> QED BY <2>3, <2>4
<1>11. ASSUME width = 1, NEW s \in Sessions PROVE Entitled(s)'
  <2>1. /\ sessions'[s].live => sessions[s].live /\ s \notin SessionsIn(c.user, c.ws)
        /\ sessions'[s].user = sessions[s].user /\ sessions'[s].ws = sessions[s].ws
        /\ sessions'[s].resets = sessions[s].resets
    BY <1>3, RevokedRow
  <2>2. sessions[s].live => sessions[s].made
    BY DEF IInv, Tables, SessionsFit
  <2>3. sessions'[s].live => sessions[s].user # c.user \/ sessions[s].ws # c.ws
    BY <2>1, <2>2 DEF SessionsIn, SessionsOf
  <2>4. sessions[s].user \in Users /\ sessions[s].ws \in Workspaces
    BY DEF IInv, IdentityTypeOK, Session
  <2>5. sessions'[s].live =>
          members'[sessions[s].user][sessions[s].ws] = members[sessions[s].user][sessions[s].ws]
    BY <1>7, <2>3, <2>4
  <2> QED
    BY <1>3, <1>11, <2>1, <2>4, <2>5, EntitledKept DEF Resets
<1> QED
  BY <1>8, <1>9, <1>10, <1>11, SerialStep

LEMMA FoundWorkspaceSerial ==
  ASSUME IInv, CInv, SInv, NEW r \in Requests, FoundWorkspace(r)
  PROVE  SInv'
<1>1. PICK c \in Call : c = call[r]
  BY CallFacts
<1> DEFINE oauth == c.at = "settle"
<1>2. /\ c.user \in Users /\ c.at # "idle"
      /\ oauth \/ (c.at = "found" /\ c.item # "signup")
  BY <1>1, CallFacts DEF FoundWorkspace
<1>3. Ends(r) /\ UNCHANGED <<invites, planVars>>
  BY DEF FoundWorkspace
<1>4. CASE UNCHANGED <<accountVars, sessions, tokens>>
  BY <1>1, <1>2, <1>3, <1>4, SerialEnds DEF secretVars
<1>5. ASSUME NEW w \in Workspaces,
             users' = [users EXCEPT ![c.user] = Founded(c.user, w, oauth)],
             members' = [members EXCEPT ![c.user][w] = [role |-> "owner", active |-> TRUE]],
             CreateSession(c.user, w, Resets(c.user)),
             tokens' = IF oauth THEN Redeemed("signup", c.user, c.seen)
                                ELSE Issued("verify", c.user, 0)
      PROVE  SInv'
  <2>1. PICK m : m = [role |-> "owner", active |-> TRUE]
    OBVIOUS
  <2>2. /\ m.active /\ m.role = "owner"
        /\ members' = [members EXCEPT ![c.user] = [members[c.user] EXCEPT ![w] = m]]
    BY <1>5, <2>1
  <2>3. /\ members'[c.user][w] = m
        /\ \A v \in Users, x \in Workspaces :
             v # c.user \/ x # w => members'[v][x] = members[v][x]
        /\ \A v \in Users, x \in Workspaces : members[v][x].active => members'[v][x].active
    BY <1>2, <2>2, JoinedRow
  <2>4. PICK f : f = Founded(c.user, w, oauth)
    OBVIOUS
  <2>5. f.home = w /\ f.role = "owner" /\ f.redacted = users[c.user].redacted
    <3>1. PICK u \in User : u = users[c.user]
      BY <1>2 DEF IInv, IdentityTypeOK
    <3>2. PICK secret : secret = (u.secret \/ ~oauth)
      OBVIOUS
    <3>3. f = [u EXCEPT !.made = TRUE, !.home = w, !.role = "owner", !.secret = secret,
                        !.verified = oauth, !.linked = oauth]
      BY <2>4, <3>1, <3>2 DEF Founded
    <3> HIDE DEF oauth
    <3> QED
      BY <3>1, <3>3 DEF User
  <2>6. \A v \in Users : users'[v] = IF v = c.user THEN f ELSE users[v]
    <3>1. users' = [users EXCEPT ![c.user] = f]
      BY <1>5, <2>4
    <3> QED
      BY <1>2, <3>1 DEF IInv, IdentityTypeOK
  <2>7. "reset" \in Kind /\ "verify" \in Kind /\ "signup" \in Kind
    BY DEF Kind
  <2>8. /\ \A v \in Users : tokens'["reset"][v].used = tokens["reset"][v].used
        /\ \A v \in Users : v # c.user => /\ tokens'["reset"][v] = tokens["reset"][v]
                                          /\ tokens'["verify"][v] = tokens["verify"][v]
    <3>1. CASE oauth
      <4>1. \A j \in Kind, v \in Users :
              j # "signup" \/ v # c.user => tokens'[j][v] = tokens[j][v]
        BY <1>2, <1>5, <2>7, <3>1, RedeemedRow
      <4> QED BY <2>7, <4>1
    <3>2. CASE ~oauth
      <4>1. \A j \in Kind, v \in Users :
              j # "verify" \/ v # c.user => tokens'[j][v] = tokens[j][v]
        BY <1>2, <1>5, <2>7, <3>2, IssuedRow
      <4> QED BY <2>7, <4>1
    <3> QED BY <3>1, <3>2
  <2>9. width = 1 => ~users[c.user].redacted
    BY <1>1, <1>2 DEF SInv, Current
  <2>10. ASSUME width = 1, NEW v \in Users PROVE HomeRole(v)' /\ NothingLeft(v)'
    <3>1. CASE v = c.user
      <4>1. users'[v].home = w /\ users'[v].role = "owner" /\ ~users'[v].redacted
        BY <2>5, <2>6, <2>9, <2>10, <3>1
      <4>2. members'[v][users'[v].home].role = users'[v].role
        BY <2>2, <2>3, <3>1, <4>1
      <4> QED
        BY <4>1, <4>2 DEF HomeRole, NothingLeft
    <3>2. CASE v # c.user
      <4>1. users'[v] = users[v] /\ users[v].home \in Workspaces /\ Uses
        BY <1>3, <2>6, <3>2 DEF IInv, IdentityTypeOK, User, Uses
      <4>2. HomeRole(v)'
        BY <2>3, <2>10, <3>2, <4>1, HomeRoleKept
      <4>3. NothingLeft(v)'
        BY <1>3, <2>8, <2>10, <3>2, <4>1, NothingLeftKept DEF OpenInvites
      <4> QED BY <4>2, <4>3
    <3> QED BY <3>1, <3>2
  <2>11. ASSUME width = 1, NEW s \in Sessions PROVE Entitled(s)'
    <3>1. \A v \in Users : Resets(v)' = Resets(v) /\ (users'[v].redacted => users[v].redacted)
      BY <2>5, <2>6, <2>8 DEF Resets
    <3>2. members'[c.user][w].active /\ ~users'[c.user].redacted
      BY <1>2, <2>2, <2>3, <2>5, <2>6, <2>9, <2>11
    <3> QED
      BY <1>2, <1>5, <2>3, <2>11, <3>1, <3>2, SerialCreates
  <2> QED
    BY <1>1, <1>2, <1>3, <2>10, <2>11, SerialWrites
<1>6. \/ UNCHANGED <<accountVars, sessions, tokens>>
      \/ \E w \in Workspaces :
           /\ users' = [users EXCEPT ![c.user] = Founded(c.user, w, oauth)]
           /\ members' = [members EXCEPT ![c.user][w] = [role |-> "owner", active |-> TRUE]]
           /\ CreateSession(c.user, w, Resets(c.user))
           /\ tokens' = IF oauth THEN Redeemed("signup", c.user, c.seen)
                                 ELSE Issued("verify", c.user, 0)
  BY <1>1, Zenon DEF FoundWorkspace
<1> QED
  BY <1>4, <1>5, <1>6

LEMMA AnonymizeMemberSerial ==
  ASSUME IInv, CInv, SInv, NEW r \in Requests, AnonymizeMember(r)
  PROVE  SInv'
<1>1. PICK c \in Call : c = call[r]
  BY CallFacts
<1>2. c.user \in Users /\ c.at = "redact"
  BY <1>1, CallFacts DEF AnonymizeMember
<1>3. Ends(r) /\ UNCHANGED <<members, founder, planVars>> /\ Revoke(SessionsOf(c.user))
  BY <1>1 DEF AnonymizeMember
<1>4. PICK u \in User : u = users[c.user]
  BY <1>2 DEF IInv, IdentityTypeOK
<1>5. PICK f : f = Redacted(u)
  OBVIOUS
<1>6. /\ f.made = u.made /\ f.home = u.home /\ f.role = u.role
      /\ ~f.linked /\ ~f.secret
  BY <1>5 DEF Redacted, User
<1>7. \A v \in Users : users'[v] = IF v = c.user THEN f ELSE users[v]
  <2>1. users' = [users EXCEPT ![c.user] = f]
    BY <1>1, <1>4, <1>5 DEF AnonymizeMember
  <2> QED
    BY <1>2, <2>1 DEF IInv, IdentityTypeOK
<1>8. "reset" \in Kind /\ "verify" \in Kind
  BY DEF Kind
<1>9. ASSUME NEW k \in {"reset", "verify"}, NEW v \in Users
      PROVE  /\ tokens'[k][v].used = tokens[k][v].used
             /\ tokens'[k][v].fresh = IF v = c.user THEN {} ELSE tokens[k][v].fresh
  <2>1. PICK t \in [Users -> Token] : t = tokens[k]
    BY <1>8, TokenFacts
  <2>2. PICK x : x = [t[c.user] EXCEPT !.fresh = {}]
    OBVIOUS
  <2>3. x.used = t[c.user].used /\ x.fresh = {}
    BY <1>2, <2>2 DEF Token
  <2>4. tokens'[k] = [t EXCEPT ![c.user] = x]
    BY <1>1, <1>8, <2>1, <2>2 DEF AnonymizeMember
  <2>5. tokens'[k][v] = IF v = c.user THEN x ELSE t[v]
    BY <1>2, <2>4
  <2> QED
    BY <2>1, <2>3, <2>5
<1>10. ASSUME NEW i \in Invites
       PROVE  /\ invites'[i].made = invites[i].made /\ invites'[i].user = invites[i].user
              /\ invites'[i].used = invites[i].used
              /\ invites'[i] = invites[i] \/ invites'[i].revoked
              /\ invites[i].made /\ invites[i].user = c.user /\ invites[i].used = 0
                   => invites'[i].revoked
  <2>1. PICK x \in Invite : x = invites[i]
    BY DEF IInv, IdentityTypeOK
  <2>2. PICK y : y = [x EXCEPT !.revoked = TRUE]
    OBVIOUS
  <2>3. y.made = x.made /\ y.user = x.user /\ y.used = x.used /\ y.revoked
    BY <2>2 DEF Invite
  <2>4. invites'[i] = IF x.made /\ x.user = c.user /\ x.used = 0 THEN y ELSE x
    BY <1>1, <2>1, <2>2 DEF AnonymizeMember
  <2> QED
    BY <2>1, <2>3, <2>4
<1>11. ASSUME width = 1, NEW v \in Users PROVE HomeRole(v)' /\ NothingLeft(v)'
  <2>1. /\ users'[v].made = users[v].made /\ users'[v].home = users[v].home
        /\ users'[v].role = users[v].role
    BY <1>4, <1>6, <1>7
  <2>2. Uses
    BY <1>10 DEF Uses
  <2>3. HomeRole(v)'
    BY <1>3, <1>11, <2>1, <2>2, HomeRoleKept
  <2>4. CASE v = c.user
    <3>1. \A w \in Workspaces : OpenInvites(v, w)' = {}
      BY <1>10, <2>4 DEF OpenInvites
    <3>2. users'[v].made /\ ~users'[v].linked /\ ~users'[v].secret
      BY <1>1, <1>2, <1>4, <1>6, <1>7, <1>11, <2>4 DEF SInv, Current
    <3>3. tokens'["reset"][v].fresh = {} /\ tokens'["verify"][v].fresh = {}
      BY <1>9, <2>4
    <3> QED
      BY <2>3, <3>1, <3>2, <3>3 DEF NothingLeft
  <2>5. CASE v # c.user
    <3>1. users'[v] = users[v]
      BY <1>7, <2>5
    <3>2. \A w \in Workspaces : OpenInvites(v, w)' \subseteq OpenInvites(v, w)
      BY <1>10, OpenInvitesLeft
    <3>3. /\ tokens'["reset"][v].fresh \subseteq tokens["reset"][v].fresh
          /\ tokens'["verify"][v].fresh \subseteq tokens["verify"][v].fresh
      BY <1>9, <2>5
    <3> QED
      BY <1>11, <2>3, <3>1, <3>2, <3>3, NothingLeftKept
  <2> QED BY <2>4, <2>5
<1>12. ASSUME width = 1, NEW s \in Sessions PROVE Entitled(s)'
  <2>1. /\ sessions'[s].live => sessions[s].live /\ s \notin SessionsOf(c.user)
        /\ sessions'[s].user = sessions[s].user /\ sessions'[s].ws = sessions[s].ws
        /\ sessions'[s].resets = sessions[s].resets
    BY <1>3, RevokedRow
  <2>2. sessions[s].live => sessions[s].made
    BY DEF IInv, Tables, SessionsFit
  <2>3. sessions'[s].live => sessions[s].user # c.user
    BY <2>1, <2>2 DEF SessionsOf
  <2>4. sessions[s].user \in Users
    BY DEF IInv, IdentityTypeOK, Session
  <2>5. sessions'[s].live => users'[sessions[s].user] = users[sessions[s].user]
    BY <1>7, <2>3, <2>4
  <2>6. Resets(sessions[s].user)' = Resets(sessions[s].user)
    BY <1>9, <2>1, <2>4 DEF Resets
  <2> QED
    BY <1>3, <1>12, <2>1, <2>5, <2>6, EntitledKept
<1> QED
  BY <1>1, <1>2, <1>3, <1>11, <1>12, SerialWrites

LEMMA NextSerial ==
  IInv /\ CInv /\ SInv /\ [IdentityNext]_identityVars => SInv'
<1> SUFFICES ASSUME IInv, CInv, SInv, [IdentityNext]_identityVars PROVE SInv'
  OBVIOUS
<1>1. CASE InviteExpires
  BY <1>1, InviteExpiresSerial
<1>2. ASSUME NEW r \in Requests, SessionStep(r) PROVE SInv'
  BY <1>2, FindSessionSerial, EnsurePrimaryMembershipSerial, AdmitSessionSerial,
     FindTargetSerial, MoveSessionSerial, FindSessionAgainSerial, LogoutSerial, RecogniseSerial,
     PickWorkspaceSerial, EnterSerial DEF SessionStep
<1>3. ASSUME NEW r \in Requests, TokenStep(r) PROVE SInv'
  BY <1>3, RequestTokenSerial, FindTokensSerial, IssueTokenSerial, FindTokenSerial,
     RedeemTokenSerial, FindAddressFreeSerial, FindOwnerSerial, FoundWorkspaceSerial DEF TokenStep
<1>4. ASSUME NEW r \in Requests, InviteStep(r) PROVE SInv'
  BY <1>4, CheckNoMemberSerial, CheckNoInviteSerial, CreateInviteSerial, FindInviteSerial,
     RevokeInviteSerial, FindInvitedSerial, AcceptInviteSerial DEF InviteStep
<1>5. ASSUME NEW r \in Requests, AdminStep(r) PROVE SInv'
  BY <1>5, CheckHireSerial, FindHiredSerial, CreateMemberSerial, AdministerSerial,
     LockMemberSerial, UpdateMemberSerial,
     DisableMemberSerial, FindHomeSerial, FindNextHomeSerial, RealignUserSerial,
     CheckSeatSerial, EnableMemberSerial, AnonymizeMemberSerial DEF AdminStep
<1>6. CASE UNCHANGED identityVars
  <2>1. UNCHANGED <<users, members, sessions, invites, tokens, call, width>>
    BY <1>6 DEF identityVars
  <2> QED
    BY <2>1, SMTT(30) DEF SInv, Current, HomeRole, NothingLeft, OpenInvites, Entitled, Resets
<1> QED
  BY <1>1, <1>2, <1>3, <1>4, <1>5, <1>6 DEF IdentityNext

LEMMA InitSerial ==
  IdentityInit => SInv
<1> SUFFICES ASSUME IdentityInit PROVE SInv
  OBVIOUS
<1>1. PICK sites \in (SUBSET Workspaces) \ {{}}, guests \in SUBSET (Users \ {Founder}),
           given \in Grantable :
        \E home \in [Users -> sites] : FirstAccounts(sites, guests, given, home)
  BY DEF IdentityInit
<1>2. PICK home \in [Users -> sites] : FirstAccounts(sites, guests, given, home)
  BY <1>1
<1> DEFINE there == guests \cup {Founder}
<1>3. sessions = [s \in Sessions |-> NoSession] /\ call = [r \in Requests |-> Idle]
  BY DEF IdentityInit
<1>4. ASSUME NEW r \in Requests PROVE Current(call[r])
  BY <1>3 DEF Idle, Current
<1>5. ASSUME NEW s \in Sessions PROVE Entitled(s)
  BY <1>3 DEF NoSession, Entitled
<1>6. ASSUME NEW u \in Users PROVE HomeRole(u) /\ NothingLeft(u)
  <2>1. users[u] = IF u \in there
          THEN [NoUser EXCEPT !.made = TRUE, !.home = home[u], !.role = RoleOf(u, given),
                              !.secret = TRUE]
          ELSE NoUser
    BY <1>2 DEF FirstAccounts
  <2>2. CASE u \in there
    <3>1. /\ users[u].home = home[u] /\ users[u].role = RoleOf(u, given)
          /\ ~users[u].redacted
      BY <2>1, <2>2 DEF NoUser
    <3>2. home[u] \in sites /\ home[u] \in Workspaces
      BY <1>1, <1>2
    <3>3. members[u][home[u]] = [role |-> RoleOf(u, given), active |-> TRUE]
      BY <1>2, <2>2, <3>2 DEF FirstAccounts
    <3> QED
      BY <3>1, <3>3 DEF HomeRole, NothingLeft
  <2>3. CASE u \notin there
    <3>1. ~users[u].made /\ ~users[u].redacted
      BY <2>1, <2>3 DEF NoUser
    <3> QED
      BY <3>1 DEF HomeRole, NothingLeft
  <2> QED BY <2>2, <2>3
<1> QED
  BY <1>4, <1>5, <1>6 DEF SInv

LEMMA SerialHolds ==
  IdentitySpec => [](IInv /\ CInv /\ SInv)
<1>1. IdentityInit => SInv
  BY InitSerial
<1>2. IInv /\ CInv /\ SInv /\ [IdentityNext]_identityVars => SInv'
  BY NextSerial
<1>3. IdentitySpec => [](IInv /\ CInv)
  BY CountsHold
<1> QED
  BY <1>1, <1>2, <1>3, PTL DEF IdentitySpec

\* Requests that do not overlap leave the role of a user and the role of the
\* membership at home the same, whatever came between.
THEOREM HomeRolesAgree == IdentitySpec => []HomeRoleAgrees
<1>1. SInv => HomeRoleAgrees
  BY DEF SInv, HomeRole, HomeRoleAgrees, Serial
<1> QED
  BY <1>1, SerialHolds, PTL

\* Requests that do not overlap leave no live session to a member disabled
\* there, to a password that was reset or to an anonymised user.
THEOREM LiveSessionsAreEntitled == IdentitySpec => []SessionsAreEntitled
<1>1. SInv => SessionsAreEntitled
  BY DEF SInv, Entitled, SessionsAreEntitled, Serial
<1> QED
  BY <1>1, SerialHolds, PTL

\* Requests that do not overlap leave an anonymised user no password, linked
\* account, mailed token or open invite.
THEOREM RedactedKeepsNothing == IdentitySpec => []NothingLeftOfRedacted
<1>1. SInv => NothingLeftOfRedacted
  BY DEF SInv, NothingLeft, NothingLeftOfRedacted, Serial
<1> QED
  BY <1>1, SerialHolds, PTL
=============================================================================
