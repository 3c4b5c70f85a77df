------------------------------ MODULE Identity ------------------------------
(***************************************************************************)
(* Who may act in which workspace: the accounts, memberships, sessions,    *)
(* invites and mailed tokens of modules/auth/service.ts, and the           *)
(* operations of modules/workspace-admin/service.ts that change them.      *)
(*                                                                         *)
(* A request is a slot that runs one handler at a time.  A handler reads,  *)
(* awaits and writes: each query is a step, and what was read is kept in   *)
(* call[r].  A transaction is the step in which it commits, since nobody   *)
(* sees its writes before; where they follow from something it has read,   *)
(* READ COMMITTED keeps nobody from changing that, and reading it is a     *)
(* step before.                                                            *)
(*                                                                         *)
(* An account stands for its mail address; anonymisation frees the         *)
(* address, and what happens at it later happens to another account.       *)
(* Nothing in the code sets users.disabledAt, so it is always null and has *)
(* no place here.                                                          *)
(***************************************************************************)
EXTENDS Naturals, FiniteSets

CONSTANTS
  Requests,      \* slots for handlers that run at the same time
  Users, Founder,
  Workspaces, Sessions, Invites,
  Grantable,     \* the roles an administrator can give
  MaxSeats,      \* bound on the internal_users limit of a plan
  Nothing,       \* a field that holds nothing
  MaxInFlight,   \* bound on the requests that run at the same time
  MaxTokens,     \* bound on the tokens of one kind mailed to one user
  MaxOps         \* bound on the requests of a behaviour; one fewer if they overlap

ASSUME IdentityAssumption ==
  /\ Founder \in Users
  /\ "owner" \notin Grantable
  /\ Nothing \notin Users \cup Workspaces \cup Sessions \cup Invites \cup Grantable
  /\ Nothing \notin {"owner", "link", "reset", "verify", "signup"}
  /\ "link" \notin Sessions
  /\ Workspaces # {}
  /\ IsFiniteSet(Requests) /\ IsFiniteSet(Users)
  /\ MaxSeats \in Nat \ {0}
  /\ MaxInFlight \in Nat \ {0}
  /\ MaxTokens \in Nat
  /\ MaxOps \in Nat

VARIABLES
  users,      \* the users table; linked: it has an oauth_accounts row
  members,    \* members[u][w]: the workspace_memberships row, if any
  founder,    \* founder[w]: whose signup made the workspace
  sessions,   \* user_sessions; resets: the user's password resets before it
  invites,    \* workspace_invites; used counts the acceptances
  tokens,     \* tokens[k][u]: the mailed tokens, numbered, and which are fresh
  call,       \* call[r]: what request r is doing and has read
  seats,      \* the internal_users limit of the plan
  width,      \* how many requests this behaviour lets run at once
  ops,
  crossed     \* history: users given a role for a home that had just moved

identityVars == <<users, members, founder, sessions, invites, tokens, call, seats, width, ops, crossed>>
accountVars == <<users, members, founder, crossed>>
secretVars == <<sessions, invites, tokens>>
planVars == <<seats, width>>

Role == Grantable \cup {"owner"}
Kind == {"reset", "verify", "signup"}
Step == {"idle", "upsert", "admit", "target", "move", "again", "pick", "enter", "issue",
         "mail", "redeem", "found", "settle", "invited", "accept", "hire", "join", "role",
         "rerole", "disable", "home", "next", "realign", "seat", "enable", "open", "invite",
         "revoke", "redact"}
\* What a transaction finds: no account, one without a password, or one whose
\* home the workspace is or is not.
Met == {"none", "bare", "home", "away"}

User == [made : BOOLEAN, home : Workspaces, role : Role, secret : BOOLEAN,
         verified : BOOLEAN, linked : BOOLEAN, redacted : BOOLEAN]
Member == [role : Role \cup {Nothing}, active : BOOLEAN]
Session == [user : Users, ws : Workspaces, made : BOOLEAN, live : BOOLEAN, resets : Nat]
Invite == [user : Users, ws : Workspaces, role : Role, made : BOOLEAN,
           expired : BOOLEAN, revoked : BOOLEAN, used : Nat]
Token == [made : Nat, fresh : SUBSET Nat, used : Nat]
Call == [at : Step, user : Users, ws : Workspaces, home : Workspaces,
         role : Role \cup {Nothing}, item : Sessions \cup Invites \cup Kind \cup {"link", Nothing},
         seen : Nat, to : Workspaces \cup {Nothing}, met : Met]

IdentityTypeOK ==
  /\ users \in [Users -> User]
  /\ members \in [Users -> [Workspaces -> Member]]
  /\ founder \in [Workspaces -> Users \cup {Nothing}]
  /\ sessions \in [Sessions -> Session]
  /\ invites \in [Invites -> Invite]
  /\ tokens \in [Kind -> [Users -> Token]]
  /\ call \in [Requests -> Call]
  /\ seats \in 1..MaxSeats
  /\ width \in 1..MaxInFlight
  /\ ops \in 0..MaxOps
  /\ crossed \subseteq Users

Somewhere == CHOOSE w \in Workspaces : TRUE
Idle == [at |-> "idle", user |-> Founder, ws |-> Somewhere, home |-> Somewhere,
         role |-> Nothing, item |-> Nothing, seen |-> 0, to |-> Nothing, met |-> "none"]
NoUser == [made |-> FALSE, home |-> Somewhere, role |-> "owner", secret |-> FALSE,
           verified |-> FALSE, linked |-> FALSE, redacted |-> FALSE]
NoMember == [role |-> Nothing, active |-> FALSE]
NoSession == [user |-> Founder, ws |-> Somewhere, made |-> FALSE, live |-> FALSE, resets |-> 0]
NoInvite == [user |-> Founder, ws |-> Somewhere, role |-> "owner", made |-> FALSE,
             expired |-> FALSE, revoked |-> FALSE, used |-> 0]

RoleOf(u, given) == IF u = Founder THEN "owner" ELSE given
FirstAccounts(sites, guests, given, home) ==
  LET there == guests \cup {Founder} IN
  /\ users = [u \in Users |-> IF u \in there
       THEN [NoUser EXCEPT !.made = TRUE, !.home = home[u], !.role = RoleOf(u, given), !.secret = TRUE]
       ELSE NoUser]
  /\ members = [u \in Users |-> [w \in Workspaces |->
       IF u \in there /\ w \in sites THEN [role |-> RoleOf(u, given), active |-> TRUE] ELSE NoMember]]
  /\ founder = [w \in Workspaces |-> IF w \in sites THEN Founder ELSE Nothing]
  /\ seats \in Cardinality(there)..MaxSeats

NoToken == [made |-> 0, fresh |-> {}, used |-> 0]
FirstToken == [made |-> 1, fresh |-> {1}, used |-> 0]

\* The founder has signed up, once or more; of the others some are members of
\* all these workspaces, with a password an administrator gave them, and some
\* had come before that from a provider, who gave them a sign-up token.
IdentityInit ==
  /\ \E sites \in (SUBSET Workspaces) \ {{}}, guests \in SUBSET (Users \ {Founder}),
        given \in Grantable :
       \E home \in [Users -> sites] : FirstAccounts(sites, guests, given, home)
  /\ sessions = [s \in Sessions |-> NoSession]
  /\ invites = [i \in Invites |-> NoInvite]
  /\ \E came \in SUBSET (Users \ {Founder}) :
       tokens = [k \in Kind |-> [u \in Users |->
         IF k = "signup" /\ u \in came THEN FirstToken ELSE NoToken]]
  /\ call = [r \in Requests |-> Idle]
  /\ width \in 1..MaxInFlight
  /\ ops = 0
  /\ crossed = {}

Running == {r \in Requests : call[r].at # "idle"}
Starts(r, c) ==
  /\ call[r].at = "idle" /\ Cardinality(Running) < width /\ ops + width <= MaxOps
  /\ ops' = ops + 1
  /\ call' = [call EXCEPT ![r] = c]
Goes(r, to) == call' = [call EXCEPT ![r].at = to]
Ends(r) == call' = [call EXCEPT ![r] = Idle]

IsMember(u, w) == members[u][w].role # Nothing
Resets(u) == tokens["reset"][u].used
SessionsOf(u) == {s \in Sessions : sessions[s].made /\ sessions[s].user = u}
SessionsIn(u, w) == {s \in SessionsOf(u) : sessions[s].ws = w}
\* An address that still belongs to the account.
Known(u) == users[u].made /\ ~users[u].redacted

\* No transaction holds the row of this membership.
Unlocked(u, w) ==
  \A q \in Requests : ~(call[q].at = "rerole" /\ call[q].user = u /\ call[q].ws = w)

\* The one whose home has moved since it was read.
Crossing(c) ==
  IF c.met = "home" /\ users[c.user].home # c.ws THEN crossed \cup {c.user} ELSE crossed

Revoke(S) ==
  sessions' = [s \in Sessions |-> IF s \in S THEN [sessions[s] EXCEPT !.live = FALSE] ELSE sessions[s]]
CreateSession(u, w, n) ==
  \E s \in Sessions :
    /\ ~sessions[s].made
    /\ sessions' = [sessions EXCEPT ![s] =
         [user |-> u, ws |-> w, made |-> TRUE, live |-> TRUE, resets |-> n]]

-----------------------------------------------------------------------------
(* findSessionByToken, alone or at both ends of switchDashboardWorkspace   *)

\* The session and its user are read together; an expired one is revoked.
FindSession(r) ==
  \E s \in Sessions, to \in Workspaces \cup {Nothing} :
    LET u == sessions[s].user IN
    /\ sessions[s].live
    /\ \/ Starts(r, Idle) /\ Revoke({s})
       \/ /\ Starts(r, [Idle EXCEPT !.at = "upsert", !.user = u, !.ws = sessions[s].ws,
                          !.home = users[u].home, !.role = users[u].role, !.item = s, !.to = to])
          /\ UNCHANGED sessions
    /\ UNCHANGED <<accountVars, invites, tokens, planVars>>

\* The upsert: the membership of the user's home gets the role that was read.
EnsurePrimaryMembership(r) ==
  LET c == call[r] IN
  /\ c.at = "upsert" /\ Unlocked(c.user, c.home)
  /\ members' = [members EXCEPT ![c.user][c.home] =
       [role |-> c.role, active |-> IF IsMember(c.user, c.home) THEN @.active ELSE TRUE]]
  /\ Goes(r, IF c.item \in Sessions THEN "admit" ELSE "pick")
  /\ UNCHANGED <<users, founder, crossed, secretVars, planVars, ops>>

\* The membership of the session's workspace decides, and without one all the
\* user's sessions there are revoked.
AdmitSession(r) ==
  LET c == call[r] IN
  /\ c.at = "admit"
  /\ IF members[c.user][c.ws].active
       THEN /\ IF c.to = Nothing THEN Ends(r) ELSE Goes(r, "target")
            /\ UNCHANGED sessions
       ELSE Ends(r) /\ Revoke(SessionsIn(c.user, c.ws))
  /\ UNCHANGED <<accountVars, invites, tokens, planVars, ops>>

FindTarget(r) ==
  LET c == call[r] IN
  /\ c.at = "target"
  /\ IF members[c.user][c.to].active THEN Goes(r, "move") ELSE Ends(r)
  /\ UNCHANGED <<accountVars, secretVars, planVars, ops>>

\* The session moves whatever became of it and of the membership meanwhile.
MoveSession(r) ==
  LET c == call[r] IN
  /\ c.at = "move"
  /\ sessions' = [sessions EXCEPT ![c.item].ws = c.to]
  /\ Goes(r, "again")
  /\ UNCHANGED <<accountVars, invites, tokens, planVars, ops>>

\* getCurrentDashboardSession: the lookup from its start.
FindSessionAgain(r) ==
  LET c == call[r]
      s == sessions[c.item]
  IN  /\ c.at = "again"
      /\ IF s.live
           THEN call' = [call EXCEPT ![r] =
                  [c EXCEPT !.at = "upsert", !.ws = s.ws, !.home = users[s.user].home,
                            !.role = users[s.user].role, !.to = Nothing]]
           ELSE Ends(r)
      /\ UNCHANGED <<accountVars, secretVars, planVars, ops>>

Logout(r) ==
  /\ Starts(r, Idle)
  /\ \E s \in Sessions : sessions[s].live /\ Revoke({s})
  /\ UNCHANGED <<accountVars, invites, tokens, planVars>>

-----------------------------------------------------------------------------
(* loginDashboardUser, completeDashboardOauth                              *)

\* The user is read and recognised: by address and password, by a linked
\* account, or by the address alone, to which the account is going to be linked.
Recognise(r) ==
  \E u \in Users, how \in {Nothing, "link"} :
    /\ users[u].made
    /\ IF how = "link" THEN Known(u) /\ ~users[u].linked
                       ELSE (Known(u) /\ users[u].secret) \/ users[u].linked
    /\ Starts(r, [Idle EXCEPT !.at = "upsert", !.user = u, !.home = users[u].home,
                    !.role = users[u].role, !.item = how, !.seen = Resets(u)])
    /\ UNCHANGED <<accountVars, secretVars, planVars>>

\* resolveActiveMembership: the home if it is active, any active one if not.
PickWorkspace(r) ==
  LET c == call[r]
      active == {w \in Workspaces : members[c.user][w].active}
  IN  /\ c.at = "pick"
      /\ \/ active = {} /\ Ends(r)
         \/ \E w \in (IF c.home \in active THEN {c.home} ELSE active) :
              call' = [call EXCEPT ![r] = [c EXCEPT !.at = "enter", !.ws = w]]
      /\ UNCHANGED <<accountVars, secretVars, planVars, ops>>

\* The transaction; an account is linked to one user only.
Enter(r) ==
  LET c == call[r] IN
  /\ c.at = "enter"
  /\ \/ /\ c.item = "link" /\ users[c.user].linked
        /\ UNCHANGED <<users, sessions>>
     \/ /\ ~(c.item = "link" /\ users[c.user].linked)
        /\ users' = [users EXCEPT ![c.user].linked = @ \/ c.item = "link",
                                  ![c.user].verified = @ \/ c.item = "link"]
        /\ CreateSession(c.user, c.ws, c.seen)
  /\ Ends(r)
  /\ UNCHANGED <<members, founder, crossed, invites, tokens, planVars, ops>>

-----------------------------------------------------------------------------
(* Mailed tokens                                                           *)

\* A sign-up token is for an address without an account.
RequestToken(r) ==
  \E k \in Kind, u \in Users :
    /\ CASE k = "reset" -> Known(u)
         [] k = "verify" -> Known(u) /\ ~users[u].verified
         [] OTHER -> ~users[u].made
    /\ Starts(r, [Idle EXCEPT !.at = "issue", !.user = u, !.item = k])
    /\ UNCHANGED <<accountVars, secretVars, planVars>>

\* The transaction's updateMany: the tokens there are will be used up.
FindTokens(r) ==
  LET c == call[r] IN
  /\ c.at = "issue"
  /\ call' = [call EXCEPT ![r] = [c EXCEPT !.at = "mail", !.seen = tokens[c.item][c.user].made]]
  /\ UNCHANGED <<accountVars, secretVars, planVars, ops>>

\* A new token, which uses up the first n of its kind.
Issued(k, u, n) ==
  [tokens EXCEPT ![k][u].made = @ + 1,
                 ![k][u].fresh = {m \in @ : m > n} \cup {tokens[k][u].made + 1}]

IssueToken(r) ==
  LET c == call[r] IN
  /\ c.at = "mail"
  /\ tokens[c.item][c.user].made < MaxTokens
  /\ tokens' = Issued(c.item, c.user, c.seen)
  /\ Ends(r)
  /\ UNCHANGED <<accountVars, sessions, invites, planVars, ops>>

\* The token is looked up and found fresh, unless it is used or expired.
FindToken(r) ==
  \E k \in Kind, u \in Users :
    /\ \E n \in tokens[k][u].fresh :
         Starts(r, [Idle EXCEPT !.at = IF k = "signup" THEN "found" ELSE "redeem",
                      !.user = u, !.item = k, !.seen = n])
    /\ UNCHANGED <<accountVars, secretVars, planVars>>

\* Bug: the token stays good for its hour.
RedeemedAgain(k, u, n) == [tokens EXCEPT ![k][u].used = @ + 1]

Redeemed(k, u, n) ==
  [tokens EXCEPT ![k][u].used = @ + 1, ![k][u].fresh = @ \ {n}]

\* confirmDashboardPasswordReset and verifyDashboardEmailToken: the
\* transaction, which does not look at the token again.
RedeemToken(r) ==
  LET c == call[r] IN
  /\ c.at = "redeem"
  /\ tokens' = Redeemed(c.item, c.user, c.seen)
  /\ IF c.item = "reset"
       THEN /\ users' = [users EXCEPT ![c.user].secret = TRUE]
            /\ Revoke(SessionsOf(c.user))
       ELSE /\ users' = [users EXCEPT ![c.user].verified = TRUE]
            /\ UNCHANGED sessions
  /\ Ends(r)
  /\ UNCHANGED <<members, founder, crossed, invites, planVars, ops>>

-----------------------------------------------------------------------------
(* signupDashboardUser, completeDashboardOauthSignup                       *)

FindAddressFree(r) ==
  \E u \in Users :
    /\ ~users[u].made
    /\ Starts(r, [Idle EXCEPT !.at = "found", !.user = u])
    /\ UNCHANGED <<accountVars, secretVars, planVars>>

\* A signup through a provider looks the address up again in its transaction.
FindOwner(r) ==
  LET c == call[r] IN
  /\ c.at = "found" /\ c.item = "signup"
  /\ IF users[c.user].redacted
       THEN Ends(r)
       ELSE call' = [call EXCEPT ![r] =
              [c EXCEPT !.at = "settle", !.met = IF users[c.user].made THEN "away" ELSE "none"]]
  /\ UNCHANGED <<accountVars, secretVars, planVars, ops>>

\* The owner of the new workspace.  One that signs up by password has yet to
\* verify the address.
Founded(u, w, oauth) ==
  [users[u] EXCEPT !.made = TRUE, !.home = w, !.role = "owner", !.secret = @ \/ ~oauth,
                   !.verified = oauth, !.linked = oauth]

\* The transaction: a workspace with its owner, a session in it and, after a
\* signup by password, a verification token.  A signup through a provider
\* takes the account it has found along to the new workspace.  Addresses and
\* the accounts at the providers are unique.
FoundWorkspace(r) ==
  LET c == call[r]
      u == users[c.user]
      oauth == c.at = "settle"
      taken == IF c.met = "none" THEN u.made ELSE u.linked
  IN  /\ oauth \/ (c.at = "found" /\ c.item # "signup")
      /\ \/ taken /\ UNCHANGED <<accountVars, sessions, tokens>>
         \/ /\ ~taken
            /\ oauth \/ tokens["verify"][c.user].made < MaxTokens
            /\ \E w \in Workspaces :
                 /\ founder[w] = Nothing
                 /\ founder' = [founder EXCEPT ![w] = c.user]
                 /\ users' = [users EXCEPT ![c.user] = Founded(c.user, w, oauth)]
                 /\ members' = [members EXCEPT ![c.user][w] = [role |-> "owner", active |-> TRUE]]
                 /\ CreateSession(c.user, w, Resets(c.user))
            /\ tokens' = IF oauth THEN Redeemed("signup", c.user, c.seen)
                                  ELSE Issued("verify", c.user, 0)
            /\ UNCHANGED crossed
      /\ Ends(r)
      /\ UNCHANGED <<invites, planVars, ops>>

-----------------------------------------------------------------------------
(* Invites: createWorkspaceInvite, revokeWorkspaceInvite and               *)
(* acceptWorkspaceInvite                                                   *)

OpenInvites(u, w) ==
  {i \in Invites : LET v == invites[i] IN
     v.made /\ v.user = u /\ v.ws = w /\ ~v.revoked /\ ~v.expired /\ v.used = 0}

\* assertWorkspaceMembershipDoesNotExist, for the address.
CheckNoMember(r) ==
  \E u \in Users, w \in Workspaces, role \in Grantable :
    /\ ~users[u].redacted /\ ~IsMember(u, w) /\ founder[w] # Nothing
    /\ Starts(r, [Idle EXCEPT !.at = "open", !.user = u, !.ws = w, !.role = role])
    /\ UNCHANGED <<accountVars, secretVars, planVars>>

CheckNoInvite(r) ==
  LET c == call[r] IN
  /\ c.at = "open"
  /\ IF OpenInvites(c.user, c.ws) = {} THEN Goes(r, "invite") ELSE Ends(r)
  /\ UNCHANGED <<accountVars, secretVars, planVars, ops>>

CreateInvite(r) ==
  LET c == call[r] IN
  /\ c.at = "invite"
  /\ \E i \in Invites :
       /\ ~invites[i].made
       /\ invites' = [invites EXCEPT ![i] =
            [NoInvite EXCEPT !.made = TRUE, !.user = c.user, !.ws = c.ws, !.role = c.role]]
  /\ Ends(r)
  /\ UNCHANGED <<accountVars, sessions, tokens, planVars, ops>>

InviteExpires ==
  /\ \E i \in Invites :
       /\ invites[i].made /\ ~invites[i].expired
       /\ invites' = [invites EXCEPT ![i].expired = TRUE]
  /\ UNCHANGED <<accountVars, sessions, tokens, call, planVars, ops>>

FindInvite(r) ==
  \E i \in Invites, at \in {"revoke", "accept"} :
    LET v == invites[i] IN
    /\ v.made /\ ~v.revoked
    /\ at = "accept" => v.used = 0 /\ ~v.expired
    /\ Starts(r, [Idle EXCEPT !.at = IF at = "accept" THEN "invited" ELSE at,
                    !.user = v.user, !.ws = v.ws, !.role = v.role, !.item = i])
    /\ UNCHANGED <<accountVars, secretVars, planVars>>

RevokeInvite(r) ==
  LET c == call[r] IN
  /\ c.at = "revoke"
  /\ invites' = [invites EXCEPT ![c.item].revoked = TRUE]
  /\ Ends(r)
  /\ UNCHANGED <<accountVars, sessions, tokens, planVars, ops>>

\* The account of the invite's address; seen = 1 when there is one.  Of an
\* address that was freed another account is made, which is none of these.
FindInvited(r) ==
  LET c == call[r] IN
  /\ c.at = "invited"
  /\ IF users[c.user].redacted
       THEN Ends(r)
       ELSE call' = [call EXCEPT ![r] =
              [c EXCEPT !.at = "accept", !.seen = IF users[c.user].made THEN 1 ELSE 0]]
  /\ UNCHANGED <<accountVars, secretVars, planVars, ops>>

\* The transaction: it trusts what was read of the invite and of the account,
\* and fails only if the account it is to make has been made.
AcceptInvite(r) ==
  LET c == call[r] IN
  /\ c.at = "accept" /\ Unlocked(c.user, c.ws)
  /\ \/ /\ c.seen = 0 /\ users[c.user].made
        /\ UNCHANGED <<users, members, sessions, invites>>
     \/ /\ c.seen = 1 \/ ~users[c.user].made
        /\ users' = [users EXCEPT ![c.user] =
             IF c.seen = 1 THEN [@ EXCEPT !.verified = TRUE]
             ELSE [NoUser EXCEPT !.made = TRUE, !.home = c.ws, !.role = c.role,
                                 !.secret = TRUE, !.verified = TRUE]]
        /\ members' = [members EXCEPT ![c.user][c.ws] = [role |-> c.role, active |-> TRUE]]
        /\ invites' = [invites EXCEPT ![c.item].used = @ + 1]
        /\ CreateSession(c.user, c.ws, Resets(c.user))
  /\ Ends(r)
  /\ UNCHANGED <<founder, crossed, tokens, planVars, ops>>

-----------------------------------------------------------------------------
(* Administration of members, by somebody who may and is somebody else     *)

Active(w) == {u \in Users : members[u][w].active}

\* Bug: the last seat is given twice.
HasSeatOrOneMore(w) == Cardinality(Active(w)) <= seats

\* assertCanManageInternalUsers.
HasSeat(w) == Cardinality(Active(w)) < seats

\* createWorkspaceMember, up to its transaction.
CheckHire(r) ==
  \E u \in Users, w \in Workspaces, role \in Grantable :
    /\ ~users[u].redacted /\ ~IsMember(u, w) /\ founder[w] # Nothing
    /\ HasSeat(w)
    /\ Starts(r, [Idle EXCEPT !.at = "hire", !.user = u, !.ws = w, !.role = role])
    /\ UNCHANGED <<accountVars, secretVars, planVars>>

\* The transaction looks the account up at the address.
FindHired(r) ==
  LET c == call[r]
      u == users[c.user]
  IN  /\ c.at = "hire"
      /\ IF u.redacted
           THEN Ends(r)
           ELSE call' = [call EXCEPT ![r] = [c EXCEPT !.at = "join", !.met =
                  IF ~u.made THEN "none" ELSE IF ~u.secret THEN "bare"
                  ELSE IF u.home = c.ws THEN "home" ELSE "away"]]
      /\ UNCHANGED <<accountVars, secretVars, planVars, ops>>

\* An account is made, or given the password it lacked, or, at home already,
\* the role.
Hired(u, c) ==
  CASE c.met = "none" -> [NoUser EXCEPT !.made = TRUE, !.home = c.ws, !.role = c.role,
                                        !.secret = TRUE]
    [] c.met = "bare" -> [u EXCEPT !.secret = TRUE]
    [] c.met = "home" -> [u EXCEPT !.role = c.role]
    [] c.met = "away" -> u

\* The address is unique, and (user, workspace).
CreateMember(r) ==
  LET c == call[r]
      taken == IsMember(c.user, c.ws) \/ (c.met = "none" /\ users[c.user].made)
  IN  /\ c.at = "join"
      /\ \/ taken /\ UNCHANGED <<users, members, crossed>>
         \/ /\ ~taken
            /\ users' = [users EXCEPT ![c.user] = Hired(@, c)]
            /\ members' = [members EXCEPT ![c.user][c.ws] = [role |-> c.role, active |-> TRUE]]
            /\ crossed' = Crossing(c)
      /\ Ends(r)
      /\ UNCHANGED <<founder, secretVars, planVars, ops>>

\* Bug: the owner's role can be changed.
FindMemberOrOwner(at, u, w) == IsMember(u, w)

\* Which members an operation accepts, as read before its transaction.
FindMember(at, u, w) ==
  /\ IsMember(u, w)
  /\ at \in {"role", "disable", "redact"} => members[u][w].role # "owner"
  /\ at = "disable" => members[u][w].active
  /\ at \in {"seat", "redact"} => ~members[u][w].active
  /\ at = "redact" => Known(u)

Administer(r) ==
  \E at \in {"role", "disable", "seat", "redact"}, u \in Users, w \in Workspaces, role \in Grantable :
    /\ FindMember(at, u, w)
    /\ Starts(r, [Idle EXCEPT !.at = at, !.user = u, !.ws = w,
                    !.role = IF at = "role" THEN role ELSE Nothing])
    /\ UNCHANGED <<accountVars, secretVars, planVars>>

\* updateWorkspaceMember: the transaction writes the role of the membership,
\* whose row it keeps from then on, and reads where the user is at home.
LockMember(r) ==
  LET c == call[r] IN
  /\ c.at = "role" /\ Unlocked(c.user, c.ws)
  /\ call' = [call EXCEPT ![r] =
       [c EXCEPT !.at = "rerole", !.met = IF users[c.user].home = c.ws THEN "home" ELSE "away"]]
  /\ UNCHANGED <<accountVars, secretVars, planVars, ops>>

\* The user's role follows if the workspace was home, and it commits.
UpdateMember(r) ==
  LET c == call[r] IN
  /\ c.at = "rerole"
  /\ members' = [members EXCEPT ![c.user][c.ws].role = c.role]
  /\ users' = [users EXCEPT ![c.user].role = IF c.met = "home" THEN c.role ELSE @]
  /\ crossed' = Crossing(c)
  /\ Ends(r)
  /\ UNCHANGED <<founder, secretVars, planVars, ops>>

\* Bug: the sessions are left alone.
DisableMemberOnly(r) ==
  LET c == call[r] IN
  /\ c.at = "disable" /\ Unlocked(c.user, c.ws)
  /\ members' = [members EXCEPT ![c.user][c.ws].active = FALSE]
  /\ Goes(r, "home")
  /\ UNCHANGED <<users, founder, crossed, secretVars, planVars, ops>>

\* disableWorkspaceMember: the transaction, then the default workspace moves.
DisableMember(r) ==
  LET c == call[r] IN
  /\ c.at = "disable" /\ Unlocked(c.user, c.ws)
  /\ members' = [members EXCEPT ![c.user][c.ws].active = FALSE]
  /\ Revoke(SessionsIn(c.user, c.ws))
  /\ Goes(r, "home")
  /\ UNCHANGED <<users, founder, crossed, invites, tokens, planVars, ops>>

FindHome(r) ==
  LET c == call[r] IN
  /\ c.at = "home"
  /\ IF users[c.user].home = c.ws THEN Goes(r, "next") ELSE Ends(r)
  /\ UNCHANGED <<accountVars, secretVars, planVars, ops>>

\* realignUserDefaultWorkspace: the first other active membership, if any.
FindNextHome(r) ==
  LET c == call[r]
      others == {w \in Workspaces \ {c.ws} : members[c.user][w].active}
  IN  /\ c.at = "next"
      /\ \/ others = {} /\ Ends(r)
         \/ \E w \in others :
              call' = [call EXCEPT ![r] =
                [c EXCEPT !.at = "realign", !.home = w, !.role = members[c.user][w].role]]
      /\ UNCHANGED <<accountVars, secretVars, planVars, ops>>

\* Bug: the default workspace moves and the role stays behind.
RealignUserRoleless(r) ==
  LET c == call[r] IN
  /\ c.at = "realign"
  /\ users' = [users EXCEPT ![c.user].home = c.home]
  /\ Ends(r)
  /\ UNCHANGED <<members, founder, crossed, secretVars, planVars, ops>>

RealignUser(r) ==
  LET c == call[r] IN
  /\ c.at = "realign"
  /\ users' = [users EXCEPT ![c.user] = [@ EXCEPT !.home = c.home, !.role = c.role]]
  /\ Ends(r)
  /\ UNCHANGED <<members, founder, crossed, secretVars, planVars, ops>>

\* enableWorkspaceMember: the seat, then the update.
CheckSeat(r) ==
  LET c == call[r] IN
  /\ c.at = "seat"
  /\ IF HasSeat(c.ws) THEN Goes(r, "enable") ELSE Ends(r)
  /\ UNCHANGED <<accountVars, secretVars, planVars, ops>>

EnableMember(r) ==
  LET c == call[r] IN
  /\ c.at = "enable" /\ Unlocked(c.user, c.ws)
  /\ members' = [members EXCEPT ![c.user][c.ws].active = TRUE]
  /\ Ends(r)
  /\ UNCHANGED <<users, founder, crossed, secretVars, planVars, ops>>

\* Bug: the accounts at the providers stay linked.
RedactedStillLinked(u) == [u EXCEPT !.secret = FALSE, !.verified = FALSE, !.redacted = TRUE]

Redacted(u) ==
  [u EXCEPT !.secret = FALSE, !.verified = FALSE, !.linked = FALSE, !.redacted = TRUE]

\* anonymizeWorkspaceMember: the transaction.  The membership of one workspace
\* was disabled, the account of all of them goes.
AnonymizeMember(r) ==
  LET c == call[r] IN
  /\ c.at = "redact"
  /\ users' = [users EXCEPT ![c.user] = Redacted(@)]
  /\ Revoke(SessionsOf(c.user))
  /\ tokens' = [k \in Kind |-> IF k = "signup" THEN tokens[k]
                               ELSE [tokens[k] EXCEPT ![c.user].fresh = {}]]
  /\ invites' = [i \in Invites |->
       IF invites[i].made /\ invites[i].user = c.user /\ invites[i].used = 0
         THEN [invites[i] EXCEPT !.revoked = TRUE] ELSE invites[i]]
  /\ Ends(r)
  /\ UNCHANGED <<members, founder, crossed, planVars, ops>>

-----------------------------------------------------------------------------
SessionStep(r) ==
  \/ FindSession(r) \/ EnsurePrimaryMembership(r) \/ AdmitSession(r)
  \/ FindTarget(r) \/ MoveSession(r) \/ FindSessionAgain(r) \/ Logout(r)
  \/ Recognise(r) \/ PickWorkspace(r) \/ Enter(r)
TokenStep(r) ==
  \/ RequestToken(r) \/ FindTokens(r) \/ IssueToken(r) \/ FindToken(r) \/ RedeemToken(r)
  \/ FindAddressFree(r) \/ FindOwner(r) \/ FoundWorkspace(r)
InviteStep(r) ==
  \/ CheckNoMember(r) \/ CheckNoInvite(r) \/ CreateInvite(r) \/ FindInvite(r)
  \/ RevokeInvite(r) \/ FindInvited(r) \/ AcceptInvite(r)
AdminStep(r) ==
  \/ CheckHire(r) \/ FindHired(r) \/ CreateMember(r)
  \/ Administer(r) \/ LockMember(r) \/ UpdateMember(r)
  \/ DisableMember(r) \/ FindHome(r) \/ FindNextHome(r) \/ RealignUser(r)
  \/ CheckSeat(r) \/ EnableMember(r) \/ AnonymizeMember(r)

IdentityNext ==
  \/ InviteExpires
  \/ \E r \in Requests : SessionStep(r) \/ TokenStep(r) \/ InviteStep(r) \/ AdminStep(r)

IdentitySpec == IdentityInit /\ [][IdentityNext]_identityVars

-----------------------------------------------------------------------------
(* Properties                                                              *)

\* Nobody but the one who made a workspace ever is its owner, and the founder
\* stays owner and active there, through every sequence of lookups, realignments,
\* invites and role changes, overlapping or not, but for one: an administrator's
\* change of role that reads the founder's old home and is written after the
\* default workspace has moved.
OwnersStay ==
  \A w \in Workspaces, u \in Users :
    /\ members[u][w].role = "owner" => founder[w] = u
    /\ founder[w] = u => \/ members[u][w].role = "owner" /\ members[u][w].active
                         \/ u \in crossed

Serial == width = 1 /\ Running = {}

\* The role of a user and of the membership at home are copies of one another,
\* so that a lookup, which writes the first over the second, changes nothing.
\* An invite to the home of an account sets only the second.
HomeRoleAgrees ==
  Serial => \A u \in Users :
    users[u].made =>
      \/ users[u].role = members[u][users[u].home].role
      \/ \E i \in Invites : invites[i].used > 0 /\ invites[i].user = u

\* A live session is one of a member that is active where the session is, was
\* begun after the last reset of the password, and is not an anonymised user's.
SessionsAreEntitled ==
  Serial => \A s \in Sessions :
    LET x == sessions[s] IN
    x.live => /\ members[x.user][x.ws].active
              /\ x.resets = Resets(x.user)
              /\ ~users[x.user].redacted

\* A mailed token, a provider's sign-up token and an invite are used once, or
\* at most as often as requests run at once.
TokensAreUsedUp ==
  /\ \A k \in Kind, u \in Users : tokens[k][u].used <= tokens[k][u].made * width
  /\ \A i \in Invites : invites[i].used <= width

\* Nothing that an anonymised user held opens the account again.
NothingLeftOfRedacted ==
  Serial => \A u \in Users :
    users[u].redacted =>
      /\ ~users[u].linked /\ ~users[u].secret
      /\ tokens["reset"][u].fresh = {} /\ tokens["verify"][u].fresh = {}
      /\ \A w \in Workspaces : OpenInvites(u, w) = {}

\* The active members of a workspace exceed its seats by no more than the
\* requests that took the last seat together and the members that came by an
\* invite, which nobody checks against the seats.
SeatsHold ==
  \A w \in Workspaces :
    Cardinality(Active(w)) <= seats + width - 1
      + Cardinality({u \in Users : \E i \in Invites :
          invites[i].used > 0 /\ invites[i].user = u /\ invites[i].ws = w})
=============================================================================
