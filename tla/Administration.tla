--------------------------- MODULE Administration ---------------------------
(***************************************************************************)
(* What the administrators of one workspace keep: its API keys, policies,  *)
(* connectors and billing profile, and the audit log that some of these    *)
(* requests write.                                                         *)
(*                                                                         *)
(*   create a key:       create -> [event]                                 *)
(*   revoke, rotate:     find -> revoke | rotate -> [event]                *)
(*   profile, coupon:    find -> store -> [event]                          *)
(*   policy, connector:  check the plan -> add                             *)
(*   [event], emitAuditEvent:  stamp -> latest -> append                   *)
(*                                                                         *)
(* A transaction reads and writes in one step where it only writes; the    *)
(* one of emitAuditEvent reads, at the isolation level of the database,    *)
(* what others have written by then.                                       *)
(***************************************************************************)
EXTENDS PolicyEngine, FiniteSets

CONSTANTS
  Requests,        \* slots for handlers that run at the same time
  Keys,            \* the api_keys rows there may be
  Catalog,         \* the policies that may be created
  Intents,         \* intents the policies are asked about
  Profiles,        \* tax profiles
  Coupons,
  ConnectorLimit,  \* limits.activeConnectors of the plan
  DefaultTtl,      \* API_KEY_DEFAULT_TTL_DAYS
  MaxTtl,          \* API_KEY_MAX_TTL_DAYS
  LastTime,        \* bound on the clock
  MaxInFlight,     \* bound on the requests that run at the same time
  MaxOps,          \* bound on the requests
  MaxFaults        \* bound on database errors and crashes

ASSUME AdministrationAssumption ==
  /\ IsFiniteSet(Requests)
  /\ Nothing \notin Keys \cup Profiles \cup Coupons
  /\ ConnectorLimit \in Nat /\ LastTime \in Nat
  /\ DefaultTtl \in Nat \ {0} /\ MaxTtl \in Nat \ {0}
  /\ MaxInFlight \in Nat \ {0} /\ MaxOps \in Nat /\ MaxFaults \in Nat

VARIABLES
  keys,        \* keys[k]: an api_keys row
  policies,    \* the policies rows
  connectors,  \* how many enabled connectors there are
  customer,    \* the billing_customers row
  log,         \* the audit_events rows, in the order of their ids
  clock,
  call,        \* call[r]: what request r is doing and has read
  width,       \* how many requests this behaviour lets run at once
  ops, faults  \* what is left of the bounds

rowVars == <<keys, policies, connectors, customer>>
boundVars == <<width, ops, faults>>
administrationVars == <<rowVars, log, clock, call, boundVars>>

Time == 0..LastTime
Key == [made : BOOLEAN, revoked : BOOLEAN, origin : Keys \cup {Nothing}, expiry : Nat]
Customer == [made : BOOLEAN, tax : Profiles \cup {Nothing}, coupon : Coupons \cup {Nothing}]
Event == [at : Time, prev : Nat]
Step == {"idle", "revoke", "rotate", "profile", "coupon", "clear", "policy",
         "connector", "stamp", "latest", "append"}
Call == [at : Step, key : Keys \cup {Nothing}, tax : Profiles \cup {Nothing},
         coupon : Coupons \cup {Nothing}, stamp : Time, prev : Nat]

AdministrationTypeOK ==
  /\ keys \in [Keys -> Key]
  /\ policies \subseteq Catalog
  /\ connectors \in Nat
  /\ customer \in Customer
  /\ log \in Seq(Event)
  /\ clock \in Time
  /\ call \in [Requests -> Call]
  /\ width \in 1..MaxInFlight
  /\ ops \in 0..MaxOps
  /\ faults \in 0..MaxFaults

NoKey == [made |-> FALSE, revoked |-> FALSE, origin |-> Nothing, expiry |-> 0]
Has(at, key, tax, coupon) ==
  [at |-> at, key |-> key, tax |-> tax, coupon |-> coupon, stamp |-> 0, prev |-> 0]
Idle == Has("idle", Nothing, Nothing, Nothing)

AdministrationInit ==
  /\ keys = [k \in Keys |-> NoKey]
  /\ policies = {}
  /\ connectors = 0
  /\ customer = [made |-> FALSE, tax |-> Nothing, coupon |-> Nothing]
  /\ log = <<>>
  /\ clock = 0
  /\ call = [r \in Requests |-> Idle]
  /\ width \in 1..MaxInFlight
  /\ ops = MaxOps
  /\ faults = MaxFaults

Running == {r \in Requests : call[r].at # "idle"}
Becomes(r, c) == call' = [call EXCEPT ![r] = c]
Starts(r, c) ==
  /\ call[r].at = "idle" /\ Cardinality(Running) < width /\ ops > 0
  /\ Becomes(r, c)
  /\ ops' = ops - 1
  /\ UNCHANGED <<width, faults>>
Goes(r, to) == call' = [call EXCEPT ![r].at = to] /\ UNCHANGED boundVars
Ends(r) == Becomes(r, Idle) /\ UNCHANGED boundVars
\* What has been done is told to the audit log, which is awaited.
Audits(r) == Goes(r, "stamp")

Tick ==
  /\ clock < LastTime /\ clock' = clock + 1
  /\ UNCHANGED <<rowVars, log, call, boundVars>>

-----------------------------------------------------------------------------
(* API keys                                                                *)

\* resolveApiKeyExpiry: the caller's, in the future and not too far, or the
\* default one.
FreshExpiries == {clock + ttl : ttl \in 1..MaxTtl \cup {DefaultTtl}}

\* createWorkspaceApiKey
CreateKey(r) ==
  \E k \in Keys, expiry \in FreshExpiries :
    /\ ~keys[k].made
    /\ keys' = [keys EXCEPT ![k] = [made |-> TRUE, revoked |-> FALSE, origin |-> Nothing,
                                    expiry |-> expiry]]
    /\ Starts(r, Has("stamp", Nothing, Nothing, Nothing))
    /\ UNCHANGED <<policies, connectors, customer, log, clock>>

\* revokeWorkspaceApiKey, rotateWorkspaceApiKey: only a key that is not yet
\* revoked is revoked, and only such a one is rotated.
FindKey(r) ==
  \E k \in Keys, at \in {"revoke", "rotate"} :
    /\ keys[k].made /\ ~keys[k].revoked
    /\ Starts(r, Has(at, k, Nothing, Nothing))
    /\ UNCHANGED <<rowVars, log, clock>>

RevokeKey(r) ==
  LET c == call[r] IN
  /\ c.at = "revoke"
  /\ keys' = [keys EXCEPT ![c.key].revoked = TRUE]
  /\ Audits(r)
  /\ UNCHANGED <<policies, connectors, customer, log, clock>>

\* resolveRotatedApiKeyExpiry: the old expiry while it lasts.
RotatedExpiry(expiry) == IF expiry > clock THEN expiry ELSE clock + DefaultTtl

\* Bug: the old key stays in use.
RotateKeyKeepsOld(r) ==
  LET c == call[r] IN
  /\ c.at = "rotate"
  /\ \E k \in Keys :
       /\ ~keys[k].made
       /\ keys' = [keys EXCEPT ![k] = [made |-> TRUE, revoked |-> FALSE, origin |-> c.key,
                                       expiry |-> RotatedExpiry(keys[c.key].expiry)]]
  /\ Audits(r)
  /\ UNCHANGED <<policies, connectors, customer, log, clock>>

\* The transaction, which does not ask again whether the key is revoked.
RotateKey(r) ==
  LET c == call[r] IN
  /\ c.at = "rotate"
  /\ \E k \in Keys :
       /\ ~keys[k].made
       /\ keys' = [keys EXCEPT ![c.key].revoked = TRUE,
                               ![k] = [made |-> TRUE, revoked |-> FALSE, origin |-> c.key,
                                       expiry |-> RotatedExpiry(keys[c.key].expiry)]]
  /\ Audits(r)
  /\ UNCHANGED <<policies, connectors, customer, log, clock>>

\* authenticateApiKey
Admits(k) == keys[k].made /\ ~keys[k].revoked /\ ~(keys[k].expiry < clock)

-----------------------------------------------------------------------------
(* The billing profile, kept with the coupon in one JSON column            *)

\* updateWorkspaceBillingCustomer, applyWorkspaceCoupon: what is not being set
\* is carried over from what the row holds now.
FindCustomer(r) ==
  /\ \/ \E p \in Profiles :
          Starts(r, Has("profile", Nothing, p, customer.coupon))
     \/ \E coupon \in Coupons :
          Starts(r, Has("coupon", Nothing, customer.tax, coupon))
  /\ UNCHANGED <<rowVars, log, clock>>

\* clearWorkspaceCoupon: without a row there is nothing to clear.
FindCoupon(r) ==
  /\ Starts(r, Has(IF customer.made THEN "clear" ELSE "stamp", Nothing, customer.tax, Nothing))
  /\ UNCHANGED <<rowVars, log, clock>>

StoreCustomer(r) ==
  LET c == call[r] IN
  /\ c.at \in {"profile", "coupon", "clear"}
  /\ customer' = [made |-> TRUE, tax |-> c.tax, coupon |-> c.coupon]
  /\ Audits(r)
  /\ UNCHANGED <<keys, policies, connectors, log, clock>>

-----------------------------------------------------------------------------
(* Policies and connectors                                                 *)

\* createPolicy, once the plan has the type of the policy.
CheckPolicy(r) ==
  /\ Starts(r, Has("policy", Nothing, Nothing, Nothing))
  /\ UNCHANGED <<rowVars, log, clock>>

CreatePolicy(r) ==
  /\ call[r].at = "policy"
  /\ \E p \in Catalog : policies' = policies \cup {p}
  /\ Ends(r)
  /\ UNCHANGED <<keys, connectors, customer, log, clock>>

\* Bug: one more than the plan has.
HasConnectorOrOneMore == connectors <= ConnectorLimit

\* assertCanCreateConnector for an enabled one.
HasConnector == connectors < ConnectorLimit

CheckConnector(r) ==
  /\ HasConnector
  /\ Starts(r, Has("connector", Nothing, Nothing, Nothing))
  /\ UNCHANGED <<rowVars, log, clock>>

CreateConnector(r) ==
  /\ call[r].at = "connector"
  /\ connectors' = connectors + 1
  /\ Ends(r)
  /\ UNCHANGED <<keys, policies, customer, log, clock>>

-----------------------------------------------------------------------------
(* emitAuditEvent                                                          *)

StampEvent(r) ==
  /\ call[r].at = "stamp"
  /\ call' = [call EXCEPT ![r].at = "latest", ![r].stamp = clock]
  /\ UNCHANGED <<rowVars, log, clock, boundVars>>

\* Bug: of the events of one millisecond the first is taken.
LatestByTime ==
  IF log = <<>> THEN 0
  ELSE CHOOSE e \in DOMAIN log :
         \A d \in DOMAIN log \ {e} :
           log[d].at < log[e].at \/ (log[d].at = log[e].at /\ e < d)

\* The last by creation time, then by id; 0 when there is none.
Latest ==
  IF log = <<>> THEN 0
  ELSE CHOOSE e \in DOMAIN log :
         \A d \in DOMAIN log \ {e} :
           log[d].at < log[e].at \/ (log[d].at = log[e].at /\ d < e)

FindLatest(r) ==
  /\ call[r].at = "latest"
  /\ call' = [call EXCEPT ![r].at = "append", ![r].prev = Latest]
  /\ UNCHANGED <<rowVars, log, clock, boundVars>>

\* The hash of the previous event is that of its row.
AppendEvent(r) ==
  LET c == call[r] IN
  /\ c.at = "append"
  /\ log' = Append(log, [at |-> c.stamp, prev |-> c.prev])
  /\ Ends(r)
  /\ UNCHANGED <<rowVars, clock>>

\* Whatever throws ends the request, or is swallowed by emitAuditEvent, at
\* the end of the request: what is written stays.
RequestFails(r) ==
  /\ r \in Running /\ faults > 0
  /\ faults' = faults - 1
  /\ Becomes(r, Idle)
  /\ UNCHANGED <<rowVars, log, clock, width, ops>>

-----------------------------------------------------------------------------
KeyStep(r) == CreateKey(r) \/ FindKey(r) \/ RevokeKey(r) \/ RotateKey(r)
CustomerStep(r) == FindCustomer(r) \/ FindCoupon(r) \/ StoreCustomer(r)
PlanStep(r) ==
  CheckPolicy(r) \/ CreatePolicy(r) \/ CheckConnector(r) \/ CreateConnector(r)
AuditStep(r) == StampEvent(r) \/ FindLatest(r) \/ AppendEvent(r)

AdministrationNext ==
  \/ Tick
  \/ \E r \in Requests :
       KeyStep(r) \/ CustomerStep(r) \/ PlanStep(r) \/ AuditStep(r) \/ RequestFails(r)

AdministrationSpec == AdministrationInit /\ [][AdministrationNext]_administrationVars

-----------------------------------------------------------------------------
(* Properties                                                              *)

Heirs(k) == {h \in Keys : keys[h].origin = k}

\* A key that has been rotated never admits anyone again, and is replaced by
\* one key, or by as many as there were requests at once.
RotationReplaces ==
  \A k \in Keys : Heirs(k) # {} => ~Admits(k) /\ Cardinality(Heirs(k)) <= width

\* The log is one chain when requests come one at a time.  Otherwise an event
\* may have several successors, but no more than the requests that read it as
\* the latest together, and those that were stamped before it and have been
\* appended after it.
AuditForksAreBounded ==
  \A e \in 0..Len(log) :
    Cardinality({d \in DOMAIN log : log[d].prev = e}) <= 2 * width - 1

\* Policies come and stay, and one more of them never makes things easier for
\* an intent, in whatever order their priorities put them.
PoliciesOnlyTighten ==
  [][\A i \in Intents :
       Severity(EvaluatePolicies(policies, i, Nothing))
         <= Severity(EvaluatePolicies(policies', i, Nothing))]_policies

\* The enabled connectors exceed those of the plan by no more than the
\* requests that took the last one together.
ConnectorsHold == connectors <= ConnectorLimit + width - 1
=============================================================================
