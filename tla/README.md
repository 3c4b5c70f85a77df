# A formal model of VowGrid

VowGrid is a control plane for actions that AI agents want to take. An agent
creates an *intent*; the API simulates it, has it approved by people, queues it,
and a worker performs it through a *connector*; a second worker can undo it.
Around that core the API keeps accounts and workspaces, a plan with limits and a
paid subscription, keys, policies and an audit log; a web dashboard is its main
client. This directory holds TLA+ modules for all of these, TLC configurations
that check them on small instances, and proofs that TLAPS checks for every
instance.

All paths below are relative to the repository root; the API's sources are under
`apps/api/src`, the dashboard's under `apps/web/src`.

## 1. Inventory

### Parts of the system

| part | code | state it keeps | operations |
| --- | --- | --- | --- |
| state chart | `modules/intents/state-machine.ts` | none | the 13 states, the edges, 4 functions |
| intent store | `modules/intents/service.ts` | the `intents` row | create, propose, `transitionIntent` |
| simulation | `modules/simulations/service.ts` | `simulation_results` (unique per intent) | simulate |
| approvals | `modules/approvals` | `approval_requests` (unique per intent), `approval_decisions`, `policy_decisions` | submit, approve, reject |
| execution | `modules/executions/service.ts`, `jobs/execution.worker.ts`, `lib/queue.ts` | `execution_jobs` (unique per intent), the BullMQ queue `execution`, `receipts` | execute; the worker's run |
| rollback | the same service, `jobs/rollback.worker.ts` | `rollback_attempts` (many per intent), the BullMQ queue `rollback` | rollback; the worker's run |
| connectors | `modules/connectors` | `connectors`; the remote systems | validate, simulate, execute, rollback at third parties; create |
| policy engine | `modules/policies` | `policies` | evaluate (pure), create, list |
| audit chain | `modules/audits`, `lib/audit-integrity.ts` | `audit_events`, each with the previous one's hash | emit, verify |
| usage and entitlements | `modules/billing/usage.ts`, `entitlements.ts` | `usage_counters`, `trial_states` | limit checks, increments, trial |
| invoices | `modules/billing/invoices.ts` | `billing_invoices` and their line items | overage, proration |
| subscriptions | `modules/billing/service.ts`, `mercado-pago.ts`, `customer.ts` | `workspace_subscriptions`, `billing_events`, `billing_customers` | checkout, cancel, webhook, billing profile, coupon |
| identity | `modules/auth` | `users`, `user_sessions`, `workspace_memberships`, mailed tokens | sign-up, log-in, provider sign-in, session lookup, reset, verify, accept invite, switch workspace |
| administration | `modules/workspace-admin` | memberships, invites, `api_keys` | add, update, disable, anonymise, invite, revoke, rotate |
| dashboard | `apps/web` | the browser's cookies, the tabs and their forms | pages, server actions, OAuth routes, `proxy.ts` |
| server, metrics, health | `server.ts`, `lib`, `modules/health`, `modules/observability` | none that matters here | |
| SDK, contracts, UI | `packages` | none | clients of the API |

### How they interact

Every API request and every job is an `async` function that runs to its next
`await` and then lets others run; several API and worker processes share one
PostgreSQL database and one Redis. Handlers call each other as plain functions
and share nothing but database rows and queue messages. Few handlers open a
transaction, so two handlers interleave between any two database statements.

The row that the handlers of an intent share is the intent's: each reads it,
decides, writes rows of its own, and then calls `transitionIntent`, which reads
the row again, checks the edge, and updates the status by id. The policy engine
is called by `submitForApproval` only. Billing is asked before an intent is
created, submitted with several approvals, or queued, and told afterwards;
before a member, a policy or a connector is added, it is asked whether the plan
allows it. `emitAuditEvent` is called after almost every write and catches
its own errors, so nothing depends on it. The payment provider changes its
subscriptions on its own and tells so by webhooks, of which only the id is
believed: the handler fetches the rest.

The dashboard keeps no database. It holds the API's session token in a cookie,
passes it on, and deletes or replaces the cookie by what the API answers.

### What is hard

- *Interleaving.* The status that a handler checked need not be the status it
  overwrites. The approval row is recomputed from a snapshot and overwritten.
  Limits, single-use tokens, invites and keys are checked, and then used.
- *Retries and redelivery.* BullMQ delivers a job up to three times after errors,
  and again when a worker process is lost; the side effect lies in the middle.
  The payment provider delivers a webhook until it is answered.
- *Partial failure.* Handlers write three to five rows one by one; an error or a
  crash leaves the ones written so far. The workers' catch blocks cover some of
  their statements and not others.
- *Queues and rows together.* The job row, the intent's status and the Redis
  message are written one after the other in two systems.
- *Copies.* The role of a user is kept in the user and in the membership at home,
  and each session lookup writes one over the other.
- *Cookies.* A browser applies the cookies of an answer when the answer comes, in
  any order, and all its tabs share them.

`PROJECT.json` lists each of these at its line, with the properties that cover it.

### What makes each part correct

- *approvals*: nothing is approved without the approvals each stage asks for,
  stages are opened in order, a rejection is final.
- *execution*: the side effect happens at most once, only after approval, and
  status, job row and remote system agree; an accepted request is carried out.
- *rollback*: rolled back means that the remote system was restored, failed that
  it was not; the simulation promised no more; an accepted rollback ends.
- *policies*: one more policy never makes anything easier.
- *usage*: a limit is exceeded by no more than the requests that overlap, every
  intent is counted once, the marks follow the count, an idempotency key stands
  for one intent. *Invoices*: one open invoice a period, its quantity the overage.
- *subscriptions*: each webhook takes effect once, the last state of the provider
  wins, a trial is used once.
- *identity and administration*: a workspace keeps its one owner; a session is
  one of an active member; a token is used once; nothing is left of an anonymised
  user's access; a rotated key is dead; seats and connectors stay near the plan.
- *audit*: the events of a workspace form one chain, as far as requests do not
  overlap.
- *dashboard*: a session that was left does not come back; forms are accepted;
  a provider's sign-in is lost only for a reason; redirects end.

## 2. The modules

| module | what it models |
| --- | --- |
| `IntentStates` | the state chart |
| `IntentStore` | the intent's status and `transitionIntent`, as conjuncts for callers' actions; the fault counter |
| `Intake` | `proposeIntent`, `simulateIntent` |
| `Approvals` | `submitForApproval`, `processApprovalDecision` |
| `Execution` | `queueExecution`, the queue, `processExecution` |
| `Rollback` | `requestRollback`, the queue, `processRollback` |
| `Governance` | the four together over one intents row; the inductive invariant `Evidence`; the refinement mapping |
| `GovernedAction` | the abstract promise: nothing is run before it is approved, or twice, or undone before it has run; and what may be shown when |
| `Connectors` | the GitHub, HTTP and mock connectors: what each validates, promises, does, records and undoes; the encrypted configuration; the remote system |
| `ConnectedExecution`, `ConnectedRollback` | `Execution` and `Rollback`, each composed with `Connectors` |
| `PolicyEngine` | `evaluatePolicy`, `evaluatePolicies` as operators |
| `Metering` | `createIntent`: idempotency key, limit check, monthly counter and marks, overage invoice |
| `Subscriptions` | checkout, cancellation, the trial and webhooks, against the payment provider |
| `Identity` | accounts, memberships, sessions, invites and mailed tokens: `modules/auth` and the member operations of `modules/workspace-admin` |
| `Administration` | API keys, policies, connectors, the billing profile with its coupon, and the audit log that these requests write |
| `Dashboard` | one browser with its tabs and cookies against the dashboard's pages, actions and routes |
| `MC...` | small constants for TLC |
| `GovernanceProofs` | type correctness, `Evidence` and the safety properties of the core, the refinement of `GovernedAction`, and `Approvals` by itself |
| `ConnectedExecutionProofs`, `ConnectedRollbackProofs`, `MeteringProofs`, `SubscriptionsProofs`, `IdentityProofs`, `AdministrationProofs`, `DashboardProofs` | the inductive invariants of each, and its theorems |

### How a handler becomes actions

A handler or worker has a program counter per request. The modules of the core
have one variable per handler (`submitPc[s]`, `reviewPc[r]`, `queuePc[q]`,
`workerPc`, `askPc[r]`, `undoPc[r]`). `Subscriptions`, `Identity` and
`Administration` have slots, each of which runs one handler at a time: `call[r].at`
is the step that comes next and the other fields of `call[r]` are what the handler
keeps in local variables across an `await`. Each action is the code up to and
including one database statement, transaction, queue call or call of another
system; a read and the checks after it are the first half of an action, the
write of the next one. `transitionIntent` takes two actions, *Transition* (read and
check) and *Update* (write), and any other action may come between them.

A request that is refused at its first check does not start: it changes nothing.
In the core, `"refused"` is a handler that threw an application error, `"dead"`
one that a fault ended, `"done"` one that answered.

Faults are explicit: `...Dies` and `RequestFails` end a request after what it has
written, `WorkerFault` and `UndoFault` are an error of one statement of a worker
(caught or not, as the code has it), `WorkerCrash` and `UndoCrash` a lost
process, after which BullMQ hands the message out again. A call whose effect
happened although the caller saw an error is covered for requests by the fault one step later,
for the rollback queue by `RollbackAddFails`, where the code reacts to it, and for
connectors by `AnswerLost`.

Most modules choose `width` in the initial state: how many requests of this
behaviour may run at once. A property can then say in one run what holds under
every race and what holds for requests that come one at a time (`width = 1`).

### The composition of workers and connectors

`Execution` and `Rollback` let a connector answer, throw or be missing freely, and
the proofs about `Governance` hold whatever it does. `ConnectedExecution` and
`ConnectedRollback` replace that choice by the code of the connectors: `ask` is
what the intent wants of which connector with which configuration, `remote` what
the remote system did, `result` what the execution put on record. They connect
four functions that were written apart: what `simulate` promised (`Reversibility`),
what `execute` does and returns (`DoesIt`, `Result`), what `getExecutionContext`
hands on (`ExecutionContext`), and what `rollback` makes of it (`Undoes`).
`ConnectedRollback` starts where `ConnectedExecution` ends.

### The browser

In `Dashboard` a request carries the cookies of the moment it is sent, is served
on those, and its changes are applied to the jar when the answer comes, whatever
other answers came first; a redirect is followed with the cookies of that moment.
Two rules of Next.js are part of it: cookies cannot be changed while a page
renders (the attempt throws, and the error page is shown), and after an action
that changed cookies the page is rendered again. Login, forgot-password and
signup are one page to the user (`login`) but not to the server: only the signup page looks at
the cookie of an unfinished provider sign-up, and then shows `finish`. `flows` is the history of each
provider sign-in, `left` the sessions the user was told to have left.

### What is abstracted

- One intent in the core, one subscription in `Subscriptions`, one workspace in
  `Administration`, one browser in `Dashboard`. Handlers of different ones share
  no row of the tables modelled.
- Verdicts and policy results are chosen freely in `Approvals`, since they come
  from people and from data an operator may edit between two calls.
- In the core the plan may refuse a submission or an execution at any time, so the
  properties hold whatever billing decides.
- Audit events are modelled at the end of the requests of `Administration`; the
  others emit theirs in the same way and are left without. Metrics, logs and
  error reports are left out: nothing reads them back.
- An audit hash stands for the row it was taken of; hashing and its text are left out.
- Reviewer roles are the constant `Eligible`: which users may review a stage.
- In `Metering`, the plan is fixed for a behaviour: either it bills overage or it
  blocks at the limit. Executed actions are metered by the same functions, so one
  metric stands for both. Prices, coupons and tax are functions of the billed
  units; a total is the units it was computed from. The insert of an invoice and
  the upsert of its item are one transaction: `FindInvoice` reads, `UpsertOverage`
  commits, and nobody else sees the row before.
- In `Subscriptions`, a webhook comes again with the same event key, and the amounts
  and references of a checkout are left out; `ReadOnly` is `readOnlyMode`.
- In `Identity`, an account stands for its mail address, and each user has one
  account at a provider. Where the code takes the oldest of several memberships, the model takes any.
  `users.disabledAt` is set nowhere and has no place in the model.
- In `Administration`, ids grow with time: of two audit events of one millisecond the
  later insert has the larger id.
- In `Connectors`, an answer of GitHub may come with a body that cannot be read, of
  which the connector makes an empty one; `lost` counts it with the answers that do
  not come. A request that the remote system refuses has no effect there, and the
  encryption key is either replaced before an intent is executed or not at all.
- BullMQ is trusted for what its users rely on: one worker at a time per message,
  `attempts` deliveries after errors, a bounded number of recoveries of a stalled
  message, which it then fails. A worker that lost its lock but still runs (a
  *zombie*) is outside the model.
- A single SQL statement is atomic and unique keys are enforced. Transactions run at
  PostgreSQL's default isolation, READ COMMITTED. A transaction is the step at which
  it commits, since nobody sees its writes before. If something it has read decides
  what it writes, and no unique key or comparison in the write guards that, the read
  is a step of its own, which any other action may separate from the commit: the latest event
  (`emitAuditEvent`), the user and the home (`createWorkspaceMember`, `updateWorkspaceMember`), the
  account at the address (a provider's sign-up), and the earlier tokens (the issuance of a
  mailed token). A row that the transaction has updated stays locked until then
  (`Unlocked`). A transaction that is rolled back is a request that ends before it commits.
- Backoff delays: a waiting message may be delivered at any time.

## 3. The runs

| run | module | what it shows |
| --- | --- | --- |
| `approvals` | `MCApprovals` | `ApprovalNeedsEveryStage` and `WaitingIntentHasRequest` with up to two requests overlapping and one fault; `RejectionIsFinal` for requests one at a time |
| `execution` | `MCConnectedExecution` | `ExecutedAtMostOnce`, `SuccessIsReal`, `FinishedJobAgrees`, `SucceededCanBeUndone`, `FailedLeftNothing`, and the liveness `AcceptedExecutionSettles` |
| `rollback` | `MCConnectedRollback` | `RolledBackIsRestored`, `FailedRollbackLeftIt`, `ReversibilityIsHonest`, `NotUndoneAgain`, `RollbackOutcomeIsTold`, and the liveness `AcceptedRollbackSettles` |
| `metering` | `MCMetering` | `LimitHolds`, `OneIntentPerKey`, `IntentsAreCounted`, `MarksFollowCount`, `OverageIsInvoiced` |
| `governance` | `MCGovernance` | the invariant `Evidence` and the refinement `KeepsPromise` of the whole core |
| `identity` | `MCIdentity` | `OwnersStay`, `HomeRoleAgrees`, `SessionsAreEntitled`, `TokensAreUsedUp`, `NothingLeftOfRedacted`, `SeatsHold` |
| `subscriptions` | `Subscriptions` | `NoticesApplyOnce`, `TrialEndsOnce`, and the liveness `EventuallyInSync` |
| `administration` | `MCAdministration` | `RotationReplaces`, `AuditForksAreBounded`, `ConnectorsHold`, `PoliciesOnlyTighten` |
| `dashboard` | `Dashboard` | `SignedOutStaysOut`, `TurnedAwayForCause`, `FormsFit`, `OneIdentity`, and the liveness `VisitsSettle` |
| `execution_retry` | `Execution` | violated: `RetriesReachConnector` |
| `governance_rejected` | `MCGovernance` | violated: `RejectedNeverRuns` |
| `subscriptions_redelivery` | `Subscriptions` | violated: `AnsweredIsSynced` |

Each property of a passing run has a mutation of the model (the operators marked
*Bug* in the modules), a bug the code could plausibly have, which makes that property fail.
`StagesInOrder`, `RolledBackIsReal` and the type invariants are in no run of
their own, because they are proved. So are all the properties of the passing runs but
five (section 5): there the run shows that the cases happen and that the property
can fail, the theorem that no larger instance breaks it.

### What interleaving costs

The properties say which promises hold under every race and which only for requests
one at a time. The second kind is:

- *approvals*: with two in flight a rejection can be overwritten, and two decisions of
  one user both count.
- *metering*: `LimitHolds` bounds the excess by `width - 1`. With two requests in flight
  the code can open two invoices for a month, bill the overage on both, or
  overwrite a quantity or a total with an older one; a request whose month turns
  between the increment and the invoice bills last month's overage to the new
  month. A crash between the insert and the increment leaves an intent uncounted:
  `IntentsAreCounted` allows one for each fault and none otherwise, and holds under every race.
- *rollback*: requests that overlap can each queue a job; the side effect is undone
  twice, or a `rollback_failed` is written over what the other did. Four of the five
  invariants therefore ask for `OneAtATime` (`MaxRequestsInFlight = 1`, as in the run), or ask for it in part;
  `RolledBackIsRestored` holds under every race.
- *identity*: a login or an invite that was checked before a member was disabled
  leaves a session that its next lookup ends; a lookup that read the old role writes it back over
  a new one; a mailed token is used as often as confirmations overlap, and issuances that
  overlap leave two fresh ones. `OwnersStay` holds under every race but one:
  `updateWorkspaceMember` reads where the user is at home (`workspace-admin/service.ts:476`)
  and writes the user's role by that (482); if a sign-up through a provider for that
  address commits in between (`auth/service.ts:925-933`), the user is owner of a new
  workspace with a role meant for the old one, and the next lookup
  (`ensurePrimaryMembership`, `auth/service.ts:190-209`) copies it into the founder's
  membership. No operation makes them owner there again. `createWorkspaceMember` (400-407) has the same shape. The history variable
  `crossed` holds the users to whom it happened; for them `OwnersStay` promises only that
  nobody else is owner.
- *subscriptions*: of two webhooks handled at once the older snapshot may be
  stored last, and of two overlapping updates of a trial the later write wins. `NoticesApplyOnce` holds under every race and fault.
- *administration*: a key that two requests rotate has two successors; an audit event may
  have up to `2 * width - 1` successors: those of the requests that read it
  together, and those of requests that were stamped before it. The bound assumes that all API
  processes read one clock. Overlapping changes of the billing profile and the coupon lose one;
  no property speaks of that.
- *dashboard*: two first visits that overlap leave one page with a form token that
  the cookie has not. `SignedOutStaysOut`, `TurnedAwayForCause` and `OneIdentity` hold under every race.

A property of the second kind does not catch a hazard that needs an overlap: those are
`RejectionIsFinal` (the overlap is the finding `governance_rejected`), `OverageIsInvoiced`, `FailedRollbackLeftIt`,
`NotUndoneAgain`, `HomeRoleAgrees`, `SessionsAreEntitled`, `NothingLeftOfRedacted`, `TrialEndsOnce`,
`EventuallyInSync` and `FormsFit`. In the same way `FinishedJobAgrees` and
`FailedLeftNothing` speak of executions without a fault, and `PROJECT.json` says at each hazard
what its properties leave out.

### The three disagreements

- `execution_retry`: the worker rethrows "so BullMQ handles retries", but it has
  moved the intent to `failed`, from where `executing` is not an edge. Each retry
  throws at its first transition; the connector is called once, and the job row
  ends as `processing`.
- `governance_rejected`: "any rejection rejects the entire request", and
  `rejected` is terminal. A review that read the request before the rejection and
  approves after it turns both rows back, and the intent can be executed.
- `subscriptions_redelivery`: webhooks are to be processed "idempotently". The event row
  that tells duplicates is written first; a webhook that fails after it is answered
  with an error, comes again, and is answered as a duplicate without the
  subscription having changed.

### Bounds, and why they suffice

- `approvals`: two submissions and four reviews of three users, two stages, the first
  asking for two approvals: enough for a stale writer and a fresh one, for a stage advance that is undone, and for a
  user who reviews twice. One request may die.
- `execution`: three requests: one that wins the unique key, one that loses it, one
  that reads a row in between. `MaxAttempts = 3` is the code's. One stalled
  recovery, two faults, one answer that is lost or cannot be read: a crash at any step, and an error at any step of the run after it.
  `MCAsks` has an intent for each way a connector does one or turns it down.
- `rollback`: two requests in sequence, three attempts (the queue's default), one
  recovery, one fault, one lost answer.
- `metering`: five creations against a limit of two: the plan is used up, and exceeded twice, so
  that the second overage must find the invoice of the first and overwrite its item.
  Two of them carry one key; two run at a time; a month may turn once; one fault. The warning
  threshold is one, below the limit, so a single increment reaches one mark or both.
- `governance` has one request of each kind but two reviews, one retry of the
  execution, and one fault anywhere.
- `identity`: a founder and another user, two workspaces, two sessions, one invite; two
  requests at a time and four in all (three if they overlap), from initial states in which either or both
  workspaces and users are there: every hazard listed needs two workspaces at most
  and three requests. A user has two mailed tokens of a kind at most, and may
  start with one that a provider's sign-in has left. `MCSpec` leaves out initial states that
  differ only in the name of the first workspace, or by a sign-up token that no workspace is left for. With two users the bound of `SeatsHold` is not
  reached by overlapping requests; the theorem covers what the run is too small for.
- `subscriptions`: two preapprovals (a checkout that replaces another), two webhooks,
  one repeated delivery, one failure.
- `administration`: three keys (one, its heir, and the heir's heir or a second heir), a
  plan with one connector, two clock readings, so that events share a
  millisecond or not. `MCCatalog` has a policy of each kind of verdict, one disabled,
  and one whose list lies behind a threshold.
- `dashboard`: two tabs, two sessions, two provider sign-ins, five things the user
  does (four if requests overlap).
- Requests, keys, sessions and invites that are alike are symmetric; the runs with liveness use no symmetry.

Deadlock is not checked: an intent whose requests have all ended, or a user who
stops, is meant to rest.

### Fairness

- `ExecutionFairness`, `ConnectedSpec` and `RollbackFairSpec` assume weak fairness of the steps of a
  request that was accepted (Node runs a continuation whose promise has settled)
  and of the worker's steps including delivery (BullMQ delivers while a worker
  runs). Nothing is assumed of clients, so a request need never be made, nor of
  faults; connectors answer or throw freely.
  `AcceptedExecutionSettles` and `AcceptedRollbackSettles` except the behaviours in
  which a fault happened or the connector was missing or its configuration could not be decrypted, because the code
  does leave the intent in `queued`, `executing` or `rollback_pending` then.
- `SubscriptionsSpec` assumes that a running request goes on and that the provider delivers a
  webhook that has not been answered with success, which is what the handler's check
  for duplicates is there for. Users and the provider need change nothing.
- `DashboardSpec` assumes that, as long as requests are under way, some answer is made or
  taken. Not every request is promised an answer, and users need do nothing; so
  `VisitsSettle` is about redirects only.

## 4. What is proved

Of the 40 properties that the passing runs check, 35 are theorems: for every number
of requests, users, stages, attempts, recoveries, connectors' answers, keys,
webhooks, tabs and faults. The assumptions are those the component modules name:
types and distinctness of the constants, at least one approval a stage, at least one
attempt, and finitely many requests, users and tabs, because the proofs count them.
For the connectors, `ConnectorsAssumption` says that the intents come from `Ask` and
`ResultAssumption` that a recorded result is not `Nothing`.

| theorem | statement |
| --- | --- |
| *the core* (`GovernanceProofs`) | |
| `TypeCorrect` | `Spec => []TypeOK` |
| `EvidenceHolds` | `Spec => []Evidence` |
| `ApprovalIsEarned` | `Spec => [](ApprovalNeedsEveryStage /\ StagesInOrder)` |
| `ExecutesOnce` | `Spec => []ExecutedAtMostOnce` |
| `StatusIsHonest` | `Spec => [](SuccessIsReal /\ RolledBackIsReal)` |
| `SystemKeepsPromise` | `Spec => KeepsPromise` |
| `ReviewEvidenceHolds` | `ApprovalsSpec => []ReviewEvidence` |
| `RejectionsAreFinal` | `ApprovalsSpec => []RejectionIsFinal` |
| `RequestComesFirst`, `WaitingIsForRequest` | `ApprovalsSpec => []WaitingIntentHasRequest`, and of `Spec` |
| *execution* (`ConnectedExecutionProofs`) | |
| `ConnectedExecutionInvariant` | `ConnectedSpec => []IInv` |
| `OneRealExecution` | `ConnectedSpec => [](ExecutedAtMostOnce /\ SuccessIsReal)` |
| `FinishedJobsAgree` | `ConnectedSpec => []FinishedJobAgrees` |
| `SuccessIsUndoable` | `ConnectedSpec => []SucceededCanBeUndone`, which excepts an answer of GitHub that could not be read |
| `FailureLeavesNothing` | `ConnectedSpec => []FailedLeftNothing` |
| *rollback* (`ConnectedRollbackProofs`) | |
| `ConnectedRollbackInvariant` | `ConnectedSpec => []IInv` |
| `RolledBackOnlyIfRestored` | `ConnectedSpec => []RolledBackIsRestored` |
| `SimulatedReversibilityHolds` | `ConnectedSpec => []ReversibilityIsHonest` |
| `FailedRollbackLeavesIt` | `ConnectedSpec => []FailedRollbackLeftIt` |
| `UndoneAtMostOnce` | `ConnectedSpec => []NotUndoneAgain` |
| `OutcomeIsTold` | `ConnectedSpec => []RollbackOutcomeIsTold` |
| *usage and invoices* (`MeteringProofs`) | |
| `MeteringTypeCorrect` | `MeteringSpec => []MeteringTypeOK` |
| `LimitIsKept` | `MeteringSpec => []LimitHolds` |
| `MarksAreRight` | `MeteringSpec => []MarksFollowCount` |
| `KeysAreUnique` | `MeteringSpec => []OneIntentPerKey` |
| `CountsAreRight` | `MeteringSpec => []IntentsAreCounted` |
| `OverageIsRight` | `MeteringSpec => []OverageIsInvoiced` |
| *identity* (`IdentityProofs`) | |
| `IdentityTypeCorrect` | `IdentitySpec => []IdentityTypeOK` |
| `OwnersAreKept` | `IdentitySpec => []OwnersStay`, which excepts the founders in `crossed` |
| `TokensAreUsedAtMostOnce` | `IdentitySpec => []TokensAreUsedUp` |
| `SeatsAreKept` | `IdentitySpec => []SeatsHold` |
| `HomeRolesAgree` | `IdentitySpec => []HomeRoleAgrees` |
| `LiveSessionsAreEntitled` | `IdentitySpec => []SessionsAreEntitled` |
| `RedactedKeepsNothing` | `IdentitySpec => []NothingLeftOfRedacted` |
| *subscriptions* (`SubscriptionsProofs`) | |
| `SubscriptionsTypeCorrect` | `SubscriptionsSpec => []SubscriptionsTypeOK` |
| `NoticesAreAppliedOnce` | `SubscriptionsSpec => []NoticesApplyOnce` |
| `TrialsEndOnce` | `SubscriptionsSpec => TrialEndsOnce`, an action property |
| *administration* (`AdministrationProofs`) | |
| `AdministrationTypeCorrect` | `AdministrationSpec => []AdministrationTypeOK` |
| `RotatedKeysAreReplaced` | `AdministrationSpec => []RotationReplaces` |
| `ConnectorsStayNearThePlan` | `AdministrationSpec => []ConnectorsHold` |
| `ChainInvariant` | `AdministrationSpec => [](IInv /\ ChainInv)` |
| `AuditForksAreFew` | `AdministrationSpec => []AuditForksAreBounded` |
| *dashboard* (`DashboardProofs`) | |
| `DashboardInvariant`, `DashboardTypeCorrect` | `DashboardSpec => []IInv`, `DashboardSpec => []DashboardTypeOK` |
| `LogoutIsFinal` | `DashboardSpec => []SignedOutStaysOut` |
| `NobodyTurnedAwayWithoutCause` | `DashboardSpec => []TurnedAwayForCause` |
| `EveryFormFits` | `DashboardSpec => []FormsFit` |
| `IdentitiesDoNotMix` | `DashboardSpec => []OneIdentity` |

`Spec` is the composition of the core, so its theorems cover each component inside it with
any number of overlapping requests (`MaxInFlight` and `MaxRequestsInFlight` are
arbitrary), and connectors that answer as they like.

**The core.** The status is no evidence of anything: a stale write can put it
anywhere a handler was allowed to go. What is reliable is *history*, which only
grows: decisions are never deleted, a connector call is never taken back, a row
with a unique key is never created twice. `Evidence` says what history each piece
of state implies.

- `ApprovalEvidence`: either every stage has its approvals, or nobody acts as if
  (`NotYetApproved`): the status has never been past approval, no review is about
  to write `approved`, no execution request has passed its check, no job exists.
  The status alone is not inductive: a handler that has checked it and waits to
  write must be covered too.
- `StageEvidence`: the row's stage, a reader's snapshot and a recorded decision
  all stand on the approvals of the earlier stages. A snapshot may be old, but
  `Satisfied` is monotone (`SatisfiedStays`, `DecisionsAreKept`), so what it implied still
  holds when the row is overwritten from it. `CompleteIsSatisfied` turns the count
  a handler made into recorded approvals.
- `ExecutionEvidence`: at most one request owns the job row; the message is added
  after that owner's last write of `queued`; a delivery that got past writing `executing` has
  spent the only way to the connector, because no one will write `queued` again.
- `OutcomeEvidence`: every program counter on the way to `succeeded` or
  `rolled_back` stands on a connector call that succeeded.

`EvidenceStep` has one lemma per part (`StageStep`, `ApprovalStep`, `ExecutionStep`,
`OutcomeStep`), each with one case per component and under it one per action;
`StatusWrites` collects who may write which status. The refinement maps the
promise's variables to `AllSatisfied`, the number of connector calls, the
connector's answer, `undone > 0`, and the claim the status makes (so the promise says that
something was undone, and not how often: overlapping rollbacks do undo it twice); every status
write is a `Show`, the recording of a decision an `Approve` or a stutter, the
connector calls are `Run` and `Undo`.

**`Approvals` by itself.** `RejectionIsFinal` says `rejected` of the status when a handler is done,
so it is about the write. `ReviewEvidence` adds that at `width = 1` the edge a handler has checked is
still one of the chart when it writes (`SerialEvidence`), and that the running handlers are
at most `width` (`RequestsFit`): then nobody else can have written in between (`OneRequest`), and from
`rejected` no edge leads away. That the request precedes the waiting intent needs neither.

**Execution with its connectors.** What makes a second call impossible is `OneDelivery`: one request
creates the row, and once `executing` is written nothing is left that writes `queued`.
`FinishedJobAgrees` and `FailedLeftNothing` are about behaviours without faults, where the whole state is determined by
what the connector answered last: `Undisturbed` lists the phases (`NotAnswered`, `Succeeding`, `Failing`, and a
missing connector), and each action leads from one place in a phase to the next.
`SucceededCanBeUndone` holds with faults too, since `Recorded` says that whoever reports success
does so after the result was written, and the result lacks what the rollback needs only
if GitHub's answer could not be read.

**Rollback with its connectors.** `WorldInv` holds whatever overlaps: a worker past the
connector's success stands on an effect undone, and no step undoes what has reversibility `none`.
The rest takes requests one at a time and no fault (`Orderly`): a job is *settling*
while it has still to write what became of the intent, at most one is (`OneSettles`), and while one is,
the status is `rollback_pending`, so no other request gets in. `JobFits` ties each program counter to the
attempt row and the attempts used, down to the last one (`Final`). `hits <= undone + lost` is what makes an undone
effect undone once. A fault breaks `Orderly` for good; that is why the properties except it.

**`Metering`.** `MeteringEvidence` is inductive. Its part `Headroom`
counts the requests that have passed the check and not yet incremented
(`Pending`) together with what is counted: the sum stays below `Limit + width`.
It rises only at a check, which saw `used < Limit` with at most `width` requests
running; an increment moves one from one summand to the other; when the month
turns, up to `width` requests checked against the old month may count in the new one, which
fits because a limit of zero lets none through. `MarkEvidence` says that a mark that
is due and not set has a request about to set it (`WillMark`), because the database's increment
orders the requests and the first to pass a threshold sees the row unmarked.
`CountEvidence` makes `used[m]` the size of the set of the intents counted in `m`, so that an increment adds
one element to a finite set, and leaves uncounted only requests between their insert and their increment, or
those that a fault took there. `InvoiceEvidence` follows the one request through the
invoice: what it has read of the counter, the open invoice and the items is still so
(`Billing`), and whenever no request is on the way to the invoice it is right (`Billed`).

**`Identity`.** `OwnersStay` is not inductive, because roles travel: a lookup
copies the user's role into the membership at home, a realignment copies a
membership's into the user, and both write what they read some steps ago. The
invariant says what the rows say of one another (`HomesAgree`: the role of a
user is `owner` just if the user founded the home; `InvitesFit`, `SessionsFit`,
`MembersBelong`) and what remains true of that which each request has read (`Fits`).
Two predicates carry it: `Proper(u, home, role)`, a role that fits a home, and
`Foreign(u, w)`, a workspace that somebody else founded. Both are stable, because
founders never change (`FitsStays`); so a role that was proper when it was read is proper
when it is written, however late. What is not stable is where a user is at home: a role
for a home that has moved since is the exception, which `Proper` and `NotOwner` allow the users in
`crossed`, and `OwnersAreKept` is proved with it. Each kind of write has a lemma (`UserWritten`,
`MemberWritten`, `SessionCreated`, `InviteWritten`, `TokenWritten`), and each
action one that puts them together.

Two more invariants stand on that one. `CInv` holds under every race and is about counting: how often a token
has been used and how many requests have checked it and are about to use it, or may yet if it is
fresh (`TokenLeft`, `InviteLeft`), how many
members are active and how many requests are about to add one (`SeatLeft`). A check succeeds
only while nothing has been used, or a seat is free, so the sums stay below their bounds.
`SInv` is about `width = 1`: what the running request has read, the home and the account included, is
still so (`Current`), whence every
write keeps roles, sessions and redaction together. It says more than the properties, which look at the rows when no
request runs: they agree between the steps of a request as well.

**`Subscriptions`.** The unique event row makes one request the only one at work
on a webhook (`OneWorks`), and until that one has stored the provider's state,
nothing has been applied (`Unapplied`). A request that fails leaves its row, which
keeps every redelivery out: the reason for safety here is the reason for the
finding `subscriptions_redelivery`. For the trial, `TrialIsCurrent`: at `width = 1` the running request
is alone and the trial it read is the row, so the writes of `expired` and `converted`, which do not compare, change only
a trial that was still running.

**`Administration`.** A rotation counts from its check: the heirs of a key and
the rotations of it that are under way are never more than `width` together
(`HeirsBounded`), because the check succeeds only while the key is not revoked, hence has
no heirs. In the same way the connectors and those about to be added stay below
the limit plus `width` (`ConnectorsBounded`). `LatestIsEvent` shows that the log has
one last event, so that the `CHOOSE` of `Latest` means something. How often the chain forks at an
event needs two phases (`ForksFew`). While the event is the latest, those
that follow it without superseding it have an older stamp, hence were running when it was
appended (`Stale`); there are fewer than `width`. The first event with a later stamp supersedes
it, after which no request reads it any more, and the at most `width` that have read it
(`Readers`) make the rest of its successors.

**`Dashboard`.** A request carries the cookies of the moment it was sent and its answer changes those of the moment it
comes; so the invariant speaks of the jar, the copies that were sent and the changes under way
together. `SessionsOnce`: a session that an answer is about to set is a new one, in no other answer, cookie or
copy, and not one that was left. `FlowsHeld`: a tab at the provider has its state in the jar, or the flow
is spoilt. `OneToken` (`width = 1`): there is one token, which the jar and every form have. `OneOrOther`: an answer that
sets a session deletes the pending sign-up and the other way round, so that any order of
answers leaves one of them. `ServeIs` says once what a page, an action or a route may answer; the four
parts of the invariant are proved from it.

## 5. What is only model-checked

- Liveness (`AcceptedExecutionSettles`, `AcceptedRollbackSettles`, `EventuallyInSync`,
  `VisitsSettle`): the prover treats neither fairness nor `ENABLED`.
- `PoliciesOnlyTighten`: `evaluatePolicies` is a fold over a list that was sorted by priority,
  and what one more policy does to it is an induction over that list; the run tries every set of its catalogue.

The three violated properties are counterexamples, which need no proof. Two limits of the models carry over to the theorems:
one intent, subscription, workspace or browser at a time, and the abstractions of section 2.

## 6. Known limits of the code

What the modelling showed apart from the three disagreements. Each is part of the
model, and the properties except it, unless the list says otherwise.

- Two invites of one address to one workspace can both be open when their creations overlap, and two
  mailed tokens of one user.
- A change of role that overlaps a provider's sign-up can take a founder's role as owner (section 3).
- `githubRequest` takes an answer it cannot read for an empty one (`github.connector.ts:58`). The execution
  succeeds without the number of the issue or comment, and the rollback that was promised as partial throws
  (309-311, 341-343).
- A cancellation at the end of the period is noted, and no code carries it out.
- Rotating an expired key makes a key that works, with the default lifetime.
- The roles a policy requires are compared with a role that `submitForApproval`
  does not pass, so they never apply.
- Proration needs `current_period_start`, which no code writes (not modelled).
- A cleared coupon is the one audit event without metadata. Its hash is made of a payload without
  that key; the column reads back as null, and `verifyAuditIntegrity` hashes
  `metadata: null`, so the event is always reported as not verified (not modelled).
- An audit event that cannot be written is logged and dropped; the request it is about succeeds.
- Overlapping changes of the billing profile and the coupon share a JSON column
  that is written back whole; one of them is lost.
- A database error after `connector.rollback` succeeded makes the retry call it again.
- If the job row has no result, `getExecutionContext` falls back to the receipt, whose data has
  the connector's fields one level deeper, where the GitHub connector's rollback does not look.
- A connector without `rollback()`, or a configuration the current key cannot decrypt, uses up the attempts and
  leaves the intent `rollback_pending`; `docs/ROLLBACK_PROCESSING.md:27` expects the worker to write the failure.
- An invite that is accepted changes the membership's role and not the user's, so
  the next lookup of a user whose home it is takes the new role back.
- The settings actions catch the redirect of `requireCurrentSession`; the page that
  is rendered again then redirects.
- A cookie whose session has ended shows the error page on `/app` and `/login` until
  an action deletes it: deleting it while a page renders is refused by Next.js. `docs/AUTH_SETUP.md:146`
  says that `/app` redirects to `/login`.
- A provider's callback that ends deletes the state of a sign-in that another tab started meanwhile.
- Accepting an invite leaves the cookie of an unfinished provider sign-up.

## 7. What is not modelled

Listed in `PROJECT.json` with reasons.

- *HTTP server, configuration, metrics, health, logging*: no state that the other parts
  depend on. The route handlers' authentication and schema validation are taken as having passed.
- *SDK, contracts, UI packages*: a typed client, shared schemas, presentation.
- *Deployment, scripts, migrations, seed*: not program logic.
- *The dashboard's rendering*, its formatting, and the provisional data of
  its `/preview` pages: functions of what the API returns, or of nothing.
- *Receipts*: writing them is in `Execution` and `Rollback`; reading them has no state.
- *Webhook signatures, mail, hashing and encryption*: their results are choices
  (a webhook is let in or not; a configuration can be opened or not), their computation is left out.
- *The trial in `Metering`*, which has a plan's limit like any other.

## 8. What could come next

The lemmas about types and the steps of `transitionIntent` are stated in each of the three proof modules of the
core and could move to a common one. A zombie worker (a lost lock whose holder goes on), which BullMQ's lock renewal makes
rare and the code does not guard against. What overlapping rollback requests cost at most: the effect is undone no more often
than requests overlapped, a bound like that of `RotationReplaces`.
