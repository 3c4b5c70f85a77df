---------------------------- MODULE Subscriptions ----------------------------
(***************************************************************************)
(* The paid subscription of one workspace: modules/billing/service.ts      *)
(* against the payment provider, whose preapprovals change on their own    *)
(* and are told of by webhooks, and the trial it replaces (ensureBilling-  *)
(* State of entitlements.ts).                                              *)
(*                                                                         *)
(*   account:   account -> trial -> convert                                *)
(*   checkout:  account -> trial -> convert -> post -> store               *)
(*   cancel:    find -> withdraw -> write -> account -> trial -> convert   *)
(*   webhook:   record -> fetch -> match -> sync -> activate -> finish     *)
(*                                                                         *)
(* The workspace keeps one subscription row, a checkout makes a new        *)
(* preapproval and the row forgets the old one.  A webhook is delivered    *)
(* again until it is answered, and may be delivered again after that.      *)
(***************************************************************************)
EXTENDS Naturals, FiniteSets

CONSTANTS
  Requests,      \* slots for handlers that run at the same time
  Preapprovals,  \* the provider's subscriptions
  Plans,
  Notices,       \* the provider's webhooks; topic and subject are its choice
  Nothing,       \* a field that holds nothing
  MaxInFlight,   \* bound on the requests that run at the same time
  MaxOps,        \* bound on the requests of users; one fewer if they overlap
  MaxRepeats,    \* bound on the deliveries of answered webhooks
  MaxFaults      \* bound on provider and database errors and crashes

ASSUME SubscriptionsAssumption ==
  /\ IsFiniteSet(Requests)
  /\ Plans # {}
  /\ Nothing \notin Preapprovals \cup Plans \cup Notices
  /\ MaxInFlight \in Nat \ {0}
  /\ MaxOps \in Nat \ {0}
  /\ MaxRepeats \in Nat
  /\ MaxFaults \in Nat

VARIABLES
  provider,   \* provider[p]: the preapproval as the provider has it
  notices,    \* notices[n]: sent or answered, and about what
  events,     \* events[n]: the billing_events row with the key of n
  sub,        \* the workspace_subscriptions row
  trial,      \* the trial_states row
  over,       \* the trial's endsAt has passed
  call,       \* call[r]: what request r is doing and has read
  width,      \* how many requests this behaviour lets run at once
  budget      \* what is left of the bounds

subscriptionVars == <<provider, notices, events, sub, trial, over, call, width, budget>>
trialVars == <<trial, over>>
billingVars == <<events, sub>>

ProviderStatus == {"pending", "authorized", "paused", "cancelled", "rejected"}
Status == {"incomplete", "active", "paused", "canceled", "past_due"}
Trial == {"none", "active", "expired", "converted"}
Step == {"idle", "account", "trial", "convert", "post", "store", "find", "withdraw",
         "write", "record", "ignore", "fetch", "match", "sync", "activate", "finish"}

\* mapMercadoPagoStatus
MapStatus(s) ==
  CASE s = "authorized" -> "active" [] s = "cancelled" -> "canceled"
    [] s = "pending" -> "incomplete" [] s = "rejected" -> "past_due" [] OTHER -> s

Preapproval == [made : BOOLEAN, plan : Plans \cup {Nothing}, status : ProviderStatus]
Notice == [sent : BOOLEAN, answered : BOOLEAN, about : Preapprovals \cup {Nothing}]
Event == [state : {"none", "received", "ignored", "processed"}, applied : Nat]
Subscription == [made : BOOLEAN, pre : Preapprovals \cup {Nothing}, plan : Plans \cup {Nothing},
                 status : Status, ending : BOOLEAN]
Call == [at : Step, op : {"none", "account", "checkout", "cancel", "schedule", "webhook"},
         notice : Notices \cup {Nothing}, pre : Preapprovals \cup {Nothing},
         plan : Plans \cup {Nothing}, status : Status \cup {"none"}, ending : BOOLEAN,
         trial : Trial]

SubscriptionsTypeOK ==
  /\ provider \in [Preapprovals -> Preapproval]
  /\ notices \in [Notices -> Notice]
  /\ events \in [Notices -> Event]
  /\ sub \in Subscription
  /\ trial \in Trial
  /\ over \in BOOLEAN
  /\ call \in [Requests -> Call]
  /\ width \in 1..MaxInFlight
  /\ budget \in [ops : 0..MaxOps, repeats : 0..MaxRepeats, faults : 0..MaxFaults]

Idle == [at |-> "idle", op |-> "none", notice |-> Nothing, pre |-> Nothing,
         plan |-> Nothing, status |-> "none", ending |-> FALSE, trial |-> "none"]

\* A workspace with its trial, or one from before there were trials.
SubscriptionsInit ==
  /\ provider = [p \in Preapprovals |-> [made |-> FALSE, plan |-> Nothing, status |-> "pending"]]
  /\ notices = [n \in Notices |-> [sent |-> FALSE, answered |-> FALSE, about |-> Nothing]]
  /\ events = [n \in Notices |-> [state |-> "none", applied |-> 0]]
  /\ sub = [made |-> FALSE, pre |-> Nothing, plan |-> Nothing, status |-> "incomplete",
            ending |-> FALSE]
  /\ trial \in {"none", "active"}
  /\ over = FALSE
  /\ call = [r \in Requests |-> Idle]
  /\ width \in 1..MaxInFlight
  /\ budget = [ops |-> IF width = 1 THEN MaxOps ELSE MaxOps - 1, repeats |-> MaxRepeats, faults |-> MaxFaults]

Running == {r \in Requests : call[r].at # "idle"}
CanStart(r) == call[r].at = "idle" /\ Cardinality(Running) < width
Becomes(r, c) == call' = [call EXCEPT ![r] = c]
Goes(r, to) == call' = [call EXCEPT ![r].at = to]
Ends(r) == Becomes(r, Idle)

-----------------------------------------------------------------------------
(* The provider                                                            *)

\* A change of p makes a new webhook; one about a payment has no preapproval.
Tell(p, about) ==
  \E n \in Notices :
    /\ ~notices[n].sent
    /\ notices' = [notices EXCEPT ![n] = [sent |-> TRUE, answered |-> FALSE, about |-> about]]

ProviderMoves ==
  \E p \in Preapprovals, s \in ProviderStatus \ {"pending"} :
    /\ provider[p].made
    /\ provider[p].status \in {"pending", "authorized", "paused"} \ {s}
    /\ provider' = [provider EXCEPT ![p].status = s]
    /\ Tell(p, p)
    /\ UNCHANGED <<billingVars, trialVars, call, width, budget>>

PaymentMade ==
  \E p \in Preapprovals :
    /\ provider[p].made
    /\ Tell(p, Nothing)
    /\ UNCHANGED <<provider, billingVars, trialVars, call, width, budget>>

TrialRunsOut ==
  /\ trial # "none" /\ ~over /\ over' = TRUE
  /\ UNCHANGED <<provider, notices, billingVars, trial, call, width, budget>>

-----------------------------------------------------------------------------
(* getBillingAccount, startWorkspaceCheckout                               *)

AskAccount(r) ==
  \E op \in {"account", "checkout"}, plan \in Plans :
    /\ CanStart(r) /\ budget.ops > 0
    /\ op = "checkout" => \E p \in Preapprovals : ~provider[p].made
    /\ Becomes(r, [Idle EXCEPT !.at = "account", !.op = op,
                               !.plan = IF op = "checkout" THEN plan ELSE Nothing])
    /\ budget' = [budget EXCEPT !.ops = @ - 1]
    /\ UNCHANGED <<provider, notices, billingVars, trialVars, width>>

\* The subscription and the trial are read together.
ReadAccount(r) ==
  /\ call[r].at = "account"
  /\ Becomes(r, [call[r] EXCEPT !.at = "trial", !.trial = trial,
                                !.status = IF sub.made THEN sub.status ELSE "none"])
  /\ UNCHANGED <<provider, notices, billingVars, trialVars, width, budget>>

\* Bug: a trial that has run out is expired whatever its status.
RanOutAnyway(t) == over

RanOut(t) == t = "active" /\ over

\* A missing trial is created, once; one that has run out is expired, by an
\* update that asks nothing of the row.
EnsureTrial(r) ==
  LET c == call[r] IN
  /\ c.at = "trial"
  /\ IF c.trial = "none" /\ trial # "none"
       THEN Ends(r) /\ UNCHANGED trial
       ELSE LET t == IF c.trial = "none" THEN "active" ELSE c.trial
                next == IF RanOut(t) THEN "expired" ELSE t
            IN  /\ trial' = IF next # c.trial THEN next ELSE trial
                /\ Becomes(r, [c EXCEPT !.at = "convert", !.trial = next])
  /\ UNCHANGED <<provider, notices, billingVars, over, width, budget>>

ConvertTrial(r) ==
  LET c == call[r] IN
  /\ c.at = "convert"
  /\ trial' = IF c.status = "active" /\ c.trial = "active" THEN "converted" ELSE trial
  /\ IF c.op = "checkout" THEN Goes(r, "post") ELSE Ends(r)
  /\ UNCHANGED <<provider, notices, billingVars, over, width, budget>>

\* startMercadoPagoCheckout: a new preapproval, pending until the user pays.
PostPreapproval(r) ==
  LET c == call[r] IN
  /\ c.at = "post"
  /\ \E p \in Preapprovals :
       /\ ~provider[p].made
       /\ provider' = [provider EXCEPT ![p] =
            [made |-> TRUE, plan |-> c.plan, status |-> "pending"]]
       /\ Becomes(r, [c EXCEPT !.at = "store", !.pre = p, !.status = MapStatus("pending")])
  /\ UNCHANGED <<notices, billingVars, trialVars, width, budget>>

\* The upsert.  The preapproval that the row had stays as the provider has it.
StoreCheckout(r) ==
  LET c == call[r] IN
  /\ c.at = "store"
  /\ sub' = [made |-> TRUE, pre |-> c.pre, plan |-> c.plan, status |-> c.status, ending |-> FALSE]
  /\ Ends(r)
  /\ UNCHANGED <<provider, notices, events, trialVars, width, budget>>

-----------------------------------------------------------------------------
(* cancelWorkspaceSubscription, at once or at the end of the period        *)

FindSubscription(r) ==
  \E op \in {"cancel", "schedule"} :
    /\ CanStart(r) /\ budget.ops > 0
    /\ sub.made
    /\ Becomes(r, [Idle EXCEPT !.at = IF op = "cancel" THEN "withdraw" ELSE "write", !.op = op,
                               !.pre = sub.pre, !.status = sub.status])
    /\ budget' = [budget EXCEPT !.ops = @ - 1]
    /\ UNCHANGED <<provider, notices, billingVars, trialVars, width>>

\* cancelMercadoPagoSubscription: the answer is the status to store.  The
\* provider may tell of the change by a webhook besides.
WithdrawPreapproval(r) ==
  LET c == call[r] IN
  /\ c.at = "withdraw"
  /\ provider' = [provider EXCEPT ![c.pre].status = "cancelled"]
  /\ Tell(c.pre, c.pre) \/ UNCHANGED notices
  /\ Becomes(r, [c EXCEPT !.at = "write", !.status = MapStatus("cancelled")])
  /\ UNCHANGED <<billingVars, trialVars, width, budget>>

\* The update of whatever row the workspace has by now.
WriteCancel(r) ==
  LET c == call[r] IN
  /\ c.at = "write"
  /\ sub' = [sub EXCEPT !.status = c.status, !.ending = c.op = "schedule"]
  /\ Goes(r, "account")
  /\ UNCHANGED <<provider, notices, events, trialVars, width, budget>>

-----------------------------------------------------------------------------
(* processMercadoPagoWebhook                                               *)

Deliver(r) ==
  \E n \in Notices :
    /\ CanStart(r)
    /\ notices[n].sent
    /\ notices[n].answered => budget.repeats > 0
    /\ budget' = [budget EXCEPT !.repeats = IF notices[n].answered THEN @ - 1 ELSE @]
    /\ Becomes(r, [Idle EXCEPT !.at = "record", !.op = "webhook", !.notice = n])
    /\ UNCHANGED <<provider, notices, billingVars, trialVars, width>>

Answered(n) == [notices EXCEPT ![n].answered = TRUE]

\* Bug: only an event that has been processed is a duplicate.
IsDuplicateOfProcessed(n) == events[n].state \in {"ignored", "processed"}

\* event_key is unique.
IsDuplicate(n) == events[n].state # "none"

\* The event row comes first: of a webhook that has one, nothing else is done.
RecordEvent(r) ==
  LET n == call[r].notice IN
  /\ call[r].at = "record"
  /\ \/ /\ IsDuplicate(n)
        /\ notices' = Answered(n) /\ Ends(r)
        /\ UNCHANGED events
     \/ /\ ~IsDuplicate(n)
        /\ events' = [events EXCEPT ![n].state = "received"]
        /\ Goes(r, IF notices[n].about = Nothing THEN "ignore" ELSE "fetch")
        /\ UNCHANGED notices
  /\ UNCHANGED <<provider, sub, trialVars, width, budget>>

IgnoreEvent(r) ==
  LET n == call[r].notice IN
  /\ call[r].at = "ignore"
  /\ events' = [events EXCEPT ![n].state = "ignored"]
  /\ notices' = Answered(n)
  /\ Ends(r)
  /\ UNCHANGED <<provider, sub, trialVars, width, budget>>

\* getMercadoPagoSubscription: the status by now, and the reference that the
\* checkout gave it.
FetchSnapshot(r) ==
  LET c == call[r]
      p == notices[c.notice].about
  IN  /\ c.at = "fetch"
      /\ Becomes(r, [c EXCEPT !.at = "match", !.pre = p, !.plan = provider[p].plan,
                              !.status = MapStatus(provider[p].status)])
      /\ UNCHANGED <<provider, notices, billingVars, trialVars, width, budget>>

\* The row of this preapproval, if the workspace still has it.  Otherwise the
\* workspace and the plan are those of the reference.
MatchSubscription(r) ==
  LET c == call[r]
      existing == sub.made /\ sub.pre = c.pre
  IN  /\ c.at = "match"
      /\ Becomes(r, [c EXCEPT !.at = "sync", !.plan = IF existing THEN sub.plan ELSE @,
                              !.ending = existing /\ sub.ending])
      /\ UNCHANGED <<provider, notices, billingVars, trialVars, width, budget>>

\* Bug: a preapproval that the provider ends leaves the row as it is.
SyncUnlessCanceled(r) ==
  LET c == call[r] IN
  /\ c.at = "sync"
  /\ sub' = IF c.status = "canceled" THEN sub
            ELSE [made |-> TRUE, pre |-> c.pre, plan |-> c.plan, status |-> c.status,
                  ending |-> c.ending]
  /\ events' = [events EXCEPT ![c.notice].applied = @ + 1]
  /\ Goes(r, IF c.status = "active" THEN "activate" ELSE "finish")
  /\ UNCHANGED <<provider, notices, trialVars, width, budget>>

SyncSubscription(r) ==
  LET c == call[r] IN
  /\ c.at = "sync"
  /\ sub' = [made |-> TRUE, pre |-> c.pre, plan |-> c.plan, status |-> c.status,
             ending |-> c.ending \/ c.status = "canceled"]
  /\ events' = [events EXCEPT ![c.notice].applied = @ + 1]
  /\ Goes(r, IF c.status = "active" THEN "activate" ELSE "finish")
  /\ UNCHANGED <<provider, notices, trialVars, width, budget>>

ActivateSubscription(r) ==
  /\ call[r].at = "activate"
  /\ trial' = IF trial = "active" THEN "converted" ELSE trial
  /\ Goes(r, "finish")
  /\ UNCHANGED <<provider, notices, billingVars, over, width, budget>>

FinishEvent(r) ==
  LET n == call[r].notice IN
  /\ call[r].at = "finish"
  /\ events' = [events EXCEPT ![n].state = "processed"]
  /\ notices' = Answered(n)
  /\ Ends(r)
  /\ UNCHANGED <<provider, sub, trialVars, width, budget>>

\* An await that throws ends the request: its webhook stays unanswered.
RequestFails(r) ==
  /\ r \in Running /\ budget.faults > 0
  /\ budget' = [budget EXCEPT !.faults = @ - 1]
  /\ Ends(r)
  /\ UNCHANGED <<provider, notices, billingVars, trialVars, width>>

-----------------------------------------------------------------------------
AccountStep(r) ==
  \/ ReadAccount(r) \/ EnsureTrial(r) \/ ConvertTrial(r) \/ PostPreapproval(r)
  \/ StoreCheckout(r) \/ WithdrawPreapproval(r) \/ WriteCancel(r)
WebhookStep(r) ==
  \/ RecordEvent(r) \/ IgnoreEvent(r) \/ FetchSnapshot(r) \/ MatchSubscription(r)
  \/ SyncSubscription(r) \/ ActivateSubscription(r) \/ FinishEvent(r)

SubscriptionsNext ==
  \/ ProviderMoves \/ PaymentMade \/ TrialRunsOut
  \/ \E r \in Requests :
       \/ AskAccount(r) \/ FindSubscription(r) \/ Deliver(r)
       \/ AccountStep(r) \/ WebhookStep(r) \/ RequestFails(r)

\* A request that runs goes on, and the provider delivers what is unanswered;
\* nobody has to ask for anything.
SubscriptionsSpec ==
  /\ SubscriptionsInit /\ [][SubscriptionsNext]_subscriptionVars
  /\ \A r \in Requests :
       /\ WF_subscriptionVars(AccountStep(r) \/ WebhookStep(r))
       /\ WF_subscriptionVars(Deliver(r))

-----------------------------------------------------------------------------
(* Properties                                                              *)

\* However often a webhook is delivered, at once or again after a failure, it
\* changes the subscription once at most.
NoticesApplyOnce == \A n \in Notices : events[n].applied <= 1

\* A trial is used once: with requests one at a time, a converted or expired
\* trial stays so, whatever the clock and the provider do.
TrialEndsOnce ==
  [][width = 1 /\ trial \in {"converted", "expired"} => trial' = trial]_subscriptionVars

\* readOnlyMode of resolveEntitlements
ReadOnly == IF sub.made THEN sub.status # "active" ELSE trial # "active" \/ over

InSync ==
  sub.made => /\ sub.status = MapStatus(provider[sub.pre].status)
              /\ ReadOnly = (provider[sub.pre].status # "authorized")

\* With requests one at a time and none that fails, the subscription ends up
\* as the provider has the preapproval it is of, and the workspace can write
\* just if that one is authorised.
EventuallyInSync == width = 1 /\ [](budget.faults = MaxFaults) => <>[]InSync

\* What the webhooks are for: when all are answered, and requests come one at
\* a time, the subscription is as the provider has it.
AnsweredIsSynced ==
  width = 1 /\ Running = {} /\ (\A n \in Notices : notices[n].sent => notices[n].answered)
    => InSync
=============================================================================
