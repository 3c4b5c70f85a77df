------------------------- MODULE SubscriptionsProofs -------------------------
(***************************************************************************)
(* Theorems about Subscriptions, for any number of requests, webhooks,     *)
(* repeats and faults: type correctness, that a webhook changes the        *)
(* subscription once at most, and that a trial which has ended is over.    *)
(*                                                                         *)
(* The second rests on the unique event row: of the requests that deliver  *)
(* a webhook one passes it, and as long as that one has not stored the     *)
(* snapshot nothing has been applied.  The third is about requests one at  *)
(* a time: the one that runs holds the trial as it is, so what it writes   *)
(* of it is what it read.                                                  *)
(***************************************************************************)
EXTENDS Subscriptions, FiniteSetTheorems, TLAPS

USE SubscriptionsAssumption

\* The steps of a request that handles a webhook; past the event row; and
\* before the subscription is written.
Handling == {"record", "ignore", "fetch", "match", "sync", "activate", "finish"}
Working == Handling \ {"record"}
Unapplied == {"ignore", "fetch", "match", "sync"}

\* What a request has read, and what the rows say of it.
Fits(c) ==
  /\ c.at \in Handling => c.notice \in Notices /\ notices[c.notice].sent
  /\ c.at = "fetch" => notices[c.notice].about # Nothing
  /\ c.at \in {"store", "write", "match", "sync"} => c.status \in Status
  /\ c.at \in Working => events[c.notice].state # "none"
  /\ c.at \in Unapplied => events[c.notice].applied = 0

CallsFit == \A r \in Requests : Fits(call[r])
OneWorks ==
  \A q, r \in Requests :
    call[q].at \in Working /\ call[r].at \in Working /\ call[q].notice = call[r].notice => q = r
NoRowNoChange == \A n \in Notices : events[n].state = "none" => events[n].applied = 0

IInv == SubscriptionsTypeOK /\ CallsFit /\ OneWorks /\ NoRowNoChange /\ NoticesApplyOnce

-----------------------------------------------------------------------------
(* What every step keeps, apart from the calls                             *)

NoticesKept ==
  /\ notices' \in [Notices -> Notice]
  /\ \A n \in Notices : notices[n].sent => notices'[n].sent /\ notices'[n].about = notices[n].about
EventsKept ==
  /\ events' \in [Notices -> Event]
  /\ \A n \in Notices : events[n].state # "none" => events'[n].state # "none"
  /\ NoRowNoChange' /\ NoticesApplyOnce'
RestKept ==
  /\ provider' \in [Preapprovals -> Preapproval]
  /\ sub' \in Subscription
  /\ trial' \in Trial
  /\ over' \in BOOLEAN
  /\ width' \in 1..MaxInFlight
  /\ budget' \in [ops : 0..MaxOps, repeats : 0..MaxRepeats, faults : 0..MaxFaults]

\* The request r goes on as c, or starts or ends; another may not pass the
\* event row of a webhook that r is at work on, and r passes it but once.
Follows(r, c) ==
  /\ Becomes(r, c) /\ Fits(c)'
  /\ c.at \in Working => \/ call[r].at \in Working /\ c.notice = call[r].notice
                         \/ events[c.notice].state = "none"
  /\ \A n \in Notices : events'[n].applied # events[n].applied =>
       call[r].at \in Working /\ call[r].notice = n

LEMMA StepKeepsInv ==
  ASSUME IInv, NEW r \in Requests, NEW c \in Call, Follows(r, c), NoticesKept, EventsKept, RestKept
  PROVE  IInv'
<1>1. call \in [Requests -> Call] /\ call' = [call EXCEPT ![r] = c]
  BY DEF IInv, SubscriptionsTypeOK, Follows, Becomes
<1>2. call' \in [Requests -> Call] /\ call'[r] = c
  BY <1>1
<1>3. SubscriptionsTypeOK'
  BY <1>2 DEF SubscriptionsTypeOK, NoticesKept, EventsKept, RestKept
<1>4. ASSUME NEW q \in Requests
      PROVE  Fits(call[q])'
  <2>1. CASE q = r
    <3>1. Fits(c)'
      BY DEF Follows
    <3> QED
      BY <1>2, <2>1, <3>1 DEF Fits
  <2>2. CASE q # r
    <3>1. PICK d \in Call : d = call[q] /\ call'[q] = d
      BY <1>1, <2>2
    <3>2. Fits(d) /\ OneWorks /\ CallsFit
      BY <3>1 DEF IInv, CallsFit
    <3>3. d.at \in Handling =>
            /\ d.notice \in Notices /\ notices'[d.notice].sent
            /\ notices'[d.notice].about = notices[d.notice].about
      BY <3>2 DEF Fits, NoticesKept
    <3>4. d.at \in Working => events'[d.notice].state # "none"
      BY <3>2, <3>3 DEF Fits, EventsKept, Working
    <3>5. d.at \in Unapplied => events'[d.notice].applied = 0
      <4> SUFFICES ASSUME d.at \in Unapplied
                   PROVE  events'[d.notice].applied = events[d.notice].applied
        BY <3>2 DEF Fits
      <4>1. d.at \in Working /\ d.notice \in Notices
        BY <3>2 DEF Fits, Unapplied, Working, Handling
      <4>2. ~(call[r].at \in Working /\ call[r].notice = d.notice)
        BY <2>2, <3>1, <3>2, <4>1 DEF OneWorks
      <4> QED
        BY <4>1, <4>2 DEF Follows
    <3>6. Fits(d)'
      BY <3>2, <3>3, <3>4, <3>5 DEF Fits, Handling
    <3> QED
      BY <3>1, <3>6 DEF Fits
  <2> QED BY <2>1, <2>2
<1>5. OneWorks'
  <2> SUFFICES ASSUME NEW p \in Requests, NEW q \in Requests, p # q,
                      call'[p].at \in Working, call'[q].at \in Working,
                      call'[p].notice = call'[q].notice
               PROVE  FALSE
    BY DEF OneWorks
  <2>1. ASSUME NEW o \in Requests, o # r, c.at \in Working, call'[o].at \in Working,
               call'[o].notice = c.notice
        PROVE  FALSE
    <3>1. call'[o] = call[o]
      BY <1>1, <2>1
    <3>2. Fits(call[o]) /\ call[o].at \in Working /\ call[o].notice = c.notice
      BY <2>1, <3>1 DEF IInv, CallsFit
    <3>3. events[c.notice].state # "none"
      BY <3>2 DEF Fits
    <3>4. call[r].at \in Working /\ c.notice = call[r].notice
      BY <2>1, <3>3 DEF Follows
    <3> QED
      BY <2>1, <3>2, <3>4 DEF IInv, OneWorks
  <2>2. CASE p = r
    BY <1>2, <2>1, <2>2
  <2>3. CASE q = r
    BY <1>2, <2>1, <2>3
  <2>4. CASE p # r /\ q # r
    BY <1>1, <2>4 DEF IInv, OneWorks
  <2> QED BY <2>2, <2>3, <2>4
<1> QED
  BY <1>3, <1>4, <1>5 DEF IInv, CallsFit, EventsKept

LEMMA CallFacts ==
  ASSUME IInv, NEW r \in Requests
  PROVE  /\ call[r] \in Call /\ Fits(call[r]) /\ call \in [Requests -> Call]
         /\ Idle \in Call /\ Idle.at = "idle"
<1>1. call[r] \in Call /\ Fits(call[r]) /\ call \in [Requests -> Call]
  BY DEF IInv, SubscriptionsTypeOK, CallsFit
<1>2. Idle \in Call /\ Idle.at = "idle"
  BY DEF Idle, Call, Step, Trial
<1> QED BY <1>1, <1>2

\* A request may hold anything of the right kind.
LEMMA CallTyped ==
  ASSUME NEW b \in Call, NEW at \in Step, NEW status \in Status \cup {"none"}
  PROVE  /\ \A op \in {"cancel", "schedule"}, pre \in Preapprovals \cup {Nothing} :
              [b EXCEPT !.at = at, !.op = op, !.pre = pre, !.status = status] \in Call
         /\ \A t \in Trial : [b EXCEPT !.at = at, !.trial = t, !.status = status] \in Call
         /\ \A n \in Notices : [b EXCEPT !.at = at, !.op = "webhook", !.notice = n] \in Call
<1>1. ASSUME NEW op \in {"cancel", "schedule"}, NEW pre \in Preapprovals \cup {Nothing}
      PROVE  [b EXCEPT !.at = at, !.op = op, !.pre = pre, !.status = status] \in Call
  BY DEF Call
<1>2. ASSUME NEW t \in Trial
      PROVE  [b EXCEPT !.at = at, !.trial = t, !.status = status] \in Call
  BY DEF Call
<1>3. ASSUME NEW n \in Notices
      PROVE  [b EXCEPT !.at = at, !.op = "webhook", !.notice = n] \in Call
  BY DEF Call
<1> QED BY <1>1, <1>2, <1>3

LEMMA NoticesUntouched ==
  ASSUME IInv, UNCHANGED notices
  PROVE  NoticesKept
BY DEF IInv, SubscriptionsTypeOK, NoticesKept

LEMMA EventsUntouched ==
  ASSUME IInv, UNCHANGED events
  PROVE  EventsKept
BY DEF IInv, SubscriptionsTypeOK, EventsKept, NoRowNoChange, NoticesApplyOnce

LEMMA ToldKept ==
  ASSUME IInv, NEW p, NEW about \in Preapprovals \cup {Nothing}, Tell(p, about)
  PROVE  NoticesKept
BY DEF IInv, SubscriptionsTypeOK, NoticesKept, Tell, Notice

LEMMA AnsweredKept ==
  ASSUME IInv, NEW n \in Notices, notices' = Answered(n)
  PROVE  NoticesKept
<1>1. PICK x \in Notice : x = notices[n]
  BY DEF IInv, SubscriptionsTypeOK
<1> DEFINE y == [x EXCEPT !.answered = TRUE]
<1>2. y \in Notice /\ y.sent = x.sent /\ y.about = x.about
  BY DEF Notice
<1>3. notices' = [notices EXCEPT ![n] = y]
  BY <1>1 DEF Answered
<1> HIDE DEF y
<1> QED
  BY <1>1, <1>2, <1>3 DEF IInv, SubscriptionsTypeOK, NoticesKept

LEMMA BudgetFacts ==
  ASSUME IInv
  PROVE  /\ budget \in [ops : 0..MaxOps, repeats : 0..MaxRepeats, faults : 0..MaxFaults]
         /\ budget.ops \in Nat /\ budget.repeats \in Nat /\ budget.faults \in Nat
         /\ budget.ops <= MaxOps /\ budget.repeats <= MaxRepeats /\ budget.faults <= MaxFaults
<1>1. budget \in [ops : 0..MaxOps, repeats : 0..MaxRepeats, faults : 0..MaxFaults]
  BY DEF IInv, SubscriptionsTypeOK
<1>2. budget.ops \in 0..MaxOps /\ budget.repeats \in 0..MaxRepeats /\ budget.faults \in 0..MaxFaults
  BY <1>1
<1> QED
  BY <1>1, <1>2

\* What is left of a bound is spent by one.
LEMMA BudgetKept ==
  ASSUME IInv,
         \/ UNCHANGED budget
         \/ budget.ops > 0 /\ budget' = [budget EXCEPT !.ops = @ - 1]
         \/ budget.repeats > 0 /\ budget' = [budget EXCEPT !.repeats = @ - 1]
         \/ budget.faults > 0 /\ budget' = [budget EXCEPT !.faults = @ - 1]
  PROVE  budget' \in [ops : 0..MaxOps, repeats : 0..MaxRepeats, faults : 0..MaxFaults]
<1>1. CASE UNCHANGED budget
  BY <1>1, BudgetFacts
<1>2. CASE budget.ops > 0 /\ budget' = [budget EXCEPT !.ops = @ - 1]
  <2>1. budget.ops - 1 \in 0..MaxOps
    BY <1>2, BudgetFacts
  <2> QED BY <1>2, <2>1, BudgetFacts
<1>3. CASE budget.repeats > 0 /\ budget' = [budget EXCEPT !.repeats = @ - 1]
  <2>1. budget.repeats - 1 \in 0..MaxRepeats
    BY <1>3, BudgetFacts
  <2> QED BY <1>3, <2>1, BudgetFacts
<1>4. CASE budget.faults > 0 /\ budget' = [budget EXCEPT !.faults = @ - 1]
  <2>1. budget.faults - 1 \in 0..MaxFaults
    BY <1>4, BudgetFacts
  <2> QED BY <1>4, <2>1, BudgetFacts
<1> QED BY <1>1, <1>2, <1>3, <1>4

LEMMA MapStatusIsStatus ==
  ASSUME NEW s \in ProviderStatus
  PROVE  MapStatus(s) \in Status
BY DEF MapStatus, ProviderStatus, Status

\* The request goes on, having written no event.
LEMMA GoesOn ==
  ASSUME IInv, NEW r \in Requests, NEW c \in Call, Becomes(r, c), Fits(c),
         c.at \in Working => call[r].at \in Working /\ c.notice = call[r].notice,
         UNCHANGED events, NoticesKept, RestKept
  PROVE  IInv'
<1>1. Fits(c)'
  BY DEF Fits, NoticesKept, Handling
<1>2. Follows(r, c)
  BY <1>1 DEF Follows
<1> QED
  BY <1>2, EventsUntouched, StepKeepsInv

LEMMA EndsKeeps ==
  ASSUME IInv, NEW r \in Requests, Ends(r), NoticesKept, RestKept, EventsKept,
         \A n \in Notices : events'[n].applied # events[n].applied =>
           call[r].at \in Working /\ call[r].notice = n
  PROVE  IInv'
<1>1. Idle \in Call /\ Idle.at = "idle"
  BY CallFacts
<1>2. Fits(Idle)'
  BY <1>1 DEF Fits, Handling, Working, Unapplied
<1>3. Follows(r, Idle)
  BY <1>1, <1>2 DEF Follows, Ends, Working, Handling
<1> QED
  BY <1>1, <1>3, StepKeepsInv

LEMMA EndsQuietly ==
  ASSUME IInv, NEW r \in Requests, Ends(r), UNCHANGED events, NoticesKept, RestKept
  PROVE  IInv'
BY EventsUntouched, EndsKeeps

LEMMA OutsideKeepsInv ==
  ASSUME IInv, UNCHANGED <<call, events>>, NoticesKept, RestKept
  PROVE  IInv'
<1>1. SubscriptionsTypeOK'
  BY DEF IInv, SubscriptionsTypeOK, NoticesKept, RestKept
<1>2. OneWorks' /\ NoRowNoChange' /\ NoticesApplyOnce'
  BY DEF IInv, OneWorks, NoRowNoChange, NoticesApplyOnce
<1>3. CallsFit'
  BY DEF IInv, CallsFit, Fits, NoticesKept, Handling
<1> QED
  BY <1>1, <1>2, <1>3 DEF IInv

\* The tables of the workspace and the provider, untouched.
LEMMA RestUntouched ==
  ASSUME IInv, UNCHANGED <<provider, sub, trialVars, width, budget>>
  PROVE  RestKept
BY DEF IInv, SubscriptionsTypeOK, RestKept, trialVars

-----------------------------------------------------------------------------
(* The provider, the users' requests                                       *)

LEMMA ProviderMovesKeeps ==
  ASSUME IInv, ProviderMoves
  PROVE  IInv'
<1>1. PICK p \in Preapprovals, s \in ProviderStatus :
        provider' = [provider EXCEPT ![p].status = s] /\ Tell(p, p)
  BY DEF ProviderMoves
<1>2. UNCHANGED <<events, sub, trial, over, call, width, budget>>
  BY DEF ProviderMoves, billingVars, trialVars
<1>3. provider' \in [Preapprovals -> Preapproval]
  <2>1. PICK x \in Preapproval : x = provider[p]
    BY DEF IInv, SubscriptionsTypeOK
  <2>2. [x EXCEPT !.status = s] \in Preapproval
    BY DEF Preapproval
  <2> QED
    BY <1>1, <2>1, <2>2 DEF IInv, SubscriptionsTypeOK
<1>4. RestKept
  BY <1>2, <1>3 DEF RestKept, IInv, SubscriptionsTypeOK
<1>5. NoticesKept
  BY <1>1, ToldKept
<1> QED
  BY <1>2, <1>4, <1>5, OutsideKeepsInv

LEMMA PaymentMadeKeeps ==
  ASSUME IInv, PaymentMade
  PROVE  IInv'
<1>1. PICK p : Tell(p, Nothing)
  BY DEF PaymentMade
<1>2. NoticesKept /\ UNCHANGED <<call, events>>
  BY <1>1, ToldKept DEF PaymentMade, billingVars
<1>3. RestKept
  BY RestUntouched DEF PaymentMade, billingVars
<1> QED
  BY <1>2, <1>3, OutsideKeepsInv

LEMMA TrialRunsOutKeeps ==
  ASSUME IInv, TrialRunsOut
  PROVE  IInv'
<1>1. RestKept
  BY DEF TrialRunsOut, RestKept, IInv, SubscriptionsTypeOK, billingVars
<1>2. NoticesKept
  BY NoticesUntouched DEF TrialRunsOut
<1> QED
  BY <1>1, <1>2, OutsideKeepsInv DEF TrialRunsOut, billingVars

LEMMA AskAccountKeeps ==
  ASSUME IInv, NEW r \in Requests, AskAccount(r)
  PROVE  IInv'
<1>1. PICK op \in {"account", "checkout"}, plan \in Plans \cup {Nothing} :
        Becomes(r, [Idle EXCEPT !.at = "account", !.op = op, !.plan = plan])
  BY DEF AskAccount
<1>2. PICK c \in Call : c = [Idle EXCEPT !.at = "account", !.op = op, !.plan = plan]
  BY ZenonT(60), CallFacts DEF Call, Step
<1>3. c.at = "account"
  BY <1>2, CallFacts DEF Call
<1>4. Fits(c)
  BY SMTT(30), <1>3 DEF Fits, Handling, Working, Unapplied
<1>5. RestKept
  BY BudgetKept DEF AskAccount, RestKept, IInv, SubscriptionsTypeOK, billingVars, trialVars
<1>6. NoticesKept /\ UNCHANGED events
  BY NoticesUntouched DEF AskAccount, billingVars
<1> QED
  BY <1>1, <1>2, <1>4, <1>5, <1>6, <1>3, GoesOn DEF Working, Handling

LEMMA ReadAccountKeeps ==
  ASSUME IInv, NEW r \in Requests, ReadAccount(r)
  PROVE  IInv'
<1>1. sub \in Subscription /\ trial \in Trial
  BY DEF IInv, SubscriptionsTypeOK
<1> DEFINE status == IF sub.made THEN sub.status ELSE "none"
<1>2. status \in Status \cup {"none"}
  BY <1>1 DEF Subscription
<1>3. Becomes(r, [call[r] EXCEPT !.at = "trial", !.trial = trial, !.status = status])
  BY DEF ReadAccount
<1> HIDE DEF status
<1>4. PICK c \in Call : c = [call[r] EXCEPT !.at = "trial", !.trial = trial, !.status = status]
  BY <1>1, <1>2, CallFacts, CallTyped DEF Step
<1>5. c.at = "trial"
  BY <1>4, CallFacts DEF Call
<1>6. Fits(c)
  BY SMTT(30), <1>5 DEF Fits, Handling, Working, Unapplied
<1>7. RestKept /\ NoticesKept /\ UNCHANGED events
  BY RestUntouched, NoticesUntouched DEF ReadAccount, billingVars
<1> QED
  BY <1>4, <1>6, <1>7, <1>5, <1>3, GoesOn DEF Working, Handling

LEMMA EnsureTrialKeeps ==
  ASSUME IInv, NEW r \in Requests, EnsureTrial(r)
  PROVE  IInv'
<1>1. UNCHANGED <<provider, notices, events, sub, over, width, budget>>
  BY DEF EnsureTrial, billingVars
<1>2. NoticesKept
  BY <1>1, NoticesUntouched
<1>3. CASE Ends(r) /\ UNCHANGED trial
  <2>1. RestKept
    BY <1>1, <1>3, RestUntouched DEF trialVars
  <2> QED
    BY <1>1, <1>2, <1>3, <2>1, EndsQuietly
<1>4. ASSUME NEW next \in Trial, trial' = IF next # call[r].trial THEN next ELSE trial,
             Becomes(r, [call[r] EXCEPT !.at = "convert", !.trial = next])
      PROVE  IInv'
  <2>1. RestKept
    BY <1>1, <1>4 DEF RestKept, IInv, SubscriptionsTypeOK
  <2>2. PICK c \in Call : c = [call[r] EXCEPT !.at = "convert", !.trial = next]
    BY ZenonT(60), CallFacts DEF Call, Step
  <2>3. c.at = "convert"
    BY <2>2, CallFacts DEF Call
  <2>4. Fits(c)
    BY SMTT(30), <2>3 DEF Fits, Handling, Working, Unapplied
  <2> QED
    BY <1>1, <1>2, <1>4, <2>1, <2>2, <2>4, <2>3, GoesOn DEF Working, Handling
<1>5. call[r].trial \in Trial
  BY CallFacts DEF Call
<1>6. \/ Ends(r) /\ UNCHANGED trial
      \/ \E next \in Trial :
           /\ trial' = IF next # call[r].trial THEN next ELSE trial
           /\ Becomes(r, [call[r] EXCEPT !.at = "convert", !.trial = next])
  <2> DEFINE t == IF call[r].trial = "none" THEN "active" ELSE call[r].trial
             n == IF RanOut(t) THEN "expired" ELSE t
  <2>1. n \in Trial
    BY <1>5 DEF Trial
  <2>2. \/ Ends(r) /\ UNCHANGED trial
        \/ /\ trial' = IF n # call[r].trial THEN n ELSE trial
           /\ Becomes(r, [call[r] EXCEPT !.at = "convert", !.trial = n])
    BY DEF EnsureTrial
  <2> HIDE DEF n
  <2> QED BY <2>1, <2>2
<1> QED
  BY <1>3, <1>4, <1>6

LEMMA ConvertTrialKeeps ==
  ASSUME IInv, NEW r \in Requests, ConvertTrial(r)
  PROVE  IInv'
<1>1. UNCHANGED <<provider, notices, events, sub, over, width, budget>>
  BY DEF ConvertTrial, billingVars
<1>2. RestKept
  BY <1>1 DEF RestKept, IInv, SubscriptionsTypeOK, ConvertTrial, Trial
<1>3. NoticesKept
  BY <1>1, NoticesUntouched
<1>4. CASE Goes(r, "post")
  <2>1. PICK c \in Call : c = [call[r] EXCEPT !.at = "post"]
    BY ZenonT(60), CallFacts DEF Call, Step
  <2>2. c.at = "post"
    BY <2>1, CallFacts DEF Call
  <2>3. Fits(c) /\ Becomes(r, c)
    BY SMTT(30), <1>4, <2>1, <2>2 DEF Fits, Handling, Working, Unapplied, Goes, Becomes
  <2> QED
    BY <1>1, <1>2, <1>3, <2>1, <2>3, <2>2, GoesOn DEF Working, Handling
<1> QED
  BY <1>1, <1>2, <1>3, <1>4, EndsQuietly DEF ConvertTrial

LEMMA PostPreapprovalKeeps ==
  ASSUME IInv, NEW r \in Requests, PostPreapproval(r)
  PROVE  IInv'
<1>1. PICK p \in Preapprovals :
        /\ provider' = [provider EXCEPT ![p] =
             [made |-> TRUE, plan |-> call[r].plan, status |-> "pending"]]
        /\ Becomes(r, [call[r] EXCEPT !.at = "store", !.pre = p, !.status = MapStatus("pending")])
  BY DEF PostPreapproval
<1>2. UNCHANGED <<notices, events, sub, trial, over, width, budget>>
  BY DEF PostPreapproval, billingVars, trialVars
<1>3. [made |-> TRUE, plan |-> call[r].plan, status |-> "pending"] \in Preapproval
  BY CallFacts DEF Preapproval, Call, ProviderStatus
<1>4. RestKept
  BY <1>1, <1>2, <1>3 DEF RestKept, IInv, SubscriptionsTypeOK
<1>5. MapStatus("pending") \in Status
  BY MapStatusIsStatus DEF ProviderStatus
<1>6. PICK c \in Call : c = [call[r] EXCEPT !.at = "store", !.pre = p,
                                            !.status = MapStatus("pending")]
  BY ZenonT(60), <1>5, CallFacts DEF Call, Step
<1>7. c.at = "store" /\ c.status = MapStatus("pending")
  BY <1>6, CallFacts DEF Call
<1>8. Fits(c)
  BY SMTT(30), <1>5, <1>7 DEF Fits, Handling, Working, Unapplied
<1> QED
  BY <1>1, <1>2, <1>4, <1>6, <1>8, <1>7, NoticesUntouched, GoesOn DEF Working, Handling

LEMMA StoreCheckoutKeeps ==
  ASSUME IInv, NEW r \in Requests, StoreCheckout(r)
  PROVE  IInv'
<1>1. call[r].at = "store" /\ call[r].status \in Status /\ call[r] \in Call
  BY CallFacts DEF StoreCheckout, Fits
<1>2. sub' \in Subscription
  BY <1>1 DEF StoreCheckout, Subscription, Call
<1>3. RestKept
  BY <1>2 DEF RestKept, StoreCheckout, IInv, SubscriptionsTypeOK, trialVars
<1> QED
  BY <1>3, NoticesUntouched, EndsQuietly DEF StoreCheckout

LEMMA FindSubscriptionKeeps ==
  ASSUME IInv, NEW r \in Requests, FindSubscription(r)
  PROVE  IInv'
<1>1. PICK op \in {"cancel", "schedule"}, at \in {"withdraw", "write"} :
        Becomes(r, [Idle EXCEPT !.at = at, !.op = op, !.pre = sub.pre, !.status = sub.status])
  BY DEF FindSubscription
<1>2. sub \in Subscription
  BY DEF IInv, SubscriptionsTypeOK
<1>3. PICK c \in Call :
        c = [Idle EXCEPT !.at = at, !.op = op, !.pre = sub.pre, !.status = sub.status]
  BY ZenonT(60), <1>2, CallFacts, CallTyped DEF Step, Subscription
<1>4. c.at \in {"withdraw", "write"} /\ c.status = sub.status
  BY <1>3, CallFacts DEF Call
<1>5. Fits(c)
  BY SMTT(30), <1>2, <1>4 DEF Fits, Handling, Working, Unapplied, Subscription
<1>6. RestKept
  BY BudgetKept DEF FindSubscription, RestKept, IInv, SubscriptionsTypeOK, billingVars, trialVars
<1>7. NoticesKept /\ UNCHANGED events
  BY NoticesUntouched DEF FindSubscription, billingVars
<1> QED
  BY <1>1, <1>3, <1>5, <1>6, <1>7, <1>4, GoesOn DEF Working, Handling

LEMMA WithdrawPreapprovalKeeps ==
  ASSUME IInv, NEW r \in Requests, WithdrawPreapproval(r)
  PROVE  IInv'
<1>1. PICK c \in Call : c = call[r]
  BY CallFacts
<1>2. UNCHANGED <<events, sub, trial, over, width, budget>>
  BY DEF WithdrawPreapproval, billingVars, trialVars
<1>3. provider' \in [Preapprovals -> Preapproval]
  <2>1. CASE c.pre \in Preapprovals
    <3>1. PICK x \in Preapproval : x = provider[c.pre]
      BY <2>1 DEF IInv, SubscriptionsTypeOK
    <3>2. [x EXCEPT !.status = "cancelled"] \in Preapproval
      BY DEF Preapproval, ProviderStatus
    <3> QED
      BY <1>1, <2>1, <3>1, <3>2 DEF WithdrawPreapproval, IInv, SubscriptionsTypeOK
  <2>2. CASE c.pre \notin Preapprovals
    BY <1>1, <2>2 DEF WithdrawPreapproval, IInv, SubscriptionsTypeOK
  <2> QED BY <2>1, <2>2
<1>4. RestKept
  BY <1>2, <1>3 DEF RestKept, IInv, SubscriptionsTypeOK
<1>5. NoticesKept
  <2>1. c.pre \in Preapprovals \cup {Nothing}
    BY DEF Call
  <2> QED
    BY <1>1, <2>1, ToldKept, NoticesUntouched DEF WithdrawPreapproval
<1>6. MapStatus("cancelled") \in Status
  BY MapStatusIsStatus DEF ProviderStatus
<1>7. PICK d \in Call : d = [c EXCEPT !.at = "write", !.status = MapStatus("cancelled")]
  BY <1>6 DEF Call, Step
<1>8. d.at = "write" /\ d.status = MapStatus("cancelled")
  BY <1>7 DEF Call
<1>9. Fits(d) /\ Becomes(r, d)
  BY SMTT(30), <1>1, <1>6, <1>7, <1>8 DEF Fits, Handling, Working, Unapplied, WithdrawPreapproval
<1> QED
  BY <1>2, <1>4, <1>5, <1>7, <1>9, <1>8, GoesOn DEF Working, Handling

LEMMA WriteCancelKeeps ==
  ASSUME IInv, NEW r \in Requests, WriteCancel(r)
  PROVE  IInv'
<1>1. PICK c \in Call : c = call[r]
  BY CallFacts
<1>2. c.status \in Status
  BY <1>1, CallFacts DEF WriteCancel, Fits
<1>3. UNCHANGED <<provider, notices, events, trial, over, width, budget>>
  BY DEF WriteCancel, trialVars
<1>4. sub' \in Subscription
  <2>1. (c.op = "schedule") \in BOOLEAN
    OBVIOUS
  <2> QED
    BY <1>1, <1>2, <2>1 DEF WriteCancel, IInv, SubscriptionsTypeOK, Subscription
<1>5. RestKept
  BY <1>3, <1>4 DEF RestKept, IInv, SubscriptionsTypeOK
<1>6. PICK d \in Call : d = [c EXCEPT !.at = "account"]
  BY DEF Call, Step
<1>7. d.at = "account"
  BY <1>6 DEF Call
<1>8. Fits(d) /\ Becomes(r, d)
  BY SMTT(30), <1>1, <1>6, <1>7 DEF Fits, Handling, Working, Unapplied, WriteCancel, Goes, Becomes
<1> QED
  BY <1>3, <1>5, <1>6, <1>8, <1>7, NoticesUntouched, GoesOn DEF Working, Handling

-----------------------------------------------------------------------------
(* Webhooks                                                                *)

LEMMA DeliverKeeps ==
  ASSUME IInv, NEW r \in Requests, Deliver(r)
  PROVE  IInv'
<1>1. PICK n \in Notices :
        /\ notices[n].sent
        /\ notices[n].answered => budget.repeats > 0
        /\ budget' = [budget EXCEPT !.repeats = IF notices[n].answered THEN @ - 1 ELSE @]
        /\ Becomes(r, [Idle EXCEPT !.at = "record", !.op = "webhook", !.notice = n])
  BY DEF Deliver
<1>2. UNCHANGED <<provider, notices, events, sub, trial, over, width>>
  BY DEF Deliver, billingVars, trialVars
<1>3. PICK c \in Call : c = [Idle EXCEPT !.at = "record", !.op = "webhook", !.notice = n]
  BY CallFacts, CallTyped DEF Step
<1>4. c.at = "record" /\ c.notice = n
  BY <1>3, CallFacts DEF Call
<1>5. Fits(c)
  BY SMTT(30), <1>1, <1>4 DEF Fits, Working, Handling, Unapplied
<1>6. budget' \in [ops : 0..MaxOps, repeats : 0..MaxRepeats, faults : 0..MaxFaults]
  <2>1. CASE notices[n].answered
    BY <1>1, <2>1, BudgetKept
  <2>2. CASE ~notices[n].answered
    <3>1. budget' = budget
      BY <1>1, <2>2, BudgetFacts
    <3> QED BY <3>1, BudgetKept
  <2> QED BY <2>1, <2>2
<1>7. RestKept
  BY <1>2, <1>6 DEF RestKept, IInv, SubscriptionsTypeOK
<1> QED
  BY <1>1, <1>2, <1>3, <1>4, <1>5, <1>7, NoticesUntouched, GoesOn DEF Working, Handling

\* An event's row gets a state.
LEMMA EventStated ==
  ASSUME IInv, NEW n \in Notices, NEW s \in {"received", "ignored", "processed"},
         events' = [events EXCEPT ![n].state = s]
  PROVE  EventsKept /\ (\A m \in Notices : events'[m].applied = events[m].applied)
         /\ events'[n].state = s
<1>1. PICK x \in Event : x = events[n]
  BY DEF IInv, SubscriptionsTypeOK
<1> DEFINE y == [x EXCEPT !.state = s]
<1>2. y \in Event /\ y.applied = x.applied /\ y.state = s
  BY DEF Event
<1>3. events' = [events EXCEPT ![n] = y]
  BY <1>1
<1> HIDE DEF y
<1>4. \A m \in Notices : /\ events'[m].applied = events[m].applied
                         /\ events'[m].state = IF m = n THEN s ELSE events[m].state
  BY <1>1, <1>2, <1>3 DEF IInv, SubscriptionsTypeOK
<1>5. events' \in [Notices -> Event]
  BY <1>2, <1>3 DEF IInv, SubscriptionsTypeOK
<1> QED
  BY <1>4, <1>5 DEF EventsKept, IInv, NoRowNoChange, NoticesApplyOnce

LEMMA RecordEventKeeps ==
  ASSUME IInv, NEW r \in Requests, RecordEvent(r)
  PROVE  IInv'
<1>1. PICK b \in Call : b = call[r]
  BY CallFacts
<1>2. b.at = "record" /\ Fits(b) /\ b.notice \in Notices /\ notices[b.notice].sent
  BY <1>1, CallFacts DEF RecordEvent, Fits, Handling
<1>3. RestKept
  BY RestUntouched DEF RecordEvent
<1>4. CASE notices' = Answered(b.notice) /\ Ends(r) /\ UNCHANGED events
  BY <1>2, <1>3, <1>4, AnsweredKept, EndsQuietly
<1>5. ASSUME ~IsDuplicate(b.notice), UNCHANGED notices,
             events' = [events EXCEPT ![b.notice].state = "received"],
             Goes(r, IF notices[b.notice].about = Nothing THEN "ignore" ELSE "fetch")
      PROVE  IInv'
  <2>1. PICK at \in {"ignore", "fetch"} :
          /\ at = IF notices[b.notice].about = Nothing THEN "ignore" ELSE "fetch"
          /\ call' = [call EXCEPT ![r] = [b EXCEPT !.at = at]]
    BY <1>1, <1>5 DEF Goes
  <2>2. PICK c \in Call : c = [b EXCEPT !.at = at]
    BY DEF Call, Step
  <2>3. c.at = at /\ c.notice = b.notice
    BY <2>2 DEF Call
  <2>4. EventsKept /\ (\A m \in Notices : events'[m].applied = events[m].applied)
        /\ events'[b.notice].state = "received"
    BY <1>2, <1>5, EventStated
  <2>5. events[b.notice].state = "none" /\ events[b.notice].applied = 0
    BY <1>2, <1>5 DEF IsDuplicate, IInv, NoRowNoChange
  <2>6. Fits(c)'
    BY SMTT(30), <1>2, <1>5, <2>1, <2>3, <2>4, <2>5 DEF Fits, Handling, Working, Unapplied
  <2>7. Follows(r, c)
    BY <1>1, <2>1, <2>2, <2>3, <2>4, <2>5, <2>6 DEF Follows, Becomes
  <2> QED
    BY <1>3, <1>5, <2>4, <2>7, NoticesUntouched, StepKeepsInv
<1> QED
  BY <1>1, <1>4, <1>5 DEF RecordEvent

LEMMA IgnoreEventKeeps ==
  ASSUME IInv, NEW r \in Requests, IgnoreEvent(r)
  PROVE  IInv'
<1>1. call[r].notice \in Notices
  BY CallFacts DEF IgnoreEvent, Fits, Handling
<1>2. EventsKept /\ (\A m \in Notices : events'[m].applied = events[m].applied)
  BY <1>1, EventStated DEF IgnoreEvent
<1> QED
  BY <1>1, <1>2, AnsweredKept, RestUntouched, EndsKeeps DEF IgnoreEvent

LEMMA FinishEventKeeps ==
  ASSUME IInv, NEW r \in Requests, FinishEvent(r)
  PROVE  IInv'
<1>1. call[r].notice \in Notices
  BY CallFacts DEF FinishEvent, Fits, Handling
<1>2. EventsKept /\ (\A m \in Notices : events'[m].applied = events[m].applied)
  BY <1>1, EventStated DEF FinishEvent
<1> QED
  BY <1>1, <1>2, AnsweredKept, RestUntouched, EndsKeeps DEF FinishEvent

LEMMA FetchSnapshotKeeps ==
  ASSUME IInv, NEW r \in Requests, FetchSnapshot(r)
  PROVE  IInv'
<1>1. PICK b \in Call : b = call[r]
  BY CallFacts
<1>2. b.at = "fetch" /\ Fits(b) /\ b.notice \in Notices /\ notices[b.notice].about # Nothing
  BY <1>1, CallFacts DEF FetchSnapshot, Fits, Handling
<1>3. PICK p \in Preapprovals : p = notices[b.notice].about
  BY <1>2 DEF IInv, SubscriptionsTypeOK, Notice
<1>4. provider[p] \in Preapproval
  BY DEF IInv, SubscriptionsTypeOK
<1>5. provider[p].plan \in Plans \cup {Nothing} /\ MapStatus(provider[p].status) \in Status
  BY <1>4, MapStatusIsStatus DEF Preapproval
<1>6. PICK c \in Call : c = [b EXCEPT !.at = "match", !.pre = p, !.plan = provider[p].plan,
                               !.status = MapStatus(provider[p].status)]
  BY <1>5 DEF Call, Step
<1>7. c.at = "match" /\ c.status = MapStatus(provider[p].status) /\ c.notice = b.notice
  BY <1>6 DEF Call
<1>8. Fits(c)
  BY SMTT(30), <1>2, <1>5, <1>7 DEF Fits, Handling, Working, Unapplied
<1>9. Becomes(r, c)
  BY <1>1, <1>3, <1>6 DEF FetchSnapshot
<1>10. RestKept /\ NoticesKept /\ UNCHANGED events
  BY RestUntouched, NoticesUntouched DEF FetchSnapshot, billingVars
<1> QED
  BY <1>1, <1>2, <1>7, <1>8, <1>9, <1>10, GoesOn DEF Working, Handling

LEMMA MatchSubscriptionKeeps ==
  ASSUME IInv, NEW r \in Requests, MatchSubscription(r)
  PROVE  IInv'
<1>1. PICK b \in Call : b = call[r]
  BY CallFacts
<1>2. b.at = "match" /\ Fits(b)
  BY <1>1, CallFacts DEF MatchSubscription
<1> DEFINE existing == sub.made /\ sub.pre = b.pre
           plan == IF existing THEN sub.plan ELSE b.plan
           ending == existing /\ sub.ending
<1>3. plan \in Plans \cup {Nothing} /\ ending \in BOOLEAN
  BY DEF IInv, SubscriptionsTypeOK, Subscription, Call
<1>4. Becomes(r, [b EXCEPT !.at = "sync", !.plan = plan, !.ending = ending])
  BY <1>1 DEF MatchSubscription
<1> HIDE DEF plan, ending
<1>5. PICK c \in Call : c = [b EXCEPT !.at = "sync", !.plan = plan, !.ending = ending]
  BY <1>3, ZenonT(60) DEF Call, Step
<1>6. c.at = "sync" /\ c.status = b.status /\ c.notice = b.notice
  BY <1>5 DEF Call
<1>7. Fits(c)
  BY SMTT(30), <1>2, <1>6 DEF Fits, Handling, Working, Unapplied
<1>8. RestKept /\ NoticesKept /\ UNCHANGED events
  BY RestUntouched, NoticesUntouched DEF MatchSubscription, billingVars
<1> QED
  BY <1>1, <1>2, <1>4, <1>5, <1>6, <1>7, <1>8, GoesOn DEF Working, Handling

LEMMA SyncSubscriptionKeeps ==
  ASSUME IInv, NEW r \in Requests, SyncSubscription(r)
  PROVE  IInv'
<1>1. PICK b \in Call : b = call[r]
  BY CallFacts
<1>2. /\ b.at = "sync" /\ Fits(b) /\ b.notice \in Notices /\ b.status \in Status
      /\ events[b.notice].state # "none" /\ events[b.notice].applied = 0
  BY <1>1, CallFacts DEF SyncSubscription, Fits, Handling, Working, Unapplied
<1>3. UNCHANGED <<provider, notices, trial, over, width, budget>>
  BY DEF SyncSubscription, trialVars
<1>4. sub' \in Subscription
  <2> DEFINE ending == b.ending \/ b.status = "canceled"
  <2>1. ending \in BOOLEAN
    OBVIOUS
  <2>2. sub' = [made |-> TRUE, pre |-> b.pre, plan |-> b.plan, status |-> b.status,
                ending |-> b.ending \/ b.status = "canceled"]
    BY <1>1 DEF SyncSubscription
  <2>3. sub' = [made |-> TRUE, pre |-> b.pre, plan |-> b.plan, status |-> b.status,
                ending |-> ending]
    BY <2>2
  <2> HIDE DEF ending
  <2> QED
    BY <1>2, <2>1, <2>3 DEF Subscription, Call
<1>5. RestKept
  BY <1>3, <1>4 DEF RestKept, IInv, SubscriptionsTypeOK
<1>6. PICK x \in Event : x = events[b.notice]
  BY <1>2 DEF IInv, SubscriptionsTypeOK
<1> DEFINE y == [x EXCEPT !.applied = x.applied + 1]
<1>7. y \in Event /\ y.applied = 1 /\ y.state = x.state
  BY <1>2, <1>6 DEF Event
<1>8. events' = [events EXCEPT ![b.notice] = y]
  BY <1>1, <1>6 DEF SyncSubscription
<1> HIDE DEF y
<1>9. \A n \in Notices : /\ events'[n].state = events[n].state
                         /\ n # b.notice => events'[n].applied = events[n].applied
  BY <1>6, <1>7, <1>8 DEF IInv, SubscriptionsTypeOK
<1>10. events'[b.notice].applied = 1
  BY <1>2, <1>7, <1>8 DEF IInv, SubscriptionsTypeOK
<1>11. events' \in [Notices -> Event]
  BY <1>7, <1>8 DEF IInv, SubscriptionsTypeOK
<1>12. EventsKept
  <2>1. NoRowNoChange'
    BY <1>2, <1>9 DEF NoRowNoChange, IInv
  <2>2. NoticesApplyOnce'
    BY <1>9, <1>10 DEF NoticesApplyOnce, IInv
  <2> QED
    BY <1>9, <1>11, <2>1, <2>2 DEF EventsKept
<1>13. PICK at \in {"activate", "finish"} : Becomes(r, [b EXCEPT !.at = at])
  BY <1>1 DEF SyncSubscription, Goes, Becomes
<1>14. PICK c \in Call : c = [b EXCEPT !.at = at]
  BY DEF Call, Step
<1>15. c.at = at /\ c.notice = b.notice
  BY <1>14 DEF Call
<1>16. Fits(c)'
  BY SMTT(30), <1>2, <1>3, <1>9, <1>15 DEF Fits, Handling, Working, Unapplied
<1>17. Follows(r, c)
  BY <1>1, <1>2, <1>9, <1>13, <1>14, <1>15, <1>16 DEF Follows, Working, Handling
<1> QED
  BY <1>3, <1>5, <1>12, <1>17, NoticesUntouched, StepKeepsInv

LEMMA ActivateSubscriptionKeeps ==
  ASSUME IInv, NEW r \in Requests, ActivateSubscription(r)
  PROVE  IInv'
<1>1. PICK b \in Call : b = call[r]
  BY CallFacts
<1>2. b.at = "activate" /\ Fits(b)
  BY <1>1, CallFacts DEF ActivateSubscription
<1>3. UNCHANGED <<provider, notices, events, sub, over, width, budget>>
  BY DEF ActivateSubscription, billingVars
<1>4. RestKept
  BY <1>3 DEF RestKept, IInv, SubscriptionsTypeOK, ActivateSubscription, Trial
<1>5. PICK c \in Call : c = [b EXCEPT !.at = "finish"]
  BY DEF Call, Step
<1>6. c.at = "finish" /\ c.notice = b.notice
  BY <1>5 DEF Call
<1>7. Fits(c)
  BY SMTT(30), <1>2, <1>6 DEF Fits, Handling, Working, Unapplied
<1>8. Becomes(r, c)
  BY <1>1, <1>5 DEF ActivateSubscription, Goes, Becomes
<1> QED
  BY <1>1, <1>2, <1>3, <1>4, <1>6, <1>7, <1>8, NoticesUntouched, GoesOn DEF Working, Handling

LEMMA RequestFailsKeeps ==
  ASSUME IInv, NEW r \in Requests, RequestFails(r)
  PROVE  IInv'
<1>1. RestKept
  BY BudgetKept DEF RequestFails, RestKept, IInv, SubscriptionsTypeOK, billingVars, trialVars
<1>2. NoticesKept /\ UNCHANGED events
  BY NoticesUntouched DEF RequestFails, billingVars
<1> QED
  BY <1>1, <1>2, EndsQuietly DEF RequestFails

-----------------------------------------------------------------------------
(* The invariant                                                           *)

LEMMA InitHolds ==
  SubscriptionsInit => IInv
<1> SUFFICES ASSUME SubscriptionsInit PROVE IInv
  OBVIOUS
<1>1. provider \in [Preapprovals -> Preapproval] /\ notices \in [Notices -> Notice]
  BY DEF SubscriptionsInit, Preapproval, Notice, ProviderStatus
<1>2. events \in [Notices -> Event] /\ NoRowNoChange /\ NoticesApplyOnce
  BY DEF SubscriptionsInit, Event, NoRowNoChange, NoticesApplyOnce
<1>3. sub \in Subscription /\ trial \in Trial /\ over \in BOOLEAN /\ width \in 1..MaxInFlight
  BY DEF SubscriptionsInit, Subscription, Status, Trial
<1>4. Idle \in Call /\ Idle.at = "idle"
  BY DEF Idle, Call, Step, Trial
<1>5. call = [r \in Requests |-> Idle]
  BY DEF SubscriptionsInit
<1>6. call \in [Requests -> Call]
  BY <1>4, <1>5
<1>7. budget \in [ops : 0..MaxOps, repeats : 0..MaxRepeats, faults : 0..MaxFaults]
  <2>1. (IF width = 1 THEN MaxOps ELSE MaxOps - 1) \in 0..MaxOps
    OBVIOUS
  <2>2. MaxRepeats \in 0..MaxRepeats /\ MaxFaults \in 0..MaxFaults
    OBVIOUS
  <2> DEFINE ops == IF width = 1 THEN MaxOps ELSE MaxOps - 1
  <2>3. budget = [ops |-> ops, repeats |-> MaxRepeats, faults |-> MaxFaults]
    BY DEF SubscriptionsInit
  <2>4. ops \in 0..MaxOps
    BY <2>1
  <2> HIDE DEF ops
  <2> QED
    BY <2>2, <2>3, <2>4
<1>8. CallsFit /\ OneWorks
  BY <1>4, <1>5 DEF CallsFit, OneWorks, Fits, Handling, Working, Unapplied
<1> QED
  BY <1>1, <1>2, <1>3, <1>6, <1>7, <1>8 DEF IInv, SubscriptionsTypeOK

LEMMA NextKeepsInv ==
  IInv /\ [SubscriptionsNext]_subscriptionVars => IInv'
<1> SUFFICES ASSUME IInv, [SubscriptionsNext]_subscriptionVars PROVE IInv'
  OBVIOUS
<1>1. CASE ProviderMoves \/ PaymentMade \/ TrialRunsOut
  BY <1>1, ProviderMovesKeeps, PaymentMadeKeeps, TrialRunsOutKeeps
<1>2. ASSUME NEW r \in Requests, AskAccount(r) \/ FindSubscription(r) \/ Deliver(r) \/ RequestFails(r)
      PROVE  IInv'
  BY <1>2, AskAccountKeeps, FindSubscriptionKeeps, DeliverKeeps, RequestFailsKeeps
<1>3. ASSUME NEW r \in Requests, AccountStep(r) PROVE IInv'
  BY <1>3, ReadAccountKeeps, EnsureTrialKeeps, ConvertTrialKeeps, PostPreapprovalKeeps,
     StoreCheckoutKeeps, WithdrawPreapprovalKeeps, WriteCancelKeeps DEF AccountStep
<1>4. ASSUME NEW r \in Requests, WebhookStep(r) PROVE IInv'
  BY <1>4, RecordEventKeeps, IgnoreEventKeeps, FetchSnapshotKeeps, MatchSubscriptionKeeps,
     SyncSubscriptionKeeps, ActivateSubscriptionKeeps, FinishEventKeeps DEF WebhookStep
<1>5. CASE UNCHANGED subscriptionVars
  <2>1. UNCHANGED <<provider, notices, events, sub, trialVars, call, width, budget>>
    BY <1>5 DEF subscriptionVars, trialVars
  <2> QED
    BY <2>1, RestUntouched, NoticesUntouched, OutsideKeepsInv
<1> QED
  BY <1>1, <1>2, <1>3, <1>4, <1>5 DEF SubscriptionsNext

LEMMA InvHolds ==
  SubscriptionsSpec => []IInv
BY InitHolds, NextKeepsInv, PTL DEF SubscriptionsSpec

-----------------------------------------------------------------------------

\* The rows and the requests keep their shape, whatever the provider does.
THEOREM SubscriptionsTypeCorrect == SubscriptionsSpec => []SubscriptionsTypeOK
<1>1. IInv => SubscriptionsTypeOK
  BY DEF IInv
<1> QED
  BY <1>1, InvHolds, PTL

\* A webhook changes the subscription once at most, delivered any number of
\* times, by any number of requests at once, any of which may fail.
THEOREM NoticesAreAppliedOnce == SubscriptionsSpec => []NoticesApplyOnce
<1>1. IInv => NoticesApplyOnce
  BY DEF IInv
<1> QED
  BY <1>1, InvHolds, PTL
-----------------------------------------------------------------------------
(* The trial                                                               *)

\* With requests one at a time, nothing changes the trial between a request's
\* read of it and its use of what it read.
Alone == \A q, r \in Requests : call[q].at # "idle" /\ call[r].at # "idle" => q = r
HoldsTrial(c) == c.at \in {"trial", "convert"} => c.trial = trial
TrialIsCurrent == width = 1 => Alone /\ \A r \in Requests : HoldsTrial(call[r])

TrialKept == width = 1 /\ trial \in {"converted", "expired"} => trial' = trial

\* The request r goes on as c, and is the one that runs.
LEMMA AloneGoesOn ==
  ASSUME IInv, TrialIsCurrent, NEW r \in Requests, NEW c, Becomes(r, c), UNCHANGED width,
         call[r].at # "idle" \/ CanStart(r), HoldsTrial(c)',
         trial' # trial => call[r].at # "idle"
  PROVE  TrialIsCurrent'
<1> SUFFICES ASSUME width = 1 PROVE Alone' /\ \A q \in Requests : HoldsTrial(call[q])'
  BY DEF TrialIsCurrent
<1>1. call \in [Requests -> Call] /\ call' = [call EXCEPT ![r] = c]
  BY DEF IInv, SubscriptionsTypeOK, Becomes
<1>2. call'[r] = c /\ \A q \in Requests \ {r} : call'[q] = call[q]
  BY <1>1
<1>3. Alone /\ \A q \in Requests : HoldsTrial(call[q])
  BY DEF TrialIsCurrent
<1>4. ASSUME NEW q \in Requests, q # r PROVE call[q].at = "idle"
  <2>1. CASE call[r].at # "idle"
    BY <1>3, <1>4, <2>1 DEF Alone
  <2>2. CASE CanStart(r)
    <3>1. IsFiniteSet(Running) /\ Cardinality(Running) \in Nat
      BY FS_Subset, FS_CardinalityType DEF Running
    <3>2. Cardinality(Running) < 1
      BY <2>2 DEF CanStart
    <3>3. Cardinality(Running) = 0
      BY <3>1, <3>2
    <3>4. Running = {}
      BY <3>1, <3>3, FS_EmptySet
    <3> QED
      BY <3>4 DEF Running
  <2> QED BY <2>1, <2>2
<1>5. Alone'
  BY <1>2, <1>4 DEF Alone
<1>6. ASSUME NEW q \in Requests PROVE HoldsTrial(call[q])'
  <2>1. CASE q = r
    BY <1>2, <2>1 DEF HoldsTrial
  <2>2. CASE q # r
    BY <1>2, <1>4, <2>2 DEF HoldsTrial
  <2> QED BY <2>1, <2>2
<1> QED
  BY <1>5, <1>6

\* The request takes a step of its own and leaves the trial alone.
LEMMA AloneGoesTo ==
  ASSUME IInv, TrialIsCurrent, NEW r \in Requests, NEW c, Becomes(r, c), UNCHANGED <<width, trial>>,
         call[r].at # "idle" \/ CanStart(r), c.at \notin {"trial", "convert"}
  PROVE  TrialIsCurrent' /\ TrialKept
<1>1. HoldsTrial(c)'
  BY DEF HoldsTrial
<1> QED
  BY <1>1, AloneGoesOn DEF TrialKept

LEMMA EndsAlone ==
  ASSUME IInv, TrialIsCurrent, NEW r \in Requests, Ends(r), UNCHANGED <<width, trial>>,
         call[r].at # "idle"
  PROVE  TrialIsCurrent' /\ TrialKept
BY CallFacts, AloneGoesTo DEF Ends

LEMMA NobodyMovesTrial ==
  ASSUME TrialIsCurrent, UNCHANGED <<call, trial, width>>
  PROVE  TrialIsCurrent' /\ TrialKept
BY DEF TrialIsCurrent, TrialKept, Alone, HoldsTrial

LEMMA ReadAccountHolds ==
  ASSUME IInv, TrialIsCurrent, NEW r \in Requests, ReadAccount(r)
  PROVE  TrialIsCurrent' /\ TrialKept
<1>1. PICK b \in Call : b = call[r]
  BY CallFacts
<1>2. PICK c : c = [b EXCEPT !.at = "trial", !.trial = trial,
                             !.status = IF sub.made THEN sub.status ELSE "none"]
  OBVIOUS
<1>3. c.trial = trial
  BY <1>2 DEF Call
<1>4. b.at = "account" /\ Becomes(r, c) /\ UNCHANGED <<width, trial>>
  BY <1>1, <1>2 DEF ReadAccount, trialVars
<1>5. HoldsTrial(c)'
  BY <1>3, <1>4 DEF HoldsTrial
<1> QED
  BY <1>1, <1>4, <1>5, AloneGoesOn DEF TrialKept

LEMMA EnsureTrialHolds ==
  ASSUME IInv, TrialIsCurrent, NEW r \in Requests, EnsureTrial(r)
  PROVE  TrialIsCurrent' /\ TrialKept
<1>1. PICK b \in Call : b = call[r]
  BY CallFacts
<1>2. b.at = "trial" /\ UNCHANGED width /\ (width = 1 => b.trial = trial)
  BY <1>1 DEF EnsureTrial, TrialIsCurrent, HoldsTrial
<1>3. CASE Ends(r) /\ UNCHANGED trial
  BY <1>1, <1>2, <1>3, EndsAlone
<1>4. ASSUME NEW next, NEW t, t = (IF b.trial = "none" THEN "active" ELSE b.trial),
             next = (IF RanOut(t) THEN "expired" ELSE t),
             trial' = (IF next # b.trial THEN next ELSE trial),
             Becomes(r, [b EXCEPT !.at = "convert", !.trial = next])
      PROVE  TrialIsCurrent' /\ TrialKept
  <2>1. PICK c : c = [b EXCEPT !.at = "convert", !.trial = next]
    OBVIOUS
  <2>2. c.trial = next
    BY <2>1 DEF Call
  <2>3. width = 1 => trial' = next
    BY <1>2, <1>4
  <2>4. TrialKept
    BY <1>2, <1>4 DEF TrialKept, RanOut
  <2>5. CASE width = 1
    BY <1>1, <1>2, <1>4, <2>1, <2>2, <2>3, <2>4, <2>5, AloneGoesOn DEF HoldsTrial
  <2>6. CASE width # 1
    BY <1>2, <2>4, <2>6 DEF TrialIsCurrent
  <2> QED BY <2>5, <2>6
<1> QED
  BY <1>1, <1>3, <1>4 DEF EnsureTrial

LEMMA ConvertTrialHolds ==
  ASSUME IInv, TrialIsCurrent, NEW r \in Requests, ConvertTrial(r)
  PROVE  TrialIsCurrent' /\ TrialKept
<1>1. PICK b \in Call : b = call[r]
  BY CallFacts
<1>2. b.at = "convert" /\ UNCHANGED width /\ (width = 1 => b.trial = trial)
  BY <1>1 DEF ConvertTrial, TrialIsCurrent, HoldsTrial
<1>3. TrialKept
  BY <1>1, <1>2 DEF TrialKept, ConvertTrial
<1>4. PICK c : Becomes(r, c) /\ c.at \in {"post", "idle"}
  <2>1. [b EXCEPT !.at = "post"].at = "post"
    BY DEF Call
  <2> QED
    BY <1>1, <2>1, CallFacts DEF ConvertTrial, Goes, Ends, Becomes
<1>5. HoldsTrial(c)'
  BY <1>4 DEF HoldsTrial
<1> QED
  BY <1>1, <1>2, <1>3, <1>4, <1>5, AloneGoesOn

LEMMA ActivateSubscriptionHolds ==
  ASSUME IInv, TrialIsCurrent, NEW r \in Requests, ActivateSubscription(r)
  PROVE  TrialIsCurrent' /\ TrialKept
<1>1. PICK b \in Call : b = call[r]
  BY CallFacts
<1>2. b.at = "activate" /\ UNCHANGED width /\ TrialKept
  BY <1>1 DEF ActivateSubscription, TrialKept
<1>3. PICK c : Becomes(r, c) /\ c.at = "finish"
  <2>1. [b EXCEPT !.at = "finish"].at = "finish"
    BY DEF Call
  <2> QED
    BY <1>1, <2>1 DEF ActivateSubscription, Goes, Becomes
<1>4. HoldsTrial(c)'
  BY <1>3 DEF HoldsTrial
<1> QED
  BY <1>1, <1>2, <1>3, <1>4, AloneGoesOn

\* The requests that start, at a step that is not idle and holds no trial.
LEMMA StartsHold ==
  ASSUME IInv, TrialIsCurrent, NEW r \in Requests,
         AskAccount(r) \/ FindSubscription(r) \/ Deliver(r)
  PROVE  TrialIsCurrent' /\ TrialKept
<1>1. UNCHANGED <<width, trial>> /\ CanStart(r)
  BY DEF AskAccount, FindSubscription, Deliver, trialVars
<1>2. PICK c : Becomes(r, c) /\ c.at \notin {"trial", "convert"}
  <2>1. PICK b \in Call : b = Idle
    BY CallFacts
  <2>2. CASE AskAccount(r)
    <3>1. PICK op, plan : Becomes(r, [b EXCEPT !.at = "account", !.op = op, !.plan = plan])
      BY <2>1, <2>2 DEF AskAccount
    <3>2. [b EXCEPT !.at = "account", !.op = op, !.plan = plan].at = "account"
      BY DEF Call
    <3> QED BY <3>1, <3>2
  <2>3. CASE FindSubscription(r)
    <3>1. PICK op \in {"cancel", "schedule"} :
            Becomes(r, [b EXCEPT !.at = IF op = "cancel" THEN "withdraw" ELSE "write",
                                 !.op = op, !.pre = sub.pre, !.status = sub.status])
      BY <2>1, <2>3 DEF FindSubscription
    <3>2. PICK at \in {"withdraw", "write"} :
            Becomes(r, [b EXCEPT !.at = at, !.op = op, !.pre = sub.pre, !.status = sub.status])
      BY <3>1
    <3>3. [b EXCEPT !.at = at, !.op = op, !.pre = sub.pre, !.status = sub.status].at = at
      BY DEF Call
    <3> QED BY <3>2, <3>3
  <2>4. CASE Deliver(r)
    <3>1. PICK n : Becomes(r, [b EXCEPT !.at = "record", !.op = "webhook", !.notice = n])
      BY <2>1, <2>4 DEF Deliver
    <3>2. [b EXCEPT !.at = "record", !.op = "webhook", !.notice = n].at = "record"
      BY DEF Call
    <3> QED BY <3>1, <3>2
  <2> QED BY <2>2, <2>3, <2>4
<1> QED
  BY <1>1, <1>2, AloneGoesTo

\* The other steps of a request end it or take it to a step without a trial.
LEMMA RestHolds ==
  ASSUME IInv, TrialIsCurrent, NEW r \in Requests,
         \/ PostPreapproval(r) \/ StoreCheckout(r) \/ WithdrawPreapproval(r) \/ WriteCancel(r)
         \/ RecordEvent(r) \/ IgnoreEvent(r) \/ FetchSnapshot(r) \/ MatchSubscription(r)
         \/ SyncSubscription(r) \/ FinishEvent(r) \/ RequestFails(r)
  PROVE  TrialIsCurrent' /\ TrialKept
<1>1. PICK b \in Call : b = call[r]
  BY CallFacts
<1>2. UNCHANGED <<width, trial>> /\ b.at # "idle"
  BY <1>1 DEF PostPreapproval, StoreCheckout, WithdrawPreapproval, WriteCancel, RecordEvent,
     IgnoreEvent, FetchSnapshot, MatchSubscription, SyncSubscription, FinishEvent, RequestFails,
     trialVars, Running
<1>3. ASSUME NEW at \in Step \ {"trial", "convert"}, Goes(r, at) PROVE TrialIsCurrent' /\ TrialKept
  <2>1. [b EXCEPT !.at = at].at = at
    BY DEF Call
  <2>2. Becomes(r, [b EXCEPT !.at = at])
    BY <1>1, <1>3 DEF Goes, Becomes
  <2> QED
    BY <1>1, <1>2, <1>3, <2>1, <2>2, AloneGoesTo
<1>4. CASE StoreCheckout(r) \/ IgnoreEvent(r) \/ FinishEvent(r) \/ RequestFails(r)
  BY <1>1, <1>2, <1>4, EndsAlone DEF StoreCheckout, IgnoreEvent, FinishEvent, RequestFails
<1>5. CASE WriteCancel(r) \/ RecordEvent(r) \/ SyncSubscription(r)
  BY <1>1, <1>2, <1>3, <1>5, EndsAlone DEF WriteCancel, RecordEvent, SyncSubscription, Step
<1>6. CASE PostPreapproval(r)
  <2>1. PICK p, s : Becomes(r, [b EXCEPT !.at = "store", !.pre = p, !.status = s])
    BY <1>1, <1>6 DEF PostPreapproval
  <2>2. [b EXCEPT !.at = "store", !.pre = p, !.status = s].at = "store"
    BY DEF Call
  <2> QED BY <1>1, <1>2, <2>1, <2>2, AloneGoesTo
<1>7. CASE WithdrawPreapproval(r)
  <2>1. PICK s : Becomes(r, [b EXCEPT !.at = "write", !.status = s])
    BY <1>1, <1>7 DEF WithdrawPreapproval
  <2>2. [b EXCEPT !.at = "write", !.status = s].at = "write"
    BY DEF Call
  <2> QED BY <1>1, <1>2, <2>1, <2>2, AloneGoesTo
<1>8. CASE FetchSnapshot(r)
  <2>1. PICK p, plan, s :
          Becomes(r, [b EXCEPT !.at = "match", !.pre = p, !.plan = plan, !.status = s])
    BY <1>1, <1>8 DEF FetchSnapshot
  <2>2. [b EXCEPT !.at = "match", !.pre = p, !.plan = plan, !.status = s].at = "match"
    BY DEF Call
  <2> QED BY <1>1, <1>2, <2>1, <2>2, AloneGoesTo
<1>9. CASE MatchSubscription(r)
  <2>1. PICK plan, e : Becomes(r, [b EXCEPT !.at = "sync", !.plan = plan, !.ending = e])
    BY <1>1, <1>9 DEF MatchSubscription
  <2>2. [b EXCEPT !.at = "sync", !.plan = plan, !.ending = e].at = "sync"
    BY DEF Call
  <2> QED BY <1>1, <1>2, <2>1, <2>2, AloneGoesTo
<1> QED
  BY <1>4, <1>5, <1>6, <1>7, <1>8, <1>9

LEMMA StepKeepsTrial ==
  IInv /\ TrialIsCurrent /\ [SubscriptionsNext]_subscriptionVars => TrialIsCurrent' /\ TrialKept
<1> SUFFICES ASSUME IInv, TrialIsCurrent, [SubscriptionsNext]_subscriptionVars
             PROVE  TrialIsCurrent' /\ TrialKept
  OBVIOUS
<1>1. CASE ProviderMoves \/ PaymentMade \/ TrialRunsOut \/ UNCHANGED subscriptionVars
  BY <1>1, NobodyMovesTrial DEF ProviderMoves, PaymentMade, TrialRunsOut, trialVars, subscriptionVars
<1>2. ASSUME NEW r \in Requests,
             \/ AskAccount(r) \/ FindSubscription(r) \/ Deliver(r)
             \/ AccountStep(r) \/ WebhookStep(r) \/ RequestFails(r)
      PROVE  TrialIsCurrent' /\ TrialKept
  BY <1>2, StartsHold, ReadAccountHolds, EnsureTrialHolds, ConvertTrialHolds,
     ActivateSubscriptionHolds, RestHolds DEF AccountStep, WebhookStep
<1> QED
  BY <1>1, <1>2 DEF SubscriptionsNext

\* With requests one at a time, a trial that was converted or has expired stays
\* so: whatever comes back late from the provider, no request begins it again
\* or expires one that the workspace has paid for.
THEOREM TrialsEndOnce == SubscriptionsSpec => TrialEndsOnce
<1>1. SubscriptionsInit => TrialIsCurrent
  BY DEF SubscriptionsInit, TrialIsCurrent, Alone, HoldsTrial, Idle
<1>2. IInv /\ TrialIsCurrent /\ [SubscriptionsNext]_subscriptionVars
        => [width = 1 /\ trial \in {"converted", "expired"} => trial' = trial]_subscriptionVars
  BY StepKeepsTrial DEF TrialKept
<1> QED
  BY <1>1, <1>2, InvHolds, StepKeepsTrial, PTL DEF SubscriptionsSpec, TrialEndsOnce
=============================================================================
