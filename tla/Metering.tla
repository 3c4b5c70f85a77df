------------------------------ MODULE Metering ------------------------------
(***************************************************************************)
(* Counting and billing the intents of one workspace: createIntent of      *)
(* modules/intents/service.ts with the limit check that precedes it        *)
(* (modules/billing/entitlements.ts), the counter it increments            *)
(* (usage.ts) and the overage it puts on an invoice (invoices.ts).         *)
(* Executed actions are metered by the same functions.                     *)
(*                                                                         *)
(*   idle -> check -> create -> count -> mark -> invoice -> upsert         *)
(*                                       -> sum -> total -> done           *)
(*                                                                         *)
(* A month may begin between any two steps; every function asks the clock  *)
(* anew.  A counter row that does not exist yet is a count of zero: it is  *)
(* created, with duplicates skipped, before it is read or incremented.     *)
(***************************************************************************)
EXTENDS Naturals, FiniteSets

CONSTANTS
  Creates,       \* POST /intents requests
  KeyOf,         \* KeyOf[c]: the idempotency key c carries
  NoKey,         \* the "key" of a request that carries none
  Limit,         \* limits.intentsPerMonth of the plan
  WarningAt,     \* Math.ceil(limit * DEFAULT_WARNING_RATIO)
  MaxInFlight,   \* bound on the requests that run at the same time
  LastMonth,     \* bound on the months a behaviour spans
  MaxFaults      \* bound on database errors and crashes

Months == 0..LastMonth

ASSUME MeteringAssumption ==
  /\ IsFiniteSet(Creates)
  /\ DOMAIN KeyOf = Creates
  /\ Limit \in Nat
  /\ WarningAt \in 0..Limit
  /\ MaxInFlight \in Nat \ {0}
  /\ LastMonth \in Nat
  /\ MaxFaults \in Nat

VARIABLES
  pc,
  created,    \* the requests that inserted an intent
  used,       \* used[m]: usage_counters.count of month m
  marks,      \* marks[m]: which of the two timestamps of the row are set
  invoices,   \* invoices[c]: the open billing_invoices row that c inserted
  counted,    \* counted[c]: the row that c's increment returned
  billing,    \* billing[c]: the invoice c works on, and the sum it read
  month,      \* the current month
  overage,    \* the plan bills usage above the limit instead of blocking it
  width,      \* how many requests this behaviour lets run at once
  faults

meteringVars ==
  <<pc, created, used, marks, invoices, counted, billing, month, overage, width, faults>>
rowVars == <<used, marks, invoices>>
localVars == <<counted, billing>>
contextVars == <<month, overage, width, faults>>

Mark == {"warning", "limit"}
MeteringPc == {"idle", "check", "create", "count", "mark", "invoice", "upsert", "sum",
               "total", "done", "repeated", "refused", "dead"}
Invoice == [open : BOOLEAN, month : Months, quantity : Nat, total : Nat]
NoInvoice == [open |-> FALSE, month |-> 0, quantity |-> 0, total |-> 0]

MeteringTypeOK ==
  /\ pc \in [Creates -> MeteringPc]
  /\ created \in SUBSET Creates
  /\ used \in [Months -> Nat]
  /\ marks \in [Months -> SUBSET Mark]
  /\ invoices \in [Creates -> Invoice]
  /\ counted \in [Creates -> [count : Nat, month : Months, due : SUBSET Mark]]
  /\ billing \in [Creates -> [invoice : Creates, sum : Nat]]
  /\ month \in Months
  /\ overage \in BOOLEAN
  /\ width \in 1..MaxInFlight
  /\ faults \in 0..MaxFaults

MeteringInit ==
  /\ pc = [c \in Creates |-> "idle"]
  /\ created = {}
  /\ used = [m \in Months |-> 0]
  /\ marks = [m \in Months |-> {}]
  /\ invoices = [c \in Creates |-> NoInvoice]
  /\ counted = [c \in Creates |-> [count |-> 0, month |-> 0, due |-> {}]]
  /\ billing = [c \in Creates |-> [invoice |-> c, sum |-> 0]]
  /\ month = 0
  /\ overage \in BOOLEAN
  /\ width \in 1..MaxInFlight
  /\ faults = 0

Running == {c \in Creates : pc[c] \notin {"idle", "done", "repeated", "refused", "dead"}}
Goes(c, to) == pc' = [pc EXCEPT ![c] = to]

\* The intents in the table that carry c's key.
Earlier(c) == {d \in created : KeyOf[c] # NoKey /\ KeyOf[d] = KeyOf[c]}

-----------------------------------------------------------------------------
(* createIntent                                                            *)

\* A request that repeats a key is answered with the intent that has it.
FindByKey(c) ==
  /\ pc[c] = "idle" /\ Cardinality(Running) < width
  /\ Goes(c, IF Earlier(c) # {} THEN "repeated" ELSE "check")
  /\ UNCHANGED <<created, rowVars, localVars, contextVars>>

\* Bug: the last allowed intent lets one more pass.
CheckPastLimit(c) ==
  /\ pc[c] = "check"
  /\ \E to \in {"create", "refused"} :
       /\ to = "create" => used[month] <= Limit \/ overage
       /\ Goes(c, to)
  /\ UNCHANGED <<created, rowVars, localVars, contextVars>>

\* assertCanCreateIntent: a used-up limit blocks unless overage is billed; a
\* workspace in read-only mode is refused whatever it has used.
Check(c) ==
  /\ pc[c] = "check"
  /\ \E to \in {"create", "refused"} :
       /\ to = "create" => used[month] < Limit \/ overage
       /\ Goes(c, to)
  /\ UNCHANGED <<created, rowVars, localVars, contextVars>>

\* Bug: the table takes a second intent with the same key.
CreateTwice(c) ==
  /\ pc[c] = "create"
  /\ created' = created \cup {c} /\ Goes(c, "count")
  /\ UNCHANGED <<rowVars, localVars, contextVars>>

\* intents.idempotency_key is unique: of two requests that found no intent
\* with their key, the second fails here.
Create(c) ==
  /\ pc[c] = "create"
  /\ \/ Earlier(c) = {} /\ created' = created \cup {c} /\ Goes(c, "count")
     \/ Earlier(c) # {} /\ UNCHANGED created /\ Goes(c, "refused")
  /\ UNCHANGED <<rowVars, localVars, contextVars>>

-----------------------------------------------------------------------------
(* incrementMonthlyUsageCounter                                            *)

\* Bug: a mark is due only when the count meets its threshold exactly.
ReachedExactly(count) ==
  {k \in Mark : count = (IF k = "limit" THEN Limit + 1 ELSE WarningAt)}

Reached(count) == {k \in Mark : count >= (IF k = "limit" THEN Limit ELSE WarningAt)}

\* Bug: a counter at its limit is not incremented any more.
CountUpToLimit(c) ==
  /\ pc[c] = "count"
  /\ used' = [used EXCEPT ![month] = IF @ < Limit THEN @ + 1 ELSE @]
  /\ counted' = [counted EXCEPT ![c] =
       [count |-> used'[month], month |-> month,
        due |-> Reached(used'[month]) \ marks[month]]]
  /\ Goes(c, "mark")
  /\ UNCHANGED <<created, marks, invoices, billing, contextVars>>

\* The increment is done by the database and returns the row, which tells the
\* caller which marks are due.
Count(c) ==
  /\ pc[c] = "count"
  /\ used' = [used EXCEPT ![month] = @ + 1]
  /\ counted' = [counted EXCEPT ![c] =
       [count |-> used'[month], month |-> month,
        due |-> Reached(used'[month]) \ marks[month]]]
  /\ Goes(c, "mark")
  /\ UNCHANGED <<created, marks, invoices, billing, contextVars>>

\* trackIntentCreation, and trackExecutionStart for executed actions.
BillsOverage(count) == overage /\ count > Limit

\* Setting a mark returns the row as it is by then; without a mark to set the
\* row of the increment is used on.
MarkCounter(c) ==
  /\ pc[c] = "mark"
  /\ LET m == counted[c].month
         count == IF counted[c].due = {} THEN counted[c].count ELSE used[m]
     IN  /\ marks' = [marks EXCEPT ![m] = @ \cup counted[c].due]
         /\ counted' = [counted EXCEPT ![c].count = count]
         /\ Goes(c, IF BillsOverage(count) THEN "invoice" ELSE "done")
  /\ UNCHANGED <<created, used, invoices, billing, contextVars>>

-----------------------------------------------------------------------------
(* recordAutomaticOverageBilling                                           *)

OpenInvoices(m) == {i \in Creates : invoices[i].open /\ invoices[i].month = m}

\* Bug: every request opens an invoice of its own.
FindInvoiceNever(c) ==
  /\ pc[c] = "invoice"
  /\ billing' = [billing EXCEPT ![c].invoice = c]
  /\ invoices' = [invoices EXCEPT ![c].month = month]
  /\ Goes(c, "upsert")
  /\ UNCHANGED <<created, used, marks, counted, contextVars>>

\* ensureOpenInvoiceForPeriod, first half: any open invoice of the month, or
\* one of its own that no other request sees before the transaction commits.
FindInvoice(c) ==
  /\ pc[c] = "invoice"
  /\ \/ /\ OpenInvoices(month) = {}
        /\ billing' = [billing EXCEPT ![c].invoice = c]
        /\ invoices' = [invoices EXCEPT ![c].month = month]
     \/ /\ \E i \in OpenInvoices(month) : billing' = [billing EXCEPT ![c].invoice = i]
        /\ UNCHANGED invoices
  /\ Goes(c, "upsert")
  /\ UNCHANGED <<created, used, marks, counted, contextVars>>

\* The upsert of the line item, and the commit: the quantity is overwritten
\* with the overage of the count that c read.
UpsertOverage(c) ==
  /\ pc[c] = "upsert"
  /\ LET i == billing[c].invoice
     IN  invoices' = [invoices EXCEPT
           ![i] = [@ EXCEPT !.open = TRUE, !.quantity = counted[c].count - Limit]]
  /\ Goes(c, "sum")
  /\ UNCHANGED <<created, used, marks, localVars, contextVars>>

\* syncInvoiceTotalsAndPaymentLink: the items are summed up, the provider is
\* asked for a payment link, and the total is written.  Totals are counted in
\* units, since price, coupon and tax are functions of the sum alone.
SumInvoice(c) ==
  /\ pc[c] = "sum"
  /\ billing' = [billing EXCEPT ![c].sum = invoices[billing[c].invoice].quantity]
  /\ Goes(c, "total")
  /\ UNCHANGED <<created, rowVars, counted, contextVars>>

WriteTotal(c) ==
  /\ pc[c] = "total"
  /\ invoices' = [invoices EXCEPT ![billing[c].invoice].total = billing[c].sum]
  /\ Goes(c, "done")
  /\ UNCHANGED <<created, used, marks, localVars, contextVars>>

-----------------------------------------------------------------------------
CreateDies(c) ==
  /\ c \in Running
  /\ faults < MaxFaults
  /\ faults' = faults + 1
  /\ Goes(c, "dead")
  /\ UNCHANGED <<created, rowVars, localVars, month, overage, width>>

MonthTurns ==
  /\ month < LastMonth
  /\ month' = month + 1
  /\ UNCHANGED <<pc, created, rowVars, localVars, overage, width, faults>>

CreateStep(c) ==
  \/ FindByKey(c) \/ Check(c) \/ Create(c) \/ Count(c) \/ MarkCounter(c)
  \/ FindInvoice(c) \/ UpsertOverage(c) \/ SumInvoice(c) \/ WriteTotal(c)
  \/ CreateDies(c)

MeteringNext == MonthTurns \/ \E c \in Creates : CreateStep(c)

MeteringSpec == MeteringInit /\ [][MeteringNext]_meteringVars

-----------------------------------------------------------------------------
(* Properties                                                              *)

\* A plan without overage is exceeded in no month by more than the requests
\* that ran beside the one that used it up: the check and the increment are
\* steps apart, and a month may begin in between.  One at a time, not at all.
LimitHolds ==
  ~overage => \A m \in Months : used[m] + 1 <= Limit + width

\* An idempotency key stands for one intent, however its requests overlap.
OneIntentPerKey ==
  \A c, d \in created : KeyOf[c] = KeyOf[d] /\ KeyOf[c] # NoKey => c = d

Idle == Running = {}

\* Every intent is counted once, in the month of the row that its increment
\* returned, and nothing else is; uncounted remains at most one for each
\* request that failed between the two.
IntentsAreCounted ==
  /\ \A m \in Months :
       used[m] = Cardinality({c \in created : counted[c].count > 0 /\ counted[c].month = m})
  /\ Idle => Cardinality({c \in created : counted[c].count = 0}) <= faults

\* The two timestamps of a counter say whether its thresholds were reached: of
\* the requests that pass a threshold together, one at least sees it unmarked.
MarksFollowCount ==
  Idle /\ faults = 0 =>
    \A m \in Months : used[m] > 0 => marks[m] = Reached(used[m])

\* Overage is billed once: with requests one at a time, and no month turning
\* in the middle of one, there is one invoice, and its item and its total are
\* the units above the limit.
OverageIsInvoiced ==
  Idle /\ faults = 0 /\ width = 1 /\ month = 0 /\ overage =>
    IF used[0] > Limit
      THEN \E i \in Creates : /\ OpenInvoices(0) = {i}
                              /\ invoices[i].quantity = used[0] - Limit
                              /\ invoices[i].total = used[0] - Limit
      ELSE OpenInvoices(0) = {}
=============================================================================
