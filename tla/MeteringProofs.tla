--------------------------- MODULE MeteringProofs ---------------------------
(***************************************************************************)
(* The limit, the marks, the keys, the counts and the overage of Metering, *)
(* for any number of requests, months and faults and every limit.          *)
(***************************************************************************)
EXTENDS Metering, FiniteSetTheorems, TLAPS

-----------------------------------------------------------------------------
(* The inductive invariant                                                 *)

\* The requests that passed the limit check and have not counted yet.
Pending == {c \in Creates : pc[c] \in {"create", "count"}}

\* What is counted and what may still be counted: a request that passed the
\* check in one month may count in a later one.
Headroom ==
  /\ used[month] + Cardinality(Pending) + 1 <= Limit + width
  /\ Limit = 0 => Pending = {}
  /\ \A m \in Months : m < month => used[m] + 1 <= Limit + width
  /\ \A m \in Months : m > month => used[m] = 0

\* A request waits to set mark k of month m.
WillMark(k, m) == \E c \in Creates : pc[c] = "mark" /\ counted[c].month = m /\ k \in counted[c].due

MarkEvidence ==
  /\ \A m \in Months : marks[m] \subseteq Reached(used[m])
  /\ \A c \in Creates : pc[c] = "mark" =>
       counted[c].due \subseteq Reached(used[counted[c].month])
  /\ faults = 0 => \A m \in Months : \A k \in Reached(used[m]) :
       used[m] > 0 => k \in marks[m] \/ WillMark(k, m)

\* Only a count above the limit is on its way to an invoice.
BilledAbove == \A c \in Creates : pc[c] \in {"invoice", "upsert"} => counted[c].count > Limit

\* Which intents are counted, where, and which never will be.
CountedIn(m) == {c \in created : counted[c].count > 0 /\ counted[c].month = m}
Uncounted == {c \in created : counted[c].count = 0 /\ pc[c] # "count"}
CountEvidence ==
  /\ \A c \in Creates :
       /\ pc[c] \in {"idle", "check", "create"} => c \notin created
       /\ pc[c] \in {"idle", "check", "create", "count"} => counted[c].count = 0
       /\ pc[c] \in {"count", "mark"} => c \in created
       /\ pc[c] = "mark" => counted[c].count > 0
       /\ counted[c].count <= used[counted[c].month]
  /\ \A m \in Months : used[m] = Cardinality(CountedIn(m))
  /\ Cardinality(Uncounted) <= faults

\* Where one request runs at a time, and this month is the first: what a
\* request knows of the invoice that it is about to write.
Billing(c) ==
  /\ pc[c] \in {"mark", "invoice", "upsert"} =>
       counted[c].count = used[0] /\ counted[c].month = 0
  /\ pc[c] \in {"invoice", "upsert", "sum", "total"} => used[0] > Limit
  /\ pc[c] = "upsert" => OpenInvoices(0) \subseteq {billing[c].invoice}
  /\ pc[c] \in {"sum", "total"} =>
       /\ OpenInvoices(0) = {billing[c].invoice}
       /\ invoices[billing[c].invoice].quantity = used[0] - Limit
  /\ pc[c] = "total" => billing[c].sum = used[0] - Limit
Billed ==
  used[0] > Limit =>
    \E i \in Creates : /\ OpenInvoices(0) = {i}
                       /\ invoices[i].quantity = used[0] - Limit
                       /\ invoices[i].total = used[0] - Limit
InvoiceEvidence ==
  width = 1 /\ faults = 0 /\ month = 0 /\ overage =>
    /\ \A i \in Creates : invoices[i].month = 0
    /\ \A i, j \in OpenInvoices(0) : i = j
    /\ \A c \in Creates : Billing(c)
    /\ used[0] <= Limit => OpenInvoices(0) = {}
    /\ (\A c \in Creates : pc[c] \notin {"mark", "invoice", "upsert", "sum", "total"}) => Billed

MeteringEvidence ==
  /\ CountEvidence
  /\ InvoiceEvidence
  /\ MeteringTypeOK
  /\ BilledAbove
  /\ Cardinality(Running) <= width
  /\ ~overage => Headroom
  /\ MarkEvidence
  /\ OneIntentPerKey

-----------------------------------------------------------------------------
(* The step of each part                                                   *)

LEMMA BilledInvoice ==
  ASSUME NEW row \in Invoice, NEW units \in Nat
  PROVE  [row EXCEPT !.open = TRUE, !.quantity = units] \in Invoice
BY DEF Invoice

LEMMA TotalledInvoice ==
  ASSUME NEW row \in Invoice, NEW units \in Nat
  PROVE  [row EXCEPT !.total = units] \in Invoice
BY DEF Invoice

LEMMA InvoiceStored ==
  ASSUME invoices \in [Creates -> Invoice], NEW i \in Creates, NEW row \in Invoice,
         invoices' = [invoices EXCEPT ![i] = row]
  PROVE  invoices' \in [Creates -> Invoice]
OBVIOUS

LEMMA MeteringTyped ==
  ASSUME MeteringTypeOK, BilledAbove, MeteringNext
  PROVE  MeteringTypeOK' /\ BilledAbove'
<1> USE MeteringAssumption
    DEF MeteringTypeOK, BilledAbove, Goes, rowVars, localVars, contextVars, MeteringPc
<1>1. CASE MonthTurns
  BY <1>1 DEF MonthTurns, Months
<1>2. ASSUME NEW c \in Creates, FindByKey(c) PROVE MeteringTypeOK' /\ BilledAbove'
  BY <1>2 DEF FindByKey
<1>3. ASSUME NEW c \in Creates, Check(c) PROVE MeteringTypeOK' /\ BilledAbove'
  BY <1>3 DEF Check
<1>4. ASSUME NEW c \in Creates, Create(c) PROVE MeteringTypeOK' /\ BilledAbove'
  BY <1>4 DEF Create
<1>5. ASSUME NEW c \in Creates, Count(c) PROVE MeteringTypeOK' /\ BilledAbove'
  <2>1. used' \in [Months -> Nat]
    BY <1>5 DEF Count
  <2>2. counted' \in [Creates -> [count : Nat, month : Months, due : SUBSET Mark]]
    BY <1>5, <2>1 DEF Count, Reached
  <2> QED
    BY <1>5, <2>1, <2>2 DEF Count
<1>6. ASSUME NEW c \in Creates, MarkCounter(c) PROVE MeteringTypeOK' /\ BilledAbove'
  <2> DEFINE count == IF counted[c].due = {} THEN counted[c].count ELSE used[counted[c].month]
  <2>1. count \in Nat
    OBVIOUS
  <2>2. counted' = [counted EXCEPT ![c].count = count]
    BY <1>6 DEF MarkCounter, BillsOverage
  <2>3. marks' \in [Months -> SUBSET Mark]
    BY <1>6 DEF MarkCounter, BillsOverage
  <2>4. pc' = [pc EXCEPT ![c] = IF overage /\ count > Limit THEN "invoice" ELSE "done"]
    BY <1>6 DEF MarkCounter, BillsOverage
  <2> HIDE DEF count
  <2>5. counted' \in [Creates -> [count : Nat, month : Months, due : SUBSET Mark]]
    <3> DEFINE Counted == [count : Nat, month : Months, due : SUBSET Mark]
    <3>1. counted \in [Creates -> Counted]
      OBVIOUS
    <3>2. PICK x \in Counted : x = counted[c]
      BY <3>1
    <3>3. [x EXCEPT !.count = count] \in Counted
      BY <2>1
    <3>4. counted' = [counted EXCEPT ![c] = [x EXCEPT !.count = count]]
      BY <2>2, <3>2
    <3> HIDE DEF Counted
    <3>5. counted' \in [Creates -> Counted]
      BY <3>1, <3>3, <3>4
    <3> QED
      BY <3>5 DEF Counted
  <2> QED
    BY <1>6, <2>1, <2>2, <2>3, <2>4, <2>5 DEF MarkCounter, BillsOverage
<1>7. ASSUME NEW c \in Creates, FindInvoice(c) PROVE MeteringTypeOK' /\ BilledAbove'
  <2>1. [invoices[c] EXCEPT !.month = month] \in Invoice
    BY DEF Invoice
  <2>2. invoices' \in {invoices, [invoices EXCEPT ![c] = [invoices[c] EXCEPT !.month = month]]}
    BY <1>7 DEF FindInvoice
  <2>3. invoices' \in [Creates -> Invoice]
    <3>1. CASE UNCHANGED invoices
      BY <3>1
    <3>2. CASE invoices' = [invoices EXCEPT ![c] = [invoices[c] EXCEPT !.month = month]]
      BY <2>1, <3>2, InvoiceStored
    <3> QED
      BY <2>2, <3>1, <3>2
  <2>4. billing' \in [Creates -> [invoice : Creates, sum : Nat]]
    <3>1. PICK i \in Creates : billing' = [billing EXCEPT ![c].invoice = i]
      BY <1>7 DEF FindInvoice, OpenInvoices
    <3> QED
      BY <3>1
  <2> QED
    BY <1>7, <2>3, <2>4 DEF FindInvoice
<1>8. ASSUME NEW c \in Creates, UpsertOverage(c) PROVE MeteringTypeOK' /\ BilledAbove'
  <2>1. counted[c].count - Limit \in Nat
    BY <1>8 DEF UpsertOverage
  <2>2. invoices' \in [Creates -> Invoice]
    <3>1. PICK i \in Creates : i = billing[c].invoice
      OBVIOUS
    <3>2. PICK row \in Invoice :
            row = [invoices[i] EXCEPT !.open = TRUE, !.quantity = counted[c].count - Limit]
      BY <2>1, BilledInvoice
    <3>3. invoices' = [invoices EXCEPT ![i] = row]
      BY <1>8, <3>1, <3>2 DEF UpsertOverage
    <3> QED
      BY <3>3, InvoiceStored
  <2> QED
    BY <1>8, <2>2 DEF UpsertOverage
<1>9. ASSUME NEW c \in Creates, SumInvoice(c) PROVE MeteringTypeOK' /\ BilledAbove'
  BY <1>9 DEF SumInvoice, Invoice
<1>10. ASSUME NEW c \in Creates, WriteTotal(c) PROVE MeteringTypeOK' /\ BilledAbove'
  <2>1. invoices' \in [Creates -> Invoice]
    <3>1. PICK i \in Creates : i = billing[c].invoice
      OBVIOUS
    <3>2. PICK row \in Invoice : row = [invoices[i] EXCEPT !.total = billing[c].sum]
      BY TotalledInvoice
    <3>3. invoices' = [invoices EXCEPT ![i] = row]
      BY <1>10, <3>1, <3>2 DEF WriteTotal
    <3> QED
      BY <3>3, InvoiceStored
  <2> QED
    BY <1>10, <2>1 DEF WriteTotal
<1>11. ASSUME NEW c \in Creates, CreateDies(c) PROVE MeteringTypeOK' /\ BilledAbove'
  BY <1>11 DEF CreateDies
<1> QED
  BY <1>1, <1>2, <1>3, <1>4, <1>5, <1>6, <1>7, <1>8, <1>9, <1>10, <1>11 DEF MeteringNext, CreateStep

\* No more requests run at once than the behaviour allows.
LEMMA WidthStep ==
  ASSUME MeteringTypeOK, MeteringNext, Cardinality(Running) <= width
  PROVE  Cardinality(Running') <= width'
<1>1. IsFiniteSet(Running)
  BY FS_Subset, MeteringAssumption DEF Running
<1>2. width' = width /\ width \in Nat /\ Cardinality(Running) \in Nat
  <2>1. width \in Nat /\ Cardinality(Running) \in Nat
    BY <1>1, FS_CardinalityType, MeteringAssumption DEF MeteringTypeOK
  <2>2. width' = width
    BY DEF MeteringNext, CreateStep, MonthTurns, FindByKey, Check, Create, Count, MarkCounter, BillsOverage,
           FindInvoice, UpsertOverage, SumInvoice, WriteTotal, CreateDies, contextVars
  <2> QED
    BY <2>1, <2>2
<1>3. CASE Running' \subseteq Running
  BY <1>1, <1>2, <1>3, FS_Subset, FS_CardinalityType
<1>4. ASSUME NEW c \in Creates, FindByKey(c)
      PROVE  Cardinality(Running') <= width'
  <2>1. Running' \subseteq Running \cup {c} /\ Cardinality(Running) < width
    BY <1>4 DEF FindByKey, Running, Goes, MeteringTypeOK
  <2>2. /\ IsFiniteSet(Running \cup {c})
        /\ Cardinality(Running \cup {c}) <= Cardinality(Running) + 1
    <3>1. /\ IsFiniteSet(Running \cup {c})
          /\ Cardinality(Running \cup {c})
               = IF c \in Running THEN Cardinality(Running) ELSE Cardinality(Running) + 1
      BY <1>1, FS_AddElement
    <3> QED
      BY <1>2, <3>1
  <2>3. IsFiniteSet(Running') /\ Cardinality(Running') <= Cardinality(Running \cup {c})
    BY <2>1, <2>2, FS_Subset
  <2> QED
    BY <1>2, <2>1, <2>2, <2>3, FS_CardinalityType
<1>5. ASSUME NEW c \in Creates, CreateStep(c), ~FindByKey(c)
      PROVE  Running' \subseteq Running
  <2>1. c \in Running
    BY <1>5 DEF CreateStep, Check, Create, Count, MarkCounter, BillsOverage, FindInvoice, UpsertOverage,
                SumInvoice, WriteTotal, CreateDies, Running
  <2>2. \E to : Goes(c, to)
    BY <1>5 DEF CreateStep, Check, Create, Count, MarkCounter, BillsOverage, FindInvoice, UpsertOverage,
                SumInvoice, WriteTotal, CreateDies
  <2>3. \A d \in Creates \ {c} : pc'[d] = pc[d]
    BY <2>2 DEF Goes, MeteringTypeOK
  <2> QED
    BY <2>1, <2>3 DEF Running
<1>6. MonthTurns => Running' \subseteq Running
  BY DEF MonthTurns, Running
<1> QED
  BY <1>3, <1>4, <1>5, <1>6 DEF MeteringNext

LEMMA PendingIsRunning ==
  ASSUME MeteringTypeOK
  PROVE  /\ IsFiniteSet(Pending) /\ IsFiniteSet(Running) /\ Pending \subseteq Running
         /\ Cardinality(Pending) \in Nat
         /\ Cardinality(Running) \in Nat
         /\ Cardinality(Pending) <= Cardinality(Running)
<1>1. IsFiniteSet(Running) /\ IsFiniteSet(Pending)
  BY FS_Subset, MeteringAssumption DEF Running, Pending
<1>2. Pending \subseteq Running
  BY DEF Running, Pending
<1> QED
  BY <1>1, <1>2, FS_Subset, FS_CardinalityType

\* A step that only takes requests out of Pending leaves the headroom.
LEMMA LessPending ==
  ASSUME MeteringTypeOK, Headroom, UNCHANGED <<used, month, width>>, Pending' \subseteq Pending
  PROVE  Headroom'
<1>1. /\ Cardinality(Pending') <= Cardinality(Pending)
      /\ Cardinality(Pending') \in Nat /\ Cardinality(Pending) \in Nat
  BY PendingIsRunning, FS_Subset, FS_CardinalityType
<1>2. used[month] \in Nat /\ Limit \in Nat /\ width \in Nat
  BY MeteringAssumption DEF MeteringTypeOK
<1> QED
  BY <1>1, <1>2 DEF Headroom

LEMMA HeadroomStep ==
  ASSUME MeteringTypeOK, MeteringTypeOK', MeteringNext, ~overage, Headroom,
         Cardinality(Running) <= width
  PROVE  Headroom'
<1>1. /\ used \in [Months -> Nat] /\ month \in Months /\ month \in Nat
      /\ Limit \in Nat /\ width \in Nat \ {0}
  BY MeteringAssumption DEF MeteringTypeOK, Months
<1>2. CASE MonthTurns
  <2>1. /\ month' = month + 1 /\ month' \in Months /\ used' = used /\ width' = width
        /\ Pending' = Pending
    BY <1>2 DEF MonthTurns, Pending, MeteringTypeOK, rowVars
  <2>2. used[month'] = 0
    BY <1>1, <2>1 DEF Headroom, Months
  <2>3. Cardinality(Pending) \in Nat /\ Cardinality(Pending) <= width
    BY <1>1, PendingIsRunning
  <2>4. 0 + Cardinality(Pending) + 1 <= Limit + width
    <3>1. CASE Limit = 0
      BY <1>1, <3>1, FS_EmptySet DEF Headroom
    <3>2. CASE Limit # 0
      BY <1>1, <2>3, <3>2
    <3> QED
      BY <3>1, <3>2
  <2>5. \A m \in Months : m < month' => used[m] + 1 <= Limit + width
    BY <1>1, <2>1, <2>3 DEF Headroom, Months
  <2>6. \A m \in Months : m > month' => used[m] = 0
    BY <1>1, <2>1 DEF Headroom, Months
  <2> QED
    BY <2>1, <2>2, <2>4, <2>5, <2>6 DEF Headroom
<1>3. ASSUME NEW c \in Creates, Check(c)
      PROVE  Headroom'
  <2>1. UNCHANGED <<used, month, width>>
    BY <1>3 DEF Check, rowVars, contextVars
  <2>2. CASE pc' = [pc EXCEPT ![c] = "create"]
    <3>1. used[month] < Limit
      BY <1>3, <2>2 DEF Check, Goes, MeteringTypeOK
    <3>2. Pending' \subseteq Running
      BY <1>3, <2>2 DEF Check, Pending, Running, MeteringTypeOK
    <3>3. Cardinality(Pending') \in Nat /\ Cardinality(Pending') <= width
      BY <1>1, <3>2, PendingIsRunning, FS_Subset, FS_CardinalityType
    <3> QED
      BY <1>1, <2>1, <3>1, <3>3 DEF Headroom
  <2>3. CASE pc' = [pc EXCEPT ![c] = "refused"]
    BY <2>1, <2>3, LessPending DEF Pending, MeteringTypeOK
  <2> QED
    BY <1>3, <2>2, <2>3 DEF Check, Goes
<1>4. ASSUME NEW c \in Creates, Count(c)
      PROVE  Headroom'
  <2>1. /\ used' = [used EXCEPT ![month] = used[month] + 1]
        /\ month' = month /\ width' = width
    BY <1>4 DEF Count, contextVars
  <2>2. c \in Pending /\ Pending' = Pending \ {c}
    BY <1>4 DEF Count, Pending, Goes, MeteringTypeOK
  <2>3. Cardinality(Pending') = Cardinality(Pending) - 1
    BY <2>2, PendingIsRunning, FS_RemoveElement
  <2> QED
    BY <1>1, <2>1, <2>2, <2>3, PendingIsRunning DEF Headroom, Months
<1>5. ASSUME NEW c \in Creates, CreateStep(c), ~Check(c), ~Count(c)
      PROVE  UNCHANGED <<used, month, width>> /\ Pending' \subseteq Pending
  BY <1>5
  DEF CreateStep, FindByKey, Create, MarkCounter, BillsOverage, FindInvoice, UpsertOverage, SumInvoice,
      WriteTotal, CreateDies, Pending, Goes, MeteringTypeOK, rowVars, contextVars
<1> QED
  BY <1>2, <1>3, <1>4, <1>5, LessPending DEF MeteringNext

LEMMA ReachedGrows ==
  ASSUME NEW a \in Nat, NEW b \in Nat, a <= b
  PROVE  Reached(a) \subseteq Reached(b)
BY MeteringAssumption DEF Reached

LEMMA MarkStep ==
  ASSUME MeteringTypeOK, MeteringNext, MarkEvidence
  PROVE  MarkEvidence'
<1> USE DEF MeteringTypeOK
\* Neither the rows nor the requests at "mark" change, or a fault excuses.
<1>1. ASSUME UNCHANGED <<used, marks, counted>>,
             \A c \in Creates : pc'[c] = "mark" => pc[c] = "mark",
             faults' = 0 => faults = 0 /\ \A c \in Creates : pc[c] = "mark" => pc'[c] = "mark"
      PROVE  MarkEvidence'
  BY <1>1 DEF MarkEvidence, WillMark
<1>2. ASSUME NEW c \in Creates, Count(c)
      PROVE  MarkEvidence'
  <2> DEFINE due == Reached(used'[month]) \ marks[month]
  <2>1. /\ used' = [used EXCEPT ![month] = used[month] + 1] /\ marks' = marks
        /\ used'[month] = used[month] + 1 /\ used'[month] \in Nat
        /\ pc[c] = "count" /\ pc' = [pc EXCEPT ![c] = "mark"] /\ faults' = faults
        /\ counted' = [counted EXCEPT ![c] =
             [count |-> used'[month], month |-> month, due |-> due]]
    BY <1>2 DEF Count, Goes, contextVars
  <2>2. \A m \in Months : Reached(used[m]) \subseteq Reached(used'[m])
    BY <2>1, ReachedGrows
  <2>3. \A m \in Months : marks'[m] \subseteq Reached(used'[m])
    BY <2>1, <2>2 DEF MarkEvidence
  <2>4. /\ counted'[c].month = month /\ counted'[c].due = due
        /\ \A d \in Creates \ {c} : counted'[d] = counted[d] /\ pc'[d] = pc[d]
    BY <2>1
  <2> HIDE DEF due
  <2>5. ASSUME NEW d \in Creates, pc'[d] = "mark"
        PROVE  counted'[d].due \subseteq Reached(used'[counted'[d].month])
    <3>1. CASE d = c
      BY <2>4, <3>1 DEF due
    <3>2. CASE d # c
      BY <2>2, <2>4, <2>5, <3>2 DEF MarkEvidence
    <3> QED
      BY <3>1, <3>2
  <2>6. ASSUME faults' = 0, NEW m \in Months, NEW k \in Reached(used'[m]), used'[m] > 0
        PROVE  k \in marks'[m] \/ WillMark(k, m)'
    <3>1. CASE m = month
      <4>1. k \in marks[m] \/ k \in due
        BY <2>6, <3>1 DEF due
      <4>2. pc'[c] = "mark"
        BY <2>1
      <4> QED
        BY <2>1, <2>4, <3>1, <4>1, <4>2 DEF WillMark
    <3>2. CASE m # month
      <4>1. k \in marks[m] \/ WillMark(k, m)
        BY <2>1, <2>6, <3>2 DEF MarkEvidence
      <4>2. CASE WillMark(k, m)
        <5>1. PICK d \in Creates : pc[d] = "mark" /\ counted[d].month = m /\ k \in counted[d].due
          BY <4>2 DEF WillMark
        <5>2. d # c
          BY <2>1, <5>1
        <5> QED
          BY <2>4, <5>1, <5>2 DEF WillMark
      <4> QED
        BY <2>1, <4>1, <4>2
    <3> QED
      BY <3>1, <3>2
  <2> QED
    BY <2>3, <2>5, <2>6 DEF MarkEvidence
<1>3. ASSUME NEW c \in Creates, MarkCounter(c)
      PROVE  MarkEvidence'
  <2> DEFINE count == IF counted[c].due = {} THEN counted[c].count ELSE used[counted[c].month]
             m0 == counted[c].month
  <2>1. /\ marks' = [marks EXCEPT ![m0] = marks[m0] \cup counted[c].due]
        /\ counted' = [counted EXCEPT ![c].count = count]
        /\ pc[c] = "mark" /\ pc'[c] # "mark" /\ used' = used /\ faults' = faults
        /\ \A d \in Creates \ {c} : pc'[d] = pc[d]
    BY <1>3 DEF MarkCounter, BillsOverage, Goes, contextVars
  <2> HIDE DEF count
  <2>2. \A d \in Creates : counted'[d].month = counted[d].month /\ counted'[d].due = counted[d].due
    BY <2>1
  <2>3. \A m \in Months : marks'[m] \subseteq Reached(used'[m])
    BY <2>1 DEF MarkEvidence
  <2>4. \A d \in Creates : pc'[d] = "mark" =>
          counted'[d].due \subseteq Reached(used'[counted'[d].month])
    BY <2>1, <2>2 DEF MarkEvidence
  <2>5. ASSUME faults' = 0, NEW m \in Months, NEW k \in Reached(used'[m]), used'[m] > 0
        PROVE  k \in marks'[m] \/ WillMark(k, m)'
    <3>1. k \in marks[m] \/ WillMark(k, m)
      BY <2>1, <2>5 DEF MarkEvidence
    <3>2. CASE WillMark(k, m)
      <4>1. PICK d \in Creates : pc[d] = "mark" /\ counted[d].month = m /\ k \in counted[d].due
        BY <3>2 DEF WillMark
      <4>2. CASE d = c
        BY <2>1, <4>1, <4>2
      <4>3. CASE d # c
        BY <2>1, <2>2, <4>1, <4>3 DEF WillMark
      <4> QED
        BY <4>2, <4>3
    <3> QED
      BY <2>1, <3>1, <3>2
  <2> QED
    BY <2>3, <2>4, <2>5 DEF MarkEvidence
<1>4. ASSUME NEW c \in Creates, CreateStep(c), ~Count(c), ~MarkCounter(c)
      PROVE  MarkEvidence'
  <2>1. CASE CreateDies(c)
    BY <1>1, <2>1, MeteringAssumption DEF CreateDies, Goes, rowVars, localVars, Running
  <2>2. CASE ~CreateDies(c)
    BY <1>1, <1>4, <2>2
    DEF CreateStep, FindByKey, Check, Create, FindInvoice, UpsertOverage, SumInvoice,
        WriteTotal, Goes, rowVars, localVars, contextVars
  <2> QED
    BY <2>1, <2>2
<1>5. CASE MonthTurns
  BY <1>1, <1>5 DEF MonthTurns, rowVars, localVars
<1> QED
  BY <1>2, <1>3, <1>4, <1>5 DEF MeteringNext

LEMMA KeyStep ==
  ASSUME MeteringNext, OneIntentPerKey, created \in SUBSET Creates
  PROVE  OneIntentPerKey'
<1>1. ASSUME NEW c \in Creates, Create(c)
      PROVE  OneIntentPerKey'
  BY <1>1 DEF Create, Earlier, OneIntentPerKey
<1>2. ASSUME NEW c \in Creates, CreateStep(c), ~Create(c)
      PROVE  created' = created
  BY <1>2 DEF CreateStep, FindByKey, Check, Count, MarkCounter, BillsOverage, FindInvoice, UpsertOverage,
              SumInvoice, WriteTotal, CreateDies
<1>3. MonthTurns => created' = created
  BY DEF MonthTurns
<1> QED
  BY <1>1, <1>2, <1>3 DEF MeteringNext, OneIntentPerKey

-----------------------------------------------------------------------------
(* The counts                                                              *)

LEMMA CountedFinite ==
  ASSUME MeteringTypeOK
  PROVE  /\ \A m \in Months : IsFiniteSet(CountedIn(m)) /\ Cardinality(CountedIn(m)) \in Nat
         /\ IsFiniteSet(Uncounted) /\ Cardinality(Uncounted) \in Nat
<1>1. ASSUME NEW S \in SUBSET Creates PROVE IsFiniteSet(S) /\ Cardinality(S) \in Nat
  BY FS_Subset, FS_CardinalityType, MeteringAssumption
<1>2. Uncounted \in SUBSET Creates /\ \A m \in Months : CountedIn(m) \in SUBSET Creates
  BY DEF Uncounted, CountedIn, MeteringTypeOK
<1> QED
  BY <1>1, <1>2

\* A row that has been returned, for the steps below.
Counted == [count : Nat, month : Months, due : SUBSET Mark]

LEMMA CountWritten ==
  ASSUME MeteringTypeOK, NEW c \in Creates, Count(c)
  PROVE  /\ counted'[c].count = used[month] + 1 /\ counted'[c].month = month
         /\ \A d \in Creates \ {c} : counted'[d] = counted[d]
         /\ used'[month] = used[month] + 1
         /\ \A m \in Months : m # month => used'[m] = used[m]
<1>1. used' = [used EXCEPT ![month] = used[month] + 1] /\ used'[month] = used[month] + 1
  BY DEF Count, MeteringTypeOK
<1>2. PICK x : x = [count |-> used'[month], month |-> month,
                    due |-> Reached(used'[month]) \ marks[month]]
  OBVIOUS
<1>3. counted' = [counted EXCEPT ![c] = x]
  BY <1>2 DEF Count
<1> QED
  BY <1>1, <1>2, <1>3 DEF MeteringTypeOK

LEMMA MarkWritten ==
  ASSUME MeteringTypeOK, NEW c \in Creates, MarkCounter(c)
  PROVE  /\ counted'[c].count = IF counted[c].due = {} THEN counted[c].count
                                                      ELSE used[counted[c].month]
         /\ counted'[c].month = counted[c].month
         /\ \A d \in Creates \ {c} : counted'[d] = counted[d]
<1>1. PICK x \in Counted : x = counted[c]
  BY DEF MeteringTypeOK, Counted
<1>2. PICK n : n = IF x.due = {} THEN x.count ELSE used[x.month]
  OBVIOUS
<1>3. PICK y : y = [x EXCEPT !.count = n]
  OBVIOUS
<1>4. counted' = [counted EXCEPT ![c] = y]
  BY <1>1, <1>2, <1>3 DEF MarkCounter, BillsOverage
<1>5. y.count = n /\ y.month = x.month
  BY <1>3 DEF Counted
<1> QED
  BY <1>1, <1>2, <1>4, <1>5 DEF MeteringTypeOK

LEMMA CountStep ==
  ASSUME MeteringTypeOK, MeteringTypeOK', MeteringNext, CountEvidence
  PROVE  CountEvidence'
<1>1. /\ pc \in [Creates -> MeteringPc] /\ created \in SUBSET Creates /\ used \in [Months -> Nat]
      /\ month \in Months /\ faults \in Nat
      /\ \A c \in Creates : counted[c].count \in Nat /\ counted[c].month \in Months
  BY MeteringAssumption DEF MeteringTypeOK
\* Nothing is inserted or counted, and a request that had to count still has.
<1>2. ASSUME UNCHANGED <<created, used, counted, faults>>, NEW c \in Creates, NEW to,
             Goes(c, to), pc[c] # "count", to \notin {"count", "mark"},
             to \in {"idle", "check", "create"} => pc[c] \in {"idle", "check", "create"}
      PROVE  CountEvidence'
  <2>1. \A d \in Creates : pc'[d] = IF d = c THEN to ELSE pc[d]
    BY <1>1, <1>2 DEF Goes
  <2>2. Uncounted' = Uncounted /\ \A m \in Months : CountedIn(m)' = CountedIn(m)
    BY <1>1, <1>2, <2>1 DEF Uncounted, CountedIn
  <2> QED
    BY <1>1, <1>2, <2>1, <2>2 DEF CountEvidence
<1>3. CASE MonthTurns
  <2>1. UNCHANGED <<pc, created, used, counted, faults>>
    BY <1>3 DEF MonthTurns, rowVars, localVars
  <2>2. Uncounted' = Uncounted /\ \A m \in Months : CountedIn(m)' = CountedIn(m)
    BY <2>1 DEF Uncounted, CountedIn
  <2> QED
    BY <2>1, <2>2 DEF CountEvidence
<1>4. ASSUME NEW c \in Creates, FindByKey(c) \/ Check(c) PROVE CountEvidence'
  <2>1. UNCHANGED <<created, used, counted, faults>> /\ pc[c] \in {"idle", "check"}
    BY <1>4 DEF FindByKey, Check, rowVars, localVars, contextVars
  <2>2. \E to \in {"check", "create", "repeated", "refused"} : Goes(c, to)
    BY <1>4 DEF FindByKey, Check
  <2> QED
    BY <1>2, <2>1, <2>2
<1>5. ASSUME NEW c \in Creates, Create(c) PROVE CountEvidence'
  <2>1. UNCHANGED <<used, counted, faults>> /\ pc[c] = "create"
    BY <1>5 DEF Create, rowVars, localVars, contextVars
  <2>2. CASE Goes(c, "refused") /\ UNCHANGED created
    BY <1>2, <2>1, <2>2
  <2>3. CASE created' = created \cup {c} /\ Goes(c, "count")
    <3>1. \A d \in Creates : pc'[d] = IF d = c THEN "count" ELSE pc[d]
      BY <1>1, <2>3 DEF Goes
    <3>2. counted[c].count = 0
      BY <2>1 DEF CountEvidence
    <3>3. ASSUME NEW m \in Months PROVE CountedIn(m)' = CountedIn(m)
      <4>1. \A d \in created' : counted'[d].count > 0 => d \in created
        BY <2>1, <2>3, <3>2
      <4> QED
        BY <2>1, <2>3, <4>1 DEF CountedIn
    <3>4. Uncounted' = Uncounted
      <4>1. c \notin Uncounted'
        BY <3>1 DEF Uncounted
      <4>2. \A d \in Creates \ {c} : d \in Uncounted' <=> d \in Uncounted
        BY <2>1, <2>3, <3>1 DEF Uncounted
      <4>3. c \notin Uncounted
        BY <2>1 DEF CountEvidence, Uncounted
      <4>4. Uncounted \subseteq Creates /\ Uncounted' \subseteq Creates
        BY <1>1, <2>3 DEF Uncounted
      <4> QED
        BY <4>1, <4>2, <4>3, <4>4
    <3> QED
      BY <1>1, <2>1, <2>3, <3>1, <3>2, <3>3, <3>4 DEF CountEvidence
  <2> QED
    BY <1>5, <2>2, <2>3 DEF Create
<1>6. ASSUME NEW c \in Creates, Count(c) PROVE CountEvidence'
  <2>1. UNCHANGED <<created, faults>> /\ pc[c] = "count" /\ Goes(c, "mark")
    BY <1>6 DEF Count, contextVars
  <2>2. \A d \in Creates : pc'[d] = IF d = c THEN "mark" ELSE pc[d]
    BY <1>1, <2>1 DEF Goes
  <2>3. /\ counted'[c].count = used[month] + 1 /\ counted'[c].month = month
        /\ \A d \in Creates \ {c} : counted'[d] = counted[d]
        /\ used'[month] = used[month] + 1
        /\ \A m \in Months : m # month => used'[m] = used[m]
    BY <1>6, CountWritten
  <2>4. counted[c].count = 0 /\ c \in created
    BY <2>1 DEF CountEvidence
  <2>5. Uncounted' = Uncounted
    BY <1>1, <2>1, <2>2, <2>3 DEF Uncounted
  <2>6. ASSUME NEW m \in Months PROVE used'[m] = Cardinality(CountedIn(m)')
    <3>1. CASE m = month
      <4>1. CountedIn(m)' = CountedIn(m) \cup {c} /\ c \notin CountedIn(m)
        BY <1>1, <2>1, <2>3, <2>4, <3>1 DEF CountedIn
      <4>2. Cardinality(CountedIn(m)') = Cardinality(CountedIn(m)) + 1
        BY <4>1, CountedFinite, FS_AddElement
      <4> QED
        BY <2>3, <3>1, <4>2 DEF CountEvidence
    <3>2. CASE m # month
      <4>1. CountedIn(m)' = CountedIn(m)
        BY <1>1, <2>1, <2>3, <2>4, <3>2 DEF CountedIn
      <4> QED
        BY <2>3, <3>2, <4>1 DEF CountEvidence
    <3> QED BY <3>1, <3>2
  <2>7. ASSUME NEW d \in Creates PROVE counted'[d].count <= used'[counted'[d].month]
    <3>1. CASE d = c
      BY <1>1, <2>3, <3>1
    <3>2. CASE d # c
      <4>1. counted[d].count <= used[counted[d].month]
        BY DEF CountEvidence
      <4>2. used[counted[d].month] <= used'[counted[d].month]
        BY <1>1, <2>3
      <4>3. used[counted[d].month] \in Nat /\ used'[counted[d].month] \in Nat
        BY <1>1, <2>3
      <4> QED
        BY <1>1, <2>3, <3>2, <4>1, <4>2, <4>3
    <3> QED BY <3>1, <3>2
  <2>8. counted'[c].count > 0
    BY <1>1, <2>3
  <2> QED
    BY <2>1, <2>2, <2>3, <2>4, <2>5, <2>6, <2>7, <2>8 DEF CountEvidence
<1>7. ASSUME NEW c \in Creates, MarkCounter(c) PROVE CountEvidence'
  <2>1. UNCHANGED <<created, used, faults>> /\ pc[c] = "mark"
    BY <1>7 DEF MarkCounter, BillsOverage, contextVars
  <2>2. PICK to \in {"invoice", "done"} : \A d \in Creates : pc'[d] = IF d = c THEN to ELSE pc[d]
    BY <1>1, <1>7 DEF MarkCounter, BillsOverage, Goes
  <2>3. /\ counted'[c].count \in {counted[c].count, used[counted[c].month]}
        /\ counted'[c].month = counted[c].month
        /\ \A d \in Creates \ {c} : counted'[d] = counted[d]
    BY <1>7, MarkWritten
  <2>4. counted[c].count > 0 /\ counted[c].count <= used[counted[c].month]
    BY <2>1 DEF CountEvidence
  <2>5. counted'[c].count > 0 /\ counted'[c].count <= used[counted'[c].month]
    BY <1>1, <2>3, <2>4
  <2>6. \A m \in Months : CountedIn(m)' = CountedIn(m)
    BY <1>1, <2>1, <2>3, <2>4, <2>5 DEF CountedIn
  <2>7. Uncounted' = Uncounted
    BY <1>1, <2>1, <2>2, <2>3, <2>4, <2>5 DEF Uncounted
  <2> QED
    BY <2>1, <2>2, <2>3, <2>5, <2>6, <2>7 DEF CountEvidence
<1>8. ASSUME NEW c \in Creates,
             FindInvoice(c) \/ UpsertOverage(c) \/ SumInvoice(c) \/ WriteTotal(c)
      PROVE  CountEvidence'
  <2>1. UNCHANGED <<created, used, counted, faults>>
        /\ pc[c] \in {"invoice", "upsert", "sum", "total"}
    BY <1>8 DEF FindInvoice, UpsertOverage, SumInvoice, WriteTotal, rowVars, localVars, contextVars
  <2>2. \E to \in {"upsert", "sum", "total", "done"} : Goes(c, to)
    BY <1>8 DEF FindInvoice, UpsertOverage, SumInvoice, WriteTotal
  <2> QED
    BY <1>2, <2>1, <2>2
<1>9. ASSUME NEW c \in Creates, CreateDies(c) PROVE CountEvidence'
  <2>1. UNCHANGED <<created, used, counted>> /\ faults' = faults + 1 /\ Goes(c, "dead")
    BY <1>9 DEF CreateDies, rowVars, localVars
  <2>2. \A d \in Creates : pc'[d] = IF d = c THEN "dead" ELSE pc[d]
    BY <1>1, <2>1 DEF Goes
  <2>3. \A m \in Months : CountedIn(m)' = CountedIn(m)
    BY <2>1 DEF CountedIn
  <2>4. Uncounted' \subseteq Uncounted \cup {c}
    BY <1>1, <2>1, <2>2 DEF Uncounted
  <2>5. /\ IsFiniteSet(Uncounted \cup {c})
        /\ Cardinality(Uncounted \cup {c}) = Cardinality(Uncounted)
           \/ Cardinality(Uncounted \cup {c}) = Cardinality(Uncounted) + 1
    BY CountedFinite, FS_AddElement
  <2>6. Cardinality(Uncounted') <= Cardinality(Uncounted \cup {c}) /\ Cardinality(Uncounted') \in Nat
    BY <2>4, <2>5, FS_Subset, FS_CardinalityType
  <2>7. Cardinality(Uncounted) <= faults /\ Cardinality(Uncounted) \in Nat
    BY CountedFinite DEF CountEvidence
  <2>8. Cardinality(Uncounted') <= faults'
    BY <1>1, <2>1, <2>5, <2>6, <2>7
  <2> QED
    BY <2>1, <2>2, <2>3, <2>8 DEF CountEvidence
<1> QED
  BY <1>3, <1>4, <1>5, <1>6, <1>7, <1>8, <1>9 DEF MeteringNext, CreateStep

-----------------------------------------------------------------------------
(* The invoice of a month, one request at a time                           *)

LEMMA OnlyOneRuns ==
  ASSUME MeteringTypeOK, Cardinality(Running) <= width, width = 1,
         NEW c \in Running, NEW d \in Creates, d # c
  PROVE  d \notin Running
<1> SUFFICES ASSUME d \in Running PROVE FALSE
  OBVIOUS
<1>1. IsFiniteSet(Running) /\ Cardinality(Running) \in Nat
  BY PendingIsRunning
<1>2. {c, d} \subseteq Running /\ IsFiniteSet({c} \cup {d})
      /\ Cardinality({c} \cup {d}) = 2
  <2>1. IsFiniteSet({c}) /\ Cardinality({c}) = 1
    BY FS_Singleton
  <2>2. d \notin {c}
    OBVIOUS
  <2>3. IsFiniteSet({c} \cup {d}) /\ Cardinality({c} \cup {d}) = Cardinality({c}) + 1
    BY <2>1, <2>2, FS_AddElement
  <2> QED
    BY <2>1, <2>3
<1>3. Cardinality({c} \cup {d}) <= Cardinality(Running)
  BY <1>1, <1>2, FS_Subset
<1> QED
  BY <1>1, <1>2, <1>3

\* A request that does not run knows nothing and need not.
LEMMA OthersBill ==
  ASSUME MeteringTypeOK, Cardinality(Running) <= width, width = 1, NEW c \in Running,
         NEW to, Goes(c, to)
  PROVE  /\ \A d \in Creates \ {c} : Billing(d)'
         /\ \A d \in Creates \ {c} : pc'[d] \notin {"mark", "invoice", "upsert", "sum", "total"}
         /\ pc'[c] = to
<1>1. pc \in [Creates -> MeteringPc] /\ c \in Creates
  BY DEF MeteringTypeOK, Running
<1>2. ASSUME NEW d \in Creates \ {c}
      PROVE  pc'[d] \notin {"mark", "invoice", "upsert", "sum", "total"}
  <2>1. d \notin Running
    BY OnlyOneRuns
  <2>2. pc'[d] = pc[d]
    BY <1>1 DEF Goes
  <2> QED
    BY <2>1, <2>2 DEF Running
<1>3. pc'[c] = to
  BY <1>1 DEF Goes
<1> QED
  BY <1>2, <1>3 DEF Billing

LEMMA InvoiceStep ==
  ASSUME MeteringTypeOK, MeteringTypeOK', MeteringNext, CountEvidence, InvoiceEvidence,
         Cardinality(Running) <= width
  PROVE  InvoiceEvidence'
<1>1. /\ pc \in [Creates -> MeteringPc] /\ used \in [Months -> Nat] /\ Limit \in Nat
      /\ invoices \in [Creates -> Invoice] /\ 0 \in Months /\ faults \in Nat /\ month \in Nat
      /\ \A c \in Creates : billing[c].invoice \in Creates
  BY MeteringAssumption DEF MeteringTypeOK, Months
<1>2. SUFFICES ASSUME width' = 1, faults' = 0, month' = 0, overage'
               PROVE  /\ \A i \in Creates : invoices'[i].month = 0
                      /\ \A i, j \in OpenInvoices(0)' : i = j
                      /\ \A c \in Creates : Billing(c)'
                      /\ used'[0] <= Limit => OpenInvoices(0)' = {}
                      /\ \/ \E c \in Creates :
                              pc'[c] \in {"mark", "invoice", "upsert", "sum", "total"}
                         \/ Billed'
  BY DEF InvoiceEvidence
<1>3. PICK c \in Creates : CreateStep(c)
  <2>1. ~MonthTurns
    <3>1. month \in Nat /\ month' = 0
      BY <1>1, <1>2
    <3>2. month + 1 # 0
      BY <3>1
    <3> QED
      BY <3>1, <3>2 DEF MonthTurns
  <2> QED
    BY <2>1 DEF MeteringNext
<1>4. /\ ~CreateDies(c) /\ width = 1 /\ faults = 0 /\ month = 0 /\ overage
      /\ UNCHANGED contextVars
  <2>1. ~CreateDies(c)
    <3>1. faults \in Nat /\ faults' = 0
      BY <1>1, <1>2
    <3>2. faults + 1 # 0
      BY <3>1
    <3> QED
      BY <3>1, <3>2 DEF CreateDies
  <2>2. UNCHANGED contextVars
    BY <1>3, <2>1 DEF CreateStep, FindByKey, Check, Create, Count, MarkCounter, BillsOverage, FindInvoice,
       UpsertOverage, SumInvoice, WriteTotal
  <2>3. width = 1 /\ faults = 0 /\ month = 0 /\ overage
    BY <1>2, <2>2 DEF contextVars
  <2> QED
    BY <2>1, <2>2, <2>3
<1>5. /\ \A i \in Creates : invoices[i].month = 0
      /\ \A i, j \in OpenInvoices(0) : i = j
      /\ \A d \in Creates : Billing(d)
      /\ used[0] <= Limit => OpenInvoices(0) = {}
      /\ \/ \E d \in Creates : pc[d] \in {"mark", "invoice", "upsert", "sum", "total"}
         \/ Billed
  BY <1>4 DEF InvoiceEvidence
<1>6. CASE FindByKey(c) \/ Check(c) \/ Create(c)
  <2>1. /\ UNCHANGED <<used, invoices, counted, billing>>
        /\ pc[c] \in {"idle", "check", "create"}
    BY <1>6 DEF FindByKey, Check, Create, rowVars, localVars
  <2>2. PICK to \in {"check", "create", "count", "repeated", "refused"} : Goes(c, to)
    BY <1>6 DEF FindByKey, Check, Create
  <2>3. \A d \in Creates : pc'[d] = IF d = c THEN to ELSE pc[d]
    BY <1>1, <2>2 DEF Goes
  <2>4. OpenInvoices(0)' = OpenInvoices(0)
    BY <2>1 DEF OpenInvoices
  <2>5. Billed => Billed'
    BY <2>1, <2>4 DEF Billed
  <2>6. ASSUME NEW d \in Creates PROVE Billing(d)'
    <3>1. CASE d = c
      BY <2>2, <2>3, <3>1 DEF Billing
    <3>2. CASE d # c
      <4>1. Billing(d) /\ pc'[d] = pc[d]
        BY <1>5, <2>3, <3>2
      <4> QED
        BY <2>1, <2>4, <4>1 DEF Billing
    <3> QED BY <3>1, <3>2
  <2> QED
    BY <1>5, <2>1, <2>3, <2>4, <2>5, <2>6
<1>7. CASE Count(c)
  <2>1. /\ UNCHANGED invoices /\ pc[c] = "count" /\ Goes(c, "mark")
    BY <1>7 DEF Count
  <2>2. c \in Running
    BY <2>1 DEF Running
  <2>3. (\A d \in Creates \ {c} : Billing(d)') /\ pc'[c] = "mark"
    BY <1>4, <2>1, <2>2, OthersBill
  <2>4. /\ counted'[c].count = used[0] + 1 /\ counted'[c].month = 0 /\ used'[0] = used[0] + 1
    BY <1>4, <1>7, CountWritten
  <2>5. Billing(c)'
    <3>1. counted'[c].count = used'[0] /\ counted'[c].month = 0
      BY <2>4
    <3> QED
      BY <2>3, <3>1 DEF Billing
  <2>6. OpenInvoices(0)' = OpenInvoices(0)
    BY <2>1 DEF OpenInvoices
  <2>7. used'[0] <= Limit => used[0] <= Limit
    BY <1>1, <2>4
  <2> QED
    BY <1>5, <2>1, <2>3, <2>5, <2>6, <2>7
<1>8. CASE MarkCounter(c)
  <2> DEFINE count == IF counted[c].due = {} THEN counted[c].count ELSE used[counted[c].month]
  <2>1. /\ UNCHANGED <<used, invoices, billing>> /\ pc[c] = "mark"
        /\ Goes(c, IF overage /\ count > Limit THEN "invoice" ELSE "done")
    BY <1>8 DEF MarkCounter, BillsOverage
  <2>2. counted[c].count = used[0] /\ counted[c].month = 0
    BY <1>5, <2>1 DEF Billing
  <2>3. count = used[0]
    BY <2>2
  <2>4. counted'[c].count = used[0] /\ counted'[c].month = 0
    BY <1>8, <2>2, MarkWritten
  <2> HIDE DEF count
  <2>5. PICK to : /\ to = IF used[0] > Limit THEN "invoice" ELSE "done"
                  /\ Goes(c, to)
    BY <1>4, <2>1, <2>3
  <2>6. c \in Running
    BY <2>1 DEF Running
  <2>7. \A d \in Creates \ {c} : Billing(d)'
    BY <1>4, <2>5, <2>6, OthersBill
  <2>8. pc'[c] = to
    BY <1>4, <2>5, <2>6, OthersBill
  <2>9. OpenInvoices(0)' = OpenInvoices(0)
    BY <2>1 DEF OpenInvoices
  <2>10. Billing(c)'
    BY <2>1, <2>4, <2>5, <2>8 DEF Billing
  <2>11. used[0] <= Limit => Billed'
    BY <1>1, <2>1 DEF Billed
  <2>12. used[0] > Limit => pc'[c] = "invoice"
    BY <2>5, <2>8
  <2>13. used[0] <= Limit \/ used[0] > Limit
    BY <1>1
  <2> QED
    BY <1>5, <2>1, <2>7, <2>9, <2>10, <2>11, <2>12, <2>13
<1>9. CASE FindInvoice(c)
  <2>1. UNCHANGED <<used, counted>> /\ pc[c] = "invoice" /\ Goes(c, "upsert")
    BY <1>9 DEF FindInvoice
  <2>2. c \in Running
    BY <2>1 DEF Running
  <2>3. (\A d \in Creates \ {c} : Billing(d)') /\ pc'[c] = "upsert"
    BY <1>4, <2>1, <2>2, OthersBill
  <2>4. counted[c].count = used[0] /\ counted[c].month = 0 /\ used[0] > Limit
    BY <1>5, <2>1 DEF Billing
  <2>5. /\ \A i \in Creates : invoices'[i].month = 0 /\ invoices'[i].open = invoices[i].open
        /\ OpenInvoices(0) \subseteq {billing'[c].invoice}
    <3>1. PICK b \in [invoice : Creates, sum : Nat] : b = billing[c]
      BY DEF MeteringTypeOK
    <3>2. CASE /\ OpenInvoices(0) = {}
               /\ billing' = [billing EXCEPT ![c].invoice = c]
               /\ invoices' = [invoices EXCEPT ![c].month = 0]
      <4>1. PICK x \in Invoice : x = invoices[c]
        BY <1>1
      <4>2. PICK y : y = [x EXCEPT !.month = 0]
        OBVIOUS
      <4>3. y.month = 0 /\ y.open = x.open
        BY <4>2 DEF Invoice
      <4>4. \A i \in Creates : invoices'[i] = IF i = c THEN y ELSE invoices[i]
        BY <1>1, <3>2, <4>1, <4>2
      <4> QED
        BY <1>5, <3>2, <4>1, <4>3, <4>4
    <3>3. CASE /\ \E i \in OpenInvoices(0) : billing' = [billing EXCEPT ![c].invoice = i]
               /\ UNCHANGED invoices
      <4>1. PICK i \in OpenInvoices(0) : billing' = [billing EXCEPT ![c].invoice = i]
        BY <3>3
      <4>2. billing' = [billing EXCEPT ![c] = [b EXCEPT !.invoice = i]]
        BY <3>1, <4>1
      <4>3. billing'[c] = [b EXCEPT !.invoice = i]
        BY <4>2 DEF MeteringTypeOK
      <4>4. billing'[c].invoice = i
        BY <4>3
      <4> QED
        BY <1>5, <3>3, <4>1, <4>4
    <3> QED
      BY <1>4, <1>9, <3>2, <3>3 DEF FindInvoice
  <2>6. OpenInvoices(0)' = OpenInvoices(0)
    BY <1>5, <2>5 DEF OpenInvoices
  <2>7. Billing(c)'
    BY <2>1, <2>3, <2>4, <2>5, <2>6 DEF Billing
  <2> QED
    BY <1>5, <2>1, <2>3, <2>5, <2>6, <2>7
<1>10. CASE UpsertOverage(c)
  <2>1. UNCHANGED <<used, counted, billing>> /\ pc[c] = "upsert" /\ Goes(c, "sum")
    BY <1>10 DEF UpsertOverage, localVars
  <2>2. c \in Running
    BY <2>1 DEF Running
  <2>3. (\A d \in Creates \ {c} : Billing(d)') /\ pc'[c] = "sum"
    BY <1>4, <2>1, <2>2, OthersBill
  <2>4. /\ counted[c].count = used[0] /\ used[0] > Limit
        /\ OpenInvoices(0) \subseteq {billing[c].invoice}
    BY <1>5, <2>1 DEF Billing
  <2>5. PICK k \in Creates : k = billing[c].invoice
    BY <1>1
  <2>6. PICK x \in Invoice : x = invoices[k]
    BY <1>1
  <2>7. PICK y : y = [x EXCEPT !.open = TRUE, !.quantity = used[0] - Limit]
    OBVIOUS
  <2>8. y.month = x.month /\ y.open /\ y.quantity = used[0] - Limit
    BY <2>7 DEF Invoice
  <2>9. \A i \in Creates : invoices'[i] = IF i = k THEN y ELSE invoices[i]
    <3>1. invoices' = [invoices EXCEPT ![k] = y]
      BY <1>10, <2>4, <2>5, <2>6, <2>7 DEF UpsertOverage
    <3> QED
      BY <1>1, <3>1
  <2>10. \A i \in Creates : invoices'[i].month = 0
    BY <1>5, <2>6, <2>8, <2>9
  <2>11. OpenInvoices(0)' = {k}
    BY <2>4, <2>5, <2>8, <2>9, <2>10, <1>5 DEF OpenInvoices
  <2>12. billing'[c].invoice = k /\ invoices'[k].quantity = used'[0] - Limit
    BY <2>1, <2>5, <2>8, <2>9
  <2>13. Billing(c)'
    BY <2>1, <2>3, <2>4, <2>11, <2>12 DEF Billing
  <2>14. ~(used'[0] <= Limit)
    BY <1>1, <2>1, <2>4
  <2> QED
    BY <2>3, <2>10, <2>11, <2>13, <2>14
<1>11. CASE SumInvoice(c)
  <2>1. UNCHANGED <<used, counted, invoices>> /\ pc[c] = "sum" /\ Goes(c, "total")
    BY <1>11 DEF SumInvoice, rowVars
  <2>2. c \in Running
    BY <2>1 DEF Running
  <2>3. (\A d \in Creates \ {c} : Billing(d)') /\ pc'[c] = "total"
    BY <1>4, <2>1, <2>2, OthersBill
  <2>4. /\ used[0] > Limit /\ OpenInvoices(0) = {billing[c].invoice}
        /\ invoices[billing[c].invoice].quantity = used[0] - Limit
    BY <1>5, <2>1 DEF Billing
  <2>5. PICK b \in [invoice : Creates, sum : Nat] : b = billing[c]
    BY DEF MeteringTypeOK
  <2>6. PICK y : y = [b EXCEPT !.sum = used[0] - Limit]
    OBVIOUS
  <2>7. y.invoice = b.invoice /\ y.sum = used[0] - Limit
    BY <2>6
  <2>8. billing'[c] = y
    <3>1. billing' = [billing EXCEPT ![c] = y]
      BY <1>11, <2>4, <2>5, <2>6 DEF SumInvoice
    <3> QED
      BY <3>1 DEF MeteringTypeOK
  <2>9. OpenInvoices(0)' = OpenInvoices(0)
    BY <2>1 DEF OpenInvoices
  <2>10. Billing(c)'
    BY <2>1, <2>3, <2>4, <2>5, <2>7, <2>8, <2>9 DEF Billing
  <2> QED
    BY <1>5, <2>1, <2>3, <2>9, <2>10
<1>12. CASE WriteTotal(c)
  <2>1. UNCHANGED <<used, counted, billing>> /\ pc[c] = "total" /\ Goes(c, "done")
    BY <1>12 DEF WriteTotal, localVars
  <2>2. c \in Running
    BY <2>1 DEF Running
  <2>3. (\A d \in Creates \ {c} : Billing(d)') /\ pc'[c] = "done"
    BY <1>4, <2>1, <2>2, OthersBill
  <2>4. PICK k \in Creates : k = billing[c].invoice
    BY <1>1
  <2>5. /\ used[0] > Limit /\ OpenInvoices(0) = {k}
        /\ invoices[k].quantity = used[0] - Limit /\ billing[c].sum = used[0] - Limit
    BY <1>5, <2>1, <2>4 DEF Billing
  <2>6. PICK x \in Invoice : x = invoices[k]
    BY <1>1
  <2>7. PICK y : y = [x EXCEPT !.total = used[0] - Limit]
    OBVIOUS
  <2>8. /\ y.month = x.month /\ y.open = x.open /\ y.quantity = x.quantity
        /\ y.total = used[0] - Limit
    BY <2>7 DEF Invoice
  <2>9. \A i \in Creates : invoices'[i] = IF i = k THEN y ELSE invoices[i]
    <3>1. invoices' = [invoices EXCEPT ![k] = y]
      BY <1>12, <2>4, <2>5, <2>6, <2>7 DEF WriteTotal
    <3> QED
      BY <1>1, <3>1
  <2>10. \A i \in Creates : /\ invoices'[i].month = invoices[i].month
                            /\ invoices'[i].open = invoices[i].open
    BY <2>6, <2>8, <2>9
  <2>11. OpenInvoices(0)' = {k}
    BY <2>5, <2>10 DEF OpenInvoices
  <2>12. Billing(c)'
    BY <2>3 DEF Billing
  <2>13. Billed'
    BY <2>1, <2>5, <2>6, <2>8, <2>9, <2>11 DEF Billed
  <2>14. ~(used'[0] <= Limit)
    BY <1>1, <2>1, <2>5
  <2> QED
    BY <1>5, <2>3, <2>10, <2>11, <2>12, <2>13, <2>14
<1> QED
  BY <1>3, <1>4, <1>6, <1>7, <1>8, <1>9, <1>10, <1>11, <1>12 DEF CreateStep

-----------------------------------------------------------------------------
(* The theorems                                                            *)

LEMMA MeteringEvidenceInit == MeteringInit => MeteringEvidence
<1> SUFFICES ASSUME MeteringInit PROVE MeteringEvidence
  OBVIOUS
<1> USE MeteringAssumption DEF MeteringInit
<1>1. MeteringTypeOK
  BY DEF MeteringTypeOK, MeteringPc, Months, Invoice, NoInvoice
<1>2. Running = {} /\ Pending = {} /\ Cardinality({}) = 0
  BY FS_EmptySet DEF Running, Pending
<1>3. Headroom
  BY <1>2 DEF Headroom, Months
<1>4. MarkEvidence /\ BilledAbove /\ OneIntentPerKey
  BY DEF MarkEvidence, BilledAbove, OneIntentPerKey
<1>5. CountEvidence
  <2>1. Uncounted = {} /\ \A m \in Months : CountedIn(m) = {}
    BY DEF Uncounted, CountedIn
  <2>2. /\ \A m \in Months : used[m] = Cardinality(CountedIn(m))
        /\ Cardinality(Uncounted) <= faults
    <3>1. (\A m \in Months : used[m] = 0) /\ faults = 0 /\ Cardinality({}) = 0
      BY <1>2
    <3>2. Cardinality(Uncounted) = 0 /\ \A m \in Months : Cardinality(CountedIn(m)) = 0
      BY <1>2, <2>1
    <3>3. \A m \in Months : used[m] = Cardinality(CountedIn(m))
      BY <3>1, <3>2
    <3>4. Cardinality(Uncounted) <= faults
      BY <3>1, <3>2
    <3> QED
      BY <3>3, <3>4
  <2>3. \A c \in Creates : /\ pc[c] = "idle" /\ c \notin created
                           /\ counted[c].count = 0 /\ counted[c].month = 0
    OBVIOUS
  <2>4. used[0] = 0
    BY DEF Months
  <2> QED
    BY <2>2, <2>3, <2>4 DEF CountEvidence
<1>6. InvoiceEvidence
  <2>1. OpenInvoices(0) = {}
    BY DEF OpenInvoices, NoInvoice
  <2> QED
    BY <2>1 DEF InvoiceEvidence, Billing, Billed, NoInvoice, Months
<1> QED
  BY <1>1, <1>2, <1>3, <1>4, <1>5, <1>6 DEF MeteringEvidence

LEMMA MeteringEvidenceStep ==
  MeteringEvidence /\ [MeteringNext]_meteringVars => MeteringEvidence'
<1> SUFFICES ASSUME MeteringEvidence, [MeteringNext]_meteringVars
             PROVE  MeteringEvidence'
  OBVIOUS
<1>1. CASE MeteringNext
  <2>1. overage' = overage
    BY <1>1 DEF MeteringNext, CreateStep, MonthTurns, FindByKey, Check, Create, Count, MarkCounter, BillsOverage,
      FindInvoice, UpsertOverage, SumInvoice, WriteTotal, CreateDies, contextVars
  <2>2. MeteringTypeOK /\ MeteringTypeOK' /\ BilledAbove'
    BY <1>1, MeteringTyped DEF MeteringEvidence
  <2>3. Cardinality(Running)' <= width'
    BY <1>1, <2>2, WidthStep DEF MeteringEvidence
  <2>4. ~overage => Headroom'
    BY <1>1, <2>2, HeadroomStep DEF MeteringEvidence
  <2>5. MarkEvidence' /\ OneIntentPerKey'
    BY <1>1, <2>2, MarkStep, KeyStep DEF MeteringEvidence, MeteringTypeOK
  <2>6. CountEvidence'
    BY <1>1, <2>2, CountStep DEF MeteringEvidence
  <2>7. InvoiceEvidence'
    BY <1>1, <2>2, InvoiceStep DEF MeteringEvidence
  <2> QED
    BY <2>1, <2>2, <2>3, <2>4, <2>5, <2>6, <2>7 DEF MeteringEvidence
<1>2. CASE UNCHANGED meteringVars
  <2> USE <1>2 DEF meteringVars, MeteringEvidence
  <2>1. MeteringTypeOK' /\ BilledAbove' /\ OneIntentPerKey'
    BY DEF MeteringTypeOK, BilledAbove, OneIntentPerKey
  <2>2. (Cardinality(Running) <= width)' /\ (~overage' => Headroom') /\ MarkEvidence'
    BY DEF Running, Headroom, Pending, MarkEvidence, WillMark
  <2>3. CountEvidence'
    BY DEF CountEvidence, Uncounted, CountedIn
  <2>4. InvoiceEvidence'
    BY DEF InvoiceEvidence, Billing, Billed, OpenInvoices
  <2> QED
    BY <2>1, <2>2, <2>3, <2>4
<1> QED
  BY <1>1, <1>2

\* The inductive invariant: what is counted, marked and billed agrees with
\* where each createIntent request stands.
THEOREM MeteringEvidenceHolds == MeteringSpec => []MeteringEvidence
BY MeteringEvidenceInit, MeteringEvidenceStep, PTL DEF MeteringSpec

\* Every row and local variable of createIntent and the functions it calls
\* keeps its type; in particular an invoiced quantity is never negative.
THEOREM MeteringTypeCorrect == MeteringSpec => []MeteringTypeOK
<1>1. MeteringEvidence => MeteringTypeOK
  BY DEF MeteringEvidence
<1> QED
  BY <1>1, MeteringEvidenceHolds, PTL

\* The limit check and the increment are steps apart: a plan without overage
\* is exceeded by fewer requests than run at once, in every month.
THEOREM LimitIsKept == MeteringSpec => []LimitHolds
<1>1. MeteringEvidence => LimitHolds
  <2> SUFFICES ASSUME MeteringEvidence, ~overage, NEW m \in Months
               PROVE  used[m] + 1 <= Limit + width
    BY DEF LimitHolds
  <2>1. Headroom /\ MeteringTypeOK
    BY DEF MeteringEvidence
  <2>2. /\ used \in [Months -> Nat] /\ month \in Nat /\ m \in Nat /\ Limit \in Nat
        /\ width \in Nat \ {0} /\ Cardinality(Pending) \in Nat
    BY <2>1, PendingIsRunning, MeteringAssumption DEF MeteringTypeOK, Months
  <2> QED
    BY <2>1, <2>2 DEF Headroom
<1> QED
  BY <1>1, MeteringEvidenceHolds, PTL

\* An idempotency key never stands for two intents.
THEOREM KeysAreUnique == MeteringSpec => []OneIntentPerKey
<1>1. MeteringEvidence => OneIntentPerKey
  BY DEF MeteringEvidence
<1> QED
  BY <1>1, MeteringEvidenceHolds, PTL

\* Once the requests have ended without faults, the two timestamps of a
\* counter are set exactly when its thresholds are reached.
THEOREM MarksAreRight == MeteringSpec => []MarksFollowCount
<1>1. MeteringEvidence => MarksFollowCount
  <2> SUFFICES ASSUME MeteringEvidence, Running = {}, faults = 0,
                      NEW m \in Months, used[m] > 0
               PROVE  marks[m] = Reached(used[m])
    BY DEF MarksFollowCount, Idle
  <2>1. \A k \in Mark : ~WillMark(k, m)
    BY DEF WillMark, Running
  <2>2. Reached(used[m]) \subseteq Mark
    BY DEF Reached
  <2> QED
    BY <2>1, <2>2 DEF MeteringEvidence, MarkEvidence
<1> QED
  BY <1>1, MeteringEvidenceHolds, PTL

\* Every intent is counted once, in one month, and of those that are not
\* counted there are no more than requests that failed.
THEOREM CountsAreRight == MeteringSpec => []IntentsAreCounted
<1>1. MeteringEvidence => IntentsAreCounted
  <2> SUFFICES ASSUME MeteringEvidence PROVE IntentsAreCounted
    OBVIOUS
  <2>1. \A m \in Months : used[m] = Cardinality(CountedIn(m))
    BY DEF MeteringEvidence, CountEvidence
  <2>2. ASSUME Idle PROVE {c \in created : counted[c].count = 0} = Uncounted
    BY <2>2 DEF Idle, Running, Uncounted, MeteringEvidence, MeteringTypeOK
  <2> QED
    BY <2>1, <2>2 DEF MeteringEvidence, CountEvidence, CountedIn, IntentsAreCounted
<1> QED
  BY <1>1, MeteringEvidenceHolds, PTL

\* Requests one at a time, within one month, leave one invoice with the units
\* above the limit, and none below it.
THEOREM OverageIsRight == MeteringSpec => []OverageIsInvoiced
<1>1. MeteringEvidence => OverageIsInvoiced
  <2> SUFFICES ASSUME MeteringEvidence, Running = {}, faults = 0, width = 1, month = 0, overage
               PROVE  IF used[0] > Limit
                        THEN \E i \in Creates : /\ OpenInvoices(0) = {i}
                                                /\ invoices[i].quantity = used[0] - Limit
                                                /\ invoices[i].total = used[0] - Limit
                        ELSE OpenInvoices(0) = {}
    BY DEF OverageIsInvoiced, Idle
  <2>1. \A c \in Creates : pc[c] \notin {"mark", "invoice", "upsert", "sum", "total"}
    BY DEF Running
  <2>2. Billed /\ (used[0] <= Limit => OpenInvoices(0) = {})
    BY <2>1 DEF MeteringEvidence, InvoiceEvidence
  <2>3. used[0] \in Nat /\ Limit \in Nat
    BY MeteringAssumption DEF MeteringEvidence, MeteringTypeOK, Months
  <2> QED
    BY <2>2, <2>3 DEF Billed
<1> QED
  BY <1>1, MeteringEvidenceHolds, PTL
=============================================================================
