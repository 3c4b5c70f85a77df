------------------------- MODULE AdministrationProofs -------------------------
(***************************************************************************)
(* Theorems about Administration, for any number of requests, keys and     *)
(* faults: type correctness, that a rotated key is out of use and has as   *)
(* many successors as requests overlapped at most, that the connectors     *)
(* exceed those of the plan by fewer than the requests that overlapped,    *)
(* and that an audit event has fewer successors than twice as many.        *)
(*                                                                         *)
(* The first two bounds count a request once its check has succeeded: what *)
(* it is going to add and what has been added stay below the bound         *)
(* together, since the checks succeed only while nothing has been added.   *)
(* The third follows an event as long as it is the latest one, when only   *)
(* requests that were stamped before it can follow it and leave it the     *)
(* latest, and after that, when no request reads it any more.              *)
(***************************************************************************)
EXTENDS Administration, FiniteSetTheorems, SequenceTheorems, WellFoundedInduction, TLAPS

USE AdministrationAssumption

Rotating(k) == {r \in Requests : call[r].at = "rotate" /\ call[r].key = k}
Adding == {r \in Requests : call[r].at = "connector"}

KeysFit ==
  \A k \in Keys :
    /\ keys[k].origin # Nothing \/ keys[k].revoked => keys[k].made
    /\ Heirs(k) # {} => keys[k].revoked
CallsFit ==
  \A r \in Requests : call[r].at \in {"revoke", "rotate"} =>
    call[r].key \in Keys /\ keys[call[r].key].made
HeirsBounded ==
  \A k \in Keys :
    IsFiniteSet(Heirs(k)) /\ Cardinality(Heirs(k)) + Cardinality(Rotating(k)) <= width
ConnectorsBounded == connectors + Cardinality(Adding) <= ConnectorLimit + width - 1

IInv == AdministrationTypeOK /\ KeysFit /\ CallsFit /\ HeirsBounded /\ ConnectorsBounded

\* The events that follow e, the requests that are about to append one more,
\* and those that may still do so although they were stamped before e was.
Children(e) == {d \in DOMAIN log : log[d].prev = e}
Readers(e) == {r \in Requests : call[r].at = "append" /\ call[r].prev = e}
Stale(e) ==
  {r \in Requests : /\ call[r].at \in {"latest", "append"}
                    /\ e # 0 /\ call[r].stamp < log[e].at}

\* e is not the latest event any more, and never will be again.
Superseded(e) ==
  \E d \in DOMAIN log :
    d # e /\ (e = 0 \/ log[e].at < log[d].at \/ (log[e].at = log[d].at /\ e < d))

ChainFits ==
  /\ \A d \in DOMAIN log : log[d].prev \in 0..Len(log) /\ log[d].at <= clock
  /\ \A r \in Requests : /\ call[r].at = "append" => call[r].prev \in 0..Len(log)
                         /\ call[r].at \in {"latest", "append"} => call[r].stamp <= clock

\* While e is the latest event only stale requests have followed it.  The first
\* other one supersedes it, and the rest of those that have read it are few.
ForksFew(e) ==
  IF Superseded(e)
    THEN Cardinality(Children(e)) + Cardinality(Readers(e)) <= 2 * width - 1
    ELSE Cardinality(Children(e)) + Cardinality(Stale(e)) <= width - 1

ChainInv ==
  Cardinality(Running) <= width /\ ChainFits /\ \A e \in 0..Len(log) : ForksFew(e)

-----------------------------------------------------------------------------
(* The latest event                                                        *)

LEMMA Least ==
  ASSUME NEW S \in SUBSET Nat, S # {}
  PROVE  \E m \in S : \A n \in S : m <= n
<1>1. PICK m \in S : \A n \in S : <<n, m>> \notin OpToRel(<, Nat)
  BY NatLessThanWellFounded, WFMin
<1>2. \A n \in S : n < m => <<n, m>> \in OpToRel(<, Nat)
  BY DEF OpToRel
<1>3. \A n \in S : ~(n < m)
  BY <1>1, <1>2
<1> QED BY <1>3

\* There is one last event, so that the CHOOSE of Latest chooses it.
LEMMA LatestIsEvent ==
  ASSUME log \in Seq(Event)
  PROVE  Latest \in 0..Len(log) /\ ~Superseded(Latest)
<1>1. CASE log = <<>>
  BY <1>1 DEF Latest, Superseded
<1>2. CASE log # <<>>
  <2>1. DOMAIN log = 1..Len(log) /\ Len(log) \in Nat /\ Len(log) # 0
    BY <1>2, LenProperties
  <2>2. ASSUME NEW e \in DOMAIN log
        PROVE  log[e].at \in Nat /\ log[e].at <= LastTime
    <3>1. log[e] \in Event
      BY <2>1, <2>2, ElementOfSeq
    <3>2. log[e].at \in 0..LastTime
      BY <3>1 DEF Event, Time
    <3> QED BY <3>2
  <2> DEFINE ages == {LastTime - log[e].at : e \in DOMAIN log}
  <2>3. ages \in SUBSET Nat /\ LastTime - log[1].at \in ages
    BY <2>1, <2>2
  <2>4. PICK a \in ages : \A n \in ages : a <= n
    BY <2>3, Least
  <2>5. PICK f \in DOMAIN log : a = LastTime - log[f].at
    BY <2>4
  <2>6. ASSUME NEW e \in DOMAIN log
        PROVE  log[e].at <= log[f].at
    <3>1. LastTime - log[f].at <= LastTime - log[e].at
      BY <2>4, <2>5
    <3> QED BY <2>2, <3>1
  <2> DEFINE ranks == {Len(log) - e : e \in {d \in DOMAIN log : log[d].at = log[f].at}}
  <2>7. ranks \in SUBSET Nat /\ Len(log) - f \in ranks
    BY <2>1, <2>5
  <2>8. PICK b \in ranks : \A n \in ranks : b <= n
    BY <2>7, Least
  <2>9. PICK e \in DOMAIN log : log[e].at = log[f].at /\ b = Len(log) - e
    BY <2>8
  <2>10. ASSUME NEW d \in DOMAIN log, d # e
         PROVE  log[d].at < log[e].at \/ (log[d].at = log[e].at /\ d < e)
    <3>1. CASE log[d].at = log[f].at
      <4>1. b <= Len(log) - d
        BY <2>8, <3>1
      <4> QED
        BY <2>1, <2>9, <2>10, <3>1, <4>1
    <3>2. CASE log[d].at # log[f].at
      BY <2>2, <2>6, <2>9, <3>2
    <3> QED BY <3>1, <3>2
  <2>11. \E x \in DOMAIN log : \A d \in DOMAIN log \ {x} :
           log[d].at < log[x].at \/ (log[d].at = log[x].at /\ d < x)
    BY <2>10
  <2>12. /\ Latest \in DOMAIN log
         /\ \A d \in DOMAIN log \ {Latest} :
              log[d].at < log[Latest].at \/ (log[d].at = log[Latest].at /\ d < Latest)
    BY <1>2, <2>11 DEF Latest
  <2>13. ~Superseded(Latest)
    <3>1. PICK l \in DOMAIN log : l = Latest
      BY <2>12
    <3>2. l \in Nat /\ l # 0 /\ log[l].at \in Nat
      BY <2>1, <2>2
    <3>3. ASSUME NEW d \in DOMAIN log, d # l
          PROVE  ~(l = 0 \/ log[l].at < log[d].at \/ (log[l].at = log[d].at /\ l < d))
      <4>1. log[d].at < log[l].at \/ (log[d].at = log[l].at /\ d < l)
        BY <2>12, <3>1, <3>3
      <4>2. d \in Nat /\ log[d].at \in Nat
        BY <2>1, <2>2
      <4> QED
        BY <3>2, <4>1, <4>2
    <3> QED
      BY <3>1, <3>3 DEF Superseded
  <2> QED
    BY <2>1, <2>12, <2>13
<1> QED BY <1>1, <1>2

-----------------------------------------------------------------------------
(* What every step keeps                                                   *)

CallFits(c) == c.at \in {"revoke", "rotate"} => c.key \in Keys /\ keys[c.key].made

RowsTyped ==
  /\ keys' \in [Keys -> Key]
  /\ policies' \subseteq Catalog
  /\ connectors' \in Nat
  /\ customer' \in Customer
  /\ log' \in Seq(Event)
  /\ clock' \in Time
  /\ ops' \in 0..MaxOps
  /\ faults' \in 0..MaxFaults

HeirsKept == \A k \in Keys : Heirs(k)' = Heirs(k)
KeysStay == \A k \in Keys : keys[k].made => keys'[k].made

LEMMA Counts ==
  ASSUME IInv
  PROVE  /\ width \in Nat /\ connectors \in Nat
         /\ IsFiniteSet(Adding) /\ Cardinality(Adding) \in Nat
         /\ IsFiniteSet(Running) /\ Cardinality(Running) \in Nat
         /\ \A k \in Keys : /\ IsFiniteSet(Rotating(k)) /\ Cardinality(Rotating(k)) \in Nat
                            /\ IsFiniteSet(Heirs(k)) /\ Cardinality(Heirs(k)) \in Nat
<1>1. width \in Nat /\ connectors \in Nat
  BY DEF IInv, AdministrationTypeOK
<1>2. Adding \in SUBSET Requests /\ Running \in SUBSET Requests
  BY DEF Adding, Running
<1>3. \A k \in Keys : Rotating(k) \in SUBSET Requests
  BY DEF Rotating
<1>4. \A S \in SUBSET Requests : IsFiniteSet(S) /\ Cardinality(S) \in Nat
  BY FS_Subset, FS_CardinalityType
<1>5. \A k \in Keys : IsFiniteSet(Heirs(k)) /\ Cardinality(Heirs(k)) \in Nat
  BY FS_CardinalityType DEF IInv, HeirsBounded
<1> QED
  BY <1>1, <1>2, <1>3, <1>4, <1>5

\* A set that has not grown has no more elements.
LEMMA NoMore ==
  ASSUME NEW S, NEW T, IsFiniteSet(S), T \subseteq S
  PROVE  /\ IsFiniteSet(T) /\ Cardinality(T) \in Nat /\ Cardinality(S) \in Nat
         /\ Cardinality(T) <= Cardinality(S)
BY FS_Subset, FS_CardinalityType

LEMMA CallChanges ==
  ASSUME IInv, NEW r \in Requests, NEW c \in Call, call' = [call EXCEPT ![r] = c], KeysStay
  PROVE  /\ call' \in [Requests -> Call] /\ call'[r] = c
         /\ \A q \in Requests \ {r} : call'[q] = call[q]
         /\ CallFits(c) => CallsFit'
<1>1. /\ call' \in [Requests -> Call] /\ call'[r] = c
      /\ \A q \in Requests \ {r} : call'[q] = call[q]
  BY DEF IInv, AdministrationTypeOK
<1>2. CallFits(c) => CallsFit'
  BY <1>1 DEF CallFits, CallsFit, IInv, KeysStay
<1> QED BY <1>1, <1>2

\* A request that is not going to add anything.
LEMMA OrdinaryStep ==
  ASSUME IInv, NEW r \in Requests, NEW c \in Call, call' = [call EXCEPT ![r] = c],
         CallFits(c), c.at \notin {"rotate", "connector"}, RowsTyped, KeysFit', HeirsKept, KeysStay,
         UNCHANGED width, connectors' = connectors
  PROVE  IInv'
<1>1. AdministrationTypeOK' /\ CallsFit'
  BY CallChanges DEF AdministrationTypeOK, RowsTyped, IInv
<1>2. Adding' \subseteq Adding
  BY CallChanges DEF Adding
<1>3. ConnectorsBounded'
  <2>1. /\ Cardinality(Adding)' \in Nat /\ Cardinality(Adding) \in Nat
        /\ Cardinality(Adding)' <= Cardinality(Adding)
    BY <1>2, Counts, NoMore
  <2> QED
    BY <2>1, Counts DEF IInv, ConnectorsBounded
<1>4. ASSUME NEW k \in Keys
      PROVE  /\ IsFiniteSet(Heirs(k))'
             /\ Cardinality(Heirs(k))' + Cardinality(Rotating(k))' <= width'
  <2>1. Rotating(k)' \subseteq Rotating(k)
    BY CallChanges DEF Rotating
  <2>2. /\ Cardinality(Rotating(k))' \in Nat /\ Cardinality(Rotating(k)) \in Nat
        /\ Cardinality(Rotating(k))' <= Cardinality(Rotating(k))
    BY <2>1, Counts, NoMore
  <2>3. Heirs(k)' = Heirs(k)
    BY DEF HeirsKept
  <2> QED
    BY <2>2, <2>3, Counts DEF IInv, HeirsBounded
<1> QED
  BY <1>1, <1>3, <1>4 DEF IInv, HeirsBounded

LEMMA Asking ==
  ASSUME NEW at \in Step, NEW k \in Keys \cup {Nothing}, NEW p \in Profiles \cup {Nothing},
         NEW coupon \in Coupons \cup {Nothing}
  PROVE  /\ Has(at, k, p, coupon) \in Call
         /\ Has(at, k, p, coupon).at = at /\ Has(at, k, p, coupon).key = k
<1>1. 0 \in Time
  BY DEF Time
<1> QED
  BY <1>1 DEF Has, Call

LEMMA CallFacts ==
  ASSUME IInv, NEW r \in Requests
  PROVE  /\ call[r] \in Call /\ CallFits(call[r]) /\ call \in [Requests -> Call]
         /\ Idle \in Call /\ Idle.at = "idle"
<1>1. call[r] \in Call /\ CallFits(call[r]) /\ call \in [Requests -> Call]
  BY DEF IInv, AdministrationTypeOK, CallsFit, CallFits
<1>2. Idle \in Call /\ Idle.at = "idle"
  BY Asking DEF Idle, Step
<1> QED BY <1>1, <1>2

LEMMA KeysUntouched ==
  ASSUME IInv, UNCHANGED keys
  PROVE  KeysFit' /\ HeirsKept /\ KeysStay
BY DEF IInv, KeysFit, HeirsKept, KeysStay, Heirs

LEMMA RowsUntouched ==
  ASSUME IInv, UNCHANGED <<rowVars, log, clock, ops, faults>>
  PROVE  RowsTyped
BY DEF IInv, AdministrationTypeOK, RowsTyped, rowVars

\* A request starts, goes on or ends, and what is left of the bounds is spent.
LEMMA BoundsSpent ==
  ASSUME IInv,
         \/ UNCHANGED <<ops, faults>>
         \/ ops > 0 /\ ops' = ops - 1 /\ UNCHANGED faults
         \/ faults > 0 /\ faults' = faults - 1 /\ UNCHANGED ops
  PROVE  ops' \in 0..MaxOps /\ faults' \in 0..MaxFaults
<1>1. /\ ops \in Nat /\ ops <= MaxOps /\ faults \in Nat /\ faults <= MaxFaults
  BY DEF IInv, AdministrationTypeOK
<1> QED BY <1>1

\* As a request's check succeeds, all that run at once might add.
LEMMA StartsRunning ==
  ASSUME IInv, NEW r \in Requests, NEW c \in Call, Starts(r, c), NEW T,
         T \subseteq Running \cup {r}
  PROVE  Cardinality(T) \in Nat /\ Cardinality(T) <= width
<1>1. IsFiniteSet(Running \cup {r}) /\ Cardinality(Running \cup {r}) = Cardinality(Running) + 1
  BY Counts, FS_AddElement DEF Starts, Running
<1>2. Cardinality(Running) < width
  BY DEF Starts
<1>3. /\ Cardinality(T) \in Nat /\ Cardinality(T) <= Cardinality(Running \cup {r})
      /\ Cardinality(Running \cup {r}) \in Nat
  BY <1>1, NoMore
<1> QED
  BY <1>1, <1>2, <1>3, Counts

-----------------------------------------------------------------------------
(* The actions on keys                                                     *)

LEMMA TickStep ==
  ASSUME IInv, Tick
  PROVE  IInv'
<1>1. AdministrationTypeOK'
  <2>1. clock' \in Time
    BY DEF Tick, IInv, AdministrationTypeOK, Time
  <2> QED
    BY <2>1 DEF Tick, IInv, AdministrationTypeOK, rowVars, boundVars
<1>2. KeysFit' /\ CallsFit' /\ HeirsBounded' /\ ConnectorsBounded'
  BY DEF Tick, IInv, KeysFit, CallsFit, HeirsBounded, ConnectorsBounded, Heirs, Rotating,
         Adding, rowVars, boundVars
<1> QED BY <1>1, <1>2 DEF IInv

LEMMA CreateKeyStep ==
  ASSUME IInv, NEW r \in Requests, CreateKey(r)
  PROVE  IInv'
<1>1. PICK k \in Keys, expiry \in FreshExpiries :
        /\ ~keys[k].made
        /\ keys' = [keys EXCEPT ![k] = [made |-> TRUE, revoked |-> FALSE, origin |-> Nothing,
                                        expiry |-> expiry]]
        /\ Starts(r, Has("stamp", Nothing, Nothing, Nothing))
        /\ UNCHANGED <<policies, connectors, customer, log, clock>>
  BY DEF CreateKey
<1> DEFINE new == [made |-> TRUE, revoked |-> FALSE, origin |-> Nothing, expiry |-> expiry]
           c == Has("stamp", Nothing, Nothing, Nothing)
<1>2. expiry \in Nat /\ keys \in [Keys -> Key]
  BY DEF IInv, AdministrationTypeOK, Time, FreshExpiries
<1>3. new \in Key /\ new.origin = Nothing /\ new.made
  BY <1>2 DEF Key
<1>4. keys' = [keys EXCEPT ![k] = new]
  BY <1>1
<1>5. c \in Call /\ CallFits(c) /\ c.at = "stamp"
  BY Asking DEF Step, CallFits
<1>6. keys[k].origin = Nothing
  BY <1>1 DEF IInv, KeysFit
<1> HIDE DEF new, c
<1>7. keys' \in [Keys -> Key] /\ keys'[k] = new /\ \A h \in Keys \ {k} : keys'[h] = keys[h]
  BY <1>2, <1>3, <1>4
<1>8. KeysStay
  BY <1>3, <1>7 DEF KeysStay
<1>9. \A h \in Keys : keys'[h].origin = keys[h].origin
  BY <1>3, <1>6, <1>7
<1>10. HeirsKept
  BY <1>9 DEF HeirsKept, Heirs
<1>11. Heirs(k) = {}
  BY <1>1 DEF IInv, KeysFit
<1>12. KeysFit'
  <2>1. ASSUME NEW h \in Keys, h # k
        PROVE  /\ keys'[h].origin # Nothing \/ keys'[h].revoked => keys'[h].made
               /\ Heirs(h)' # {} => keys'[h].revoked
    BY <1>7, <1>10, <2>1 DEF HeirsKept, IInv, KeysFit
  <2>2. Heirs(k)' = {}
    BY <1>10, <1>11 DEF HeirsKept
  <2> QED
    BY <1>3, <1>7, <2>1, <2>2 DEF KeysFit
<1>13. RowsTyped /\ UNCHANGED width
  <2>1. ops > 0 /\ ops' = ops - 1 /\ UNCHANGED <<width, faults>>
    BY <1>1 DEF Starts
  <2> QED
    BY <1>1, <1>7, <2>1, BoundsSpent DEF RowsTyped, IInv, AdministrationTypeOK
<1>14. call' = [call EXCEPT ![r] = c] /\ connectors' = connectors
  BY <1>1 DEF Starts, Becomes, c
<1> QED
  BY <1>5, <1>8, <1>10, <1>12, <1>13, <1>14, OrdinaryStep

\* What a request that starts does to the bounds, the rows being left alone.
LEMMA StartingFacts ==
  ASSUME IInv, NEW r \in Requests, NEW c \in Call, Starts(r, c),
         UNCHANGED <<rowVars, log, clock>>
  PROVE  /\ RowsTyped /\ UNCHANGED width /\ call' = [call EXCEPT ![r] = c]
         /\ KeysFit' /\ HeirsKept /\ KeysStay /\ connectors' = connectors
<1>1. /\ ops > 0 /\ ops' = ops - 1 /\ UNCHANGED <<width, faults>>
      /\ call' = [call EXCEPT ![r] = c]
  BY DEF Starts, Becomes
<1>2. KeysFit' /\ HeirsKept /\ KeysStay /\ connectors' = connectors
  BY KeysUntouched DEF rowVars
<1>3. RowsTyped
  BY <1>1, BoundsSpent DEF RowsTyped, IInv, AdministrationTypeOK, rowVars
<1> QED BY <1>1, <1>2, <1>3

\* A request that starts and is not going to add anything.
LEMMA OrdinaryStart ==
  ASSUME IInv, NEW r \in Requests, NEW c \in Call, Starts(r, c),
         CallFits(c), c.at \notin {"rotate", "connector"}, UNCHANGED <<rowVars, log, clock>>
  PROVE  IInv'
BY StartingFacts, OrdinaryStep

LEMMA FindKeyStep ==
  ASSUME IInv, NEW r \in Requests, FindKey(r)
  PROVE  IInv'
<1>1. PICK k \in Keys, at \in {"revoke", "rotate"} :
        /\ keys[k].made /\ ~keys[k].revoked
        /\ Starts(r, Has(at, k, Nothing, Nothing))
        /\ UNCHANGED <<rowVars, log, clock>>
  BY DEF FindKey
<1> DEFINE c == Has(at, k, Nothing, Nothing)
<1>2. c \in Call /\ CallFits(c) /\ c.at = at /\ c.key = k
  <2>1. c \in Call /\ c.at = at /\ c.key = k
    BY Asking DEF Step
  <2> QED
    BY <1>1, <2>1 DEF CallFits
<1> HIDE DEF c
<1>3. Starts(r, c)
  BY <1>1 DEF c
<1>4. CASE at = "revoke"
  BY <1>1, <1>2, <1>3, <1>4, OrdinaryStart
<1>5. CASE at = "rotate"
  <2>1. /\ RowsTyped /\ UNCHANGED width /\ call' = [call EXCEPT ![r] = c]
        /\ KeysFit' /\ HeirsKept /\ KeysStay /\ connectors' = connectors
    BY <1>1, <1>2, <1>3, StartingFacts
  <2>2. /\ call' \in [Requests -> Call] /\ call'[r] = c /\ CallsFit'
        /\ \A q \in Requests \ {r} : call'[q] = call[q]
    BY <1>2, <2>1, CallChanges
  <2>3. AdministrationTypeOK'
    BY <2>1, <2>2 DEF IInv, AdministrationTypeOK, RowsTyped
  <2>4. ConnectorsBounded'
    <3>1. Adding' \subseteq Adding
      BY <1>2, <1>5, <2>2 DEF Adding
    <3>2. /\ Cardinality(Adding)' \in Nat /\ Cardinality(Adding) \in Nat
          /\ Cardinality(Adding)' <= Cardinality(Adding)
      BY <3>1, Counts, NoMore
    <3> QED
      BY <2>1, <3>2, Counts DEF IInv, ConnectorsBounded
  <2>5. ASSUME NEW h \in Keys
        PROVE  /\ IsFiniteSet(Heirs(h))'
               /\ Cardinality(Heirs(h))' + Cardinality(Rotating(h))' <= width'
    <3>1. Heirs(h)' = Heirs(h)
      BY <2>1 DEF HeirsKept
    <3>2. CASE h = k
      <4>1. Heirs(h)' = {}
        BY <1>1, <3>1, <3>2 DEF IInv, KeysFit
      <4>2. Rotating(h)' \subseteq Running \cup {r}
        BY <2>2 DEF Rotating, Running
      <4>3. Cardinality(Rotating(h))' \in Nat /\ Cardinality(Rotating(h))' <= width
        BY <1>2, <1>3, <4>2, StartsRunning
      <4> QED
        BY <2>1, <4>1, <4>3, FS_EmptySet
    <3>3. CASE h # k
      <4>1. Rotating(h)' \subseteq Rotating(h)
        BY <1>2, <2>2, <3>3 DEF Rotating
      <4>2. /\ Cardinality(Rotating(h))' \in Nat /\ Cardinality(Rotating(h)) \in Nat
            /\ Cardinality(Rotating(h))' <= Cardinality(Rotating(h))
        BY <4>1, Counts, NoMore
      <4> QED
        BY <2>1, <3>1, <4>2, Counts DEF IInv, HeirsBounded
    <3> QED BY <3>2, <3>3
  <2> QED
    BY <2>1, <2>2, <2>3, <2>4, <2>5 DEF IInv, HeirsBounded
<1> QED BY <1>4, <1>5

\* A request that goes on to another of its steps.
LEMMA GoingOn ==
  ASSUME IInv, NEW r \in Requests, NEW to \in Step, Goes(r, to)
  PROVE  \E c \in Call : /\ call' = [call EXCEPT ![r] = c] /\ c.at = to
                         /\ UNCHANGED boundVars
<1> DEFINE c == [call[r] EXCEPT !.at = to]
<1>1. c \in Call /\ c.at = to /\ call \in [Requests -> Call]
  BY CallFacts DEF Call
<1>2. call' = [call EXCEPT ![r] = c]
  BY CallFacts DEF Goes
<1>3. UNCHANGED boundVars
  BY DEF Goes
<1> HIDE DEF c
<1> QED BY <1>1, <1>2, <1>3

\* What a request writes, before it goes on to its event.
LEMMA OrdinaryWrite ==
  ASSUME IInv, NEW r \in Requests, Goes(r, "stamp"), RowsTyped, KeysFit', HeirsKept, KeysStay,
         connectors' = connectors
  PROVE  IInv'
<1>1. PICK c \in Call : call' = [call EXCEPT ![r] = c] /\ c.at = "stamp"
  BY GoingOn DEF Step
<1>2. CallFits(c) /\ UNCHANGED width
  BY <1>1 DEF CallFits, Goes, boundVars
<1> QED
  BY <1>1, <1>2, OrdinaryStep

LEMMA RevokeKeyStep ==
  ASSUME IInv, NEW r \in Requests, RevokeKey(r)
  PROVE  IInv'
<1> DEFINE k == call[r].key
<1>1. /\ k \in Keys /\ keys[k].made /\ keys \in [Keys -> Key]
      /\ keys' = [keys EXCEPT ![k].revoked = TRUE]
      /\ Goes(r, "stamp") /\ UNCHANGED <<policies, connectors, customer, log, clock>>
  BY DEF RevokeKey, Audits, IInv, CallsFit, AdministrationTypeOK
<1> HIDE DEF k
<1>2. /\ keys' \in [Keys -> Key]
      /\ \A h \in Keys : /\ keys'[h].origin = keys[h].origin /\ keys'[h].made = keys[h].made
                         /\ keys'[h].revoked = (keys[h].revoked \/ h = k)
  BY <1>1 DEF Key
<1>3. HeirsKept /\ KeysStay
  BY <1>2 DEF HeirsKept, Heirs, KeysStay
<1>4. KeysFit'
  BY <1>1, <1>2, <1>3 DEF KeysFit, HeirsKept, IInv
<1>5. RowsTyped
  BY <1>1, <1>2 DEF RowsTyped, IInv, AdministrationTypeOK, Goes, boundVars
<1> QED
  BY <1>1, <1>3, <1>4, <1>5, OrdinaryWrite

LEMMA RotatedExpiryIsTime ==
  ASSUME IInv, NEW k \in Keys
  PROVE  RotatedExpiry(keys[k].expiry) \in Nat
BY DEF RotatedExpiry, IInv, AdministrationTypeOK, Key, Time

\* The request that rotates k is one heir of k more, and one rotation less.
LEMMA RotateKeyStep ==
  ASSUME IInv, NEW r \in Requests, RotateKey(r)
  PROVE  IInv'
<1>1. PICK o \in Keys : o = call[r].key
  BY DEF RotateKey, Audits, IInv, CallsFit
<1>2. PICK n \in Keys :
        /\ ~keys[n].made
        /\ keys' = [keys EXCEPT ![o].revoked = TRUE,
                                ![n] = [made |-> TRUE, revoked |-> FALSE, origin |-> o,
                                        expiry |-> RotatedExpiry(keys[o].expiry)]]
  BY <1>1 DEF RotateKey, Audits
<1>3. /\ o \in Keys /\ keys[o].made /\ keys \in [Keys -> Key] /\ call[r].at = "rotate"
      /\ Goes(r, "stamp") /\ UNCHANGED <<policies, connectors, customer, log, clock>>
  BY <1>1 DEF RotateKey, Audits, IInv, CallsFit, AdministrationTypeOK
<1>4. r \in Rotating(o)
  BY <1>1, <1>3 DEF Rotating
<1>5. \A k \in Keys \ {o} : r \notin Rotating(k)
  BY <1>1 DEF Rotating
<1>6. PICK c \in Call : call' = [call EXCEPT ![r] = c] /\ c.at = "stamp"
  BY <1>3, GoingOn DEF Step
<1>7. UNCHANGED <<width, ops, faults>>
  BY <1>3 DEF Goes, boundVars
<1>8. RotatedExpiry(keys[o].expiry) \in Nat
  BY <1>3, RotatedExpiryIsTime
<1> DEFINE new == [made |-> TRUE, revoked |-> FALSE, origin |-> o,
                   expiry |-> RotatedExpiry(keys[o].expiry)]
<1>9. new \in Key /\ new.made /\ ~new.revoked /\ new.origin = o
  BY <1>3, <1>8 DEF Key
<1>10. keys' = [keys EXCEPT ![o].revoked = TRUE, ![n] = new]
  BY <1>2
<1> HIDE DEF new
<1>11. o # n
  BY <1>2, <1>3
<1>12. /\ keys' \in [Keys -> Key] /\ keys'[n] = new
       /\ \A h \in Keys \ {n} :
            /\ keys'[h].origin = keys[h].origin /\ keys'[h].made = keys[h].made
            /\ keys'[h].revoked = (keys[h].revoked \/ h = o)
  BY <1>3, <1>9, <1>10, <1>11 DEF Key
<1>13. KeysStay
  BY <1>9, <1>12 DEF KeysStay
<1>14. /\ call' \in [Requests -> Call] /\ call'[r] = c /\ CallsFit'
       /\ \A q \in Requests \ {r} : call'[q] = call[q]
  BY <1>6, <1>13, CallChanges DEF CallFits
<1>15. AdministrationTypeOK'
  BY <1>3, <1>7, <1>12, <1>14 DEF IInv, AdministrationTypeOK
<1>16. keys[n].origin = Nothing /\ n \notin Heirs(o) /\ Heirs(n) = {}
  BY <1>2, <1>3 DEF IInv, KeysFit, Heirs
<1>17. Heirs(o)' = Heirs(o) \cup {n} /\ \A k \in Keys \ {o} : Heirs(k)' = Heirs(k)
  <2>1. /\ keys'[n].origin = o /\ keys[n].origin = Nothing /\ Nothing \notin Keys
        /\ \A h \in Keys \ {n} : keys'[h].origin = keys[h].origin
    BY <1>9, <1>12, <1>16
  <2>2. ASSUME NEW k \in Keys \ {o}
        PROVE  Heirs(k)' = Heirs(k)
    <3>1. \A h \in Keys : keys'[h].origin = k <=> keys[h].origin = k
      BY <2>1, <2>2
    <3> QED
      BY <3>1 DEF Heirs
  <2>3. Heirs(o)' = Heirs(o) \cup {n}
    <3>1. \A h \in Keys : keys'[h].origin = o <=> keys[h].origin = o \/ h = n
      BY <2>1
    <3> QED
      BY <3>1 DEF Heirs
  <2> QED
    BY <2>2, <2>3
<1>18. KeysFit'
  <2>1. ASSUME NEW h \in Keys
        PROVE  keys'[h].origin # Nothing \/ keys'[h].revoked => keys'[h].made
    BY <1>3, <1>9, <1>12 DEF IInv, KeysFit
  <2>2. ASSUME NEW h \in Keys, Heirs(h)' # {}
        PROVE  keys'[h].revoked
    BY <1>3, <1>11, <1>12, <1>16, <1>17, <2>2 DEF IInv, KeysFit
  <2> QED
    BY <2>1, <2>2 DEF KeysFit
<1>19. ConnectorsBounded'
  <2>1. Adding' \subseteq Adding
    BY <1>6, <1>14 DEF Adding
  <2>2. /\ Cardinality(Adding)' \in Nat /\ Cardinality(Adding) \in Nat
        /\ Cardinality(Adding)' <= Cardinality(Adding)
    BY <2>1, Counts, NoMore
  <2> QED
    BY <1>3, <1>7, <2>2, Counts DEF IInv, ConnectorsBounded
<1>20. ASSUME NEW k \in Keys
       PROVE  /\ IsFiniteSet(Heirs(k))'
              /\ Cardinality(Heirs(k))' + Cardinality(Rotating(k))' <= width'
  <2>1. CASE k = o
    <3>1. /\ IsFiniteSet(Heirs(k))'
          /\ Cardinality(Heirs(k))' = Cardinality(Heirs(k)) + 1
      <4>1. /\ IsFiniteSet(Heirs(o) \cup {n})
            /\ Cardinality(Heirs(o) \cup {n}) = Cardinality(Heirs(o)) + 1
        BY <1>3, <1>16, Counts, FS_AddElement
      <4>2. Heirs(k)' = Heirs(k) \cup {n}
        BY <1>17, <2>1 DEF Heirs
      <4> QED
        BY <2>1, <4>1, <4>2
    <3>2. Rotating(k)' = Rotating(k) \ {r}
      BY <1>6, <1>14, <2>1 DEF Rotating
    <3>3. Cardinality(Rotating(k))' = Cardinality(Rotating(k)) - 1
      <4>1. Cardinality(Rotating(o) \ {r}) = Cardinality(Rotating(o)) - 1
        BY <1>3, <1>4, Counts, FS_RemoveElement
      <4> QED
        BY <2>1, <3>2, <4>1
    <3> QED
      BY <1>7, <3>1, <3>3, Counts DEF IInv, HeirsBounded
  <2>2. CASE k # o
    <3>1. Rotating(k)' \subseteq Rotating(k)
      BY <1>6, <1>14 DEF Rotating
    <3>2. /\ Cardinality(Rotating(k))' \in Nat /\ Cardinality(Rotating(k)) \in Nat
          /\ Cardinality(Rotating(k))' <= Cardinality(Rotating(k))
      BY <3>1, Counts, NoMore
    <3> QED
      BY <1>7, <1>17, <2>2, <3>2, Counts DEF IInv, HeirsBounded
  <2> QED BY <2>1, <2>2
<1> QED
  BY <1>14, <1>15, <1>18, <1>19, <1>20 DEF IInv, HeirsBounded

-----------------------------------------------------------------------------
(* The actions on the billing profile, policies, connectors and the log    *)

LEMMA FindCustomerStep ==
  ASSUME IInv, NEW r \in Requests, FindCustomer(r)
  PROVE  IInv'
<1>1. customer.tax \in Profiles \cup {Nothing} /\ customer.coupon \in Coupons \cup {Nothing}
  BY DEF IInv, AdministrationTypeOK, Customer
<1>2. UNCHANGED <<rowVars, log, clock>>
  BY DEF FindCustomer
<1>3. ASSUME NEW p \in Profiles, Starts(r, Has("profile", Nothing, p, customer.coupon))
      PROVE  IInv'
  <2>1. PICK c \in Call : c = Has("profile", Nothing, p, customer.coupon) /\ c.at = "profile"
    BY <1>1, Asking DEF Step
  <2> QED
    BY <1>2, <1>3, <2>1, OrdinaryStart DEF CallFits
<1>4. ASSUME NEW coupon \in Coupons, Starts(r, Has("coupon", Nothing, customer.tax, coupon))
      PROVE  IInv'
  <2>1. PICK c \in Call : c = Has("coupon", Nothing, customer.tax, coupon) /\ c.at = "coupon"
    BY <1>1, Asking DEF Step
  <2> QED
    BY <1>2, <1>4, <2>1, OrdinaryStart DEF CallFits
<1> QED
  BY <1>3, <1>4 DEF FindCustomer

LEMMA FindCouponStep ==
  ASSUME IInv, NEW r \in Requests, FindCoupon(r)
  PROVE  IInv'
<1> DEFINE at == IF customer.made THEN "clear" ELSE "stamp"
<1>1. customer.tax \in Profiles \cup {Nothing} /\ at \in {"clear", "stamp"}
  BY DEF IInv, AdministrationTypeOK, Customer
<1>2. Starts(r, Has(at, Nothing, customer.tax, Nothing)) /\ UNCHANGED <<rowVars, log, clock>>
  BY DEF FindCoupon
<1> HIDE DEF at
<1>3. PICK c \in Call : c = Has(at, Nothing, customer.tax, Nothing) /\ c.at = at
  BY <1>1, Asking DEF Step
<1> QED
  BY <1>1, <1>2, <1>3, OrdinaryStart DEF CallFits

LEMMA StoreCustomerStep ==
  ASSUME IInv, NEW r \in Requests, StoreCustomer(r)
  PROVE  IInv'
<1>1. /\ customer' = [made |-> TRUE, tax |-> call[r].tax, coupon |-> call[r].coupon]
      /\ Goes(r, "stamp") /\ UNCHANGED <<keys, policies, connectors, log, clock>>
  BY DEF StoreCustomer, Audits
<1>2. customer' \in Customer
  BY <1>1, CallFacts DEF Customer, Call
<1>3. RowsTyped
  BY <1>1, <1>2 DEF RowsTyped, IInv, AdministrationTypeOK, Goes, boundVars
<1> QED
  BY <1>1, <1>3, KeysUntouched, OrdinaryWrite

LEMMA CheckPolicyStep ==
  ASSUME IInv, NEW r \in Requests, CheckPolicy(r)
  PROVE  IInv'
<1>1. PICK c \in Call : c = Has("policy", Nothing, Nothing, Nothing) /\ c.at = "policy"
  BY Asking DEF Step
<1> QED
  BY <1>1, OrdinaryStart DEF CallFits, CheckPolicy

LEMMA CreatePolicyStep ==
  ASSUME IInv, NEW r \in Requests, CreatePolicy(r)
  PROVE  IInv'
<1>1. /\ policies' \subseteq Catalog /\ Ends(r)
      /\ UNCHANGED <<keys, connectors, customer, log, clock>>
  BY DEF CreatePolicy, IInv, AdministrationTypeOK
<1>2. call' = [call EXCEPT ![r] = Idle] /\ UNCHANGED <<width, ops, faults>>
  BY <1>1 DEF Ends, Becomes, boundVars
<1>3. RowsTyped
  BY <1>1, <1>2 DEF RowsTyped, IInv, AdministrationTypeOK
<1> QED
  BY <1>1, <1>2, <1>3, CallFacts, KeysUntouched, OrdinaryStep DEF CallFits

\* While a connector is still to be had none of those that run has added one
\* beyond the plan's: together they may then go over it by all but one.
LEMMA CheckConnectorStep ==
  ASSUME IInv, NEW r \in Requests, CheckConnector(r)
  PROVE  IInv'
<1>1. PICK c \in Call : c = Has("connector", Nothing, Nothing, Nothing) /\ c.at = "connector"
  BY Asking DEF Step
<1>2. Starts(r, c) /\ connectors < ConnectorLimit /\ UNCHANGED <<rowVars, log, clock>>
  BY <1>1 DEF CheckConnector, HasConnector
<1>3. /\ RowsTyped /\ UNCHANGED width /\ call' = [call EXCEPT ![r] = c]
      /\ KeysFit' /\ HeirsKept /\ KeysStay /\ connectors' = connectors
  BY <1>2, StartingFacts
<1>4. /\ call' \in [Requests -> Call] /\ call'[r] = c /\ CallsFit'
      /\ \A q \in Requests \ {r} : call'[q] = call[q]
  BY <1>1, <1>3, CallChanges DEF CallFits
<1>5. AdministrationTypeOK'
  BY <1>3, <1>4 DEF AdministrationTypeOK, RowsTyped, IInv
<1>6. ConnectorsBounded'
  <2>1. Adding' \subseteq Running \cup {r}
    BY <1>4 DEF Adding, Running
  <2>2. Cardinality(Adding)' \in Nat /\ Cardinality(Adding)' <= width
    BY <1>2, <2>1, StartsRunning
  <2> QED
    BY <1>2, <1>3, <2>2, Counts DEF ConnectorsBounded
<1>7. ASSUME NEW k \in Keys
      PROVE  /\ IsFiniteSet(Heirs(k))'
             /\ Cardinality(Heirs(k))' + Cardinality(Rotating(k))' <= width'
  <2>1. Rotating(k)' \subseteq Rotating(k)
    BY <1>1, <1>4 DEF Rotating
  <2>2. /\ Cardinality(Rotating(k))' \in Nat /\ Cardinality(Rotating(k)) \in Nat
        /\ Cardinality(Rotating(k))' <= Cardinality(Rotating(k))
    BY <2>1, Counts, NoMore
  <2> QED
    BY <1>3, <2>2, Counts DEF IInv, HeirsBounded, HeirsKept
<1> QED
  BY <1>3, <1>4, <1>5, <1>6, <1>7 DEF IInv, HeirsBounded

\* One connector more, and one request less that adds one.
LEMMA CreateConnectorStep ==
  ASSUME IInv, NEW r \in Requests, CreateConnector(r)
  PROVE  IInv'
<1>1. /\ r \in Adding /\ connectors' = connectors + 1
      /\ UNCHANGED <<keys, policies, customer, log, clock, width, ops, faults>>
      /\ call' = [call EXCEPT ![r] = Idle]
  BY DEF CreateConnector, Adding, Ends, Becomes, boundVars
<1>2. KeysFit' /\ HeirsKept /\ KeysStay
  BY <1>1, KeysUntouched
<1>3. /\ call' \in [Requests -> Call] /\ call'[r] = Idle /\ Idle.at = "idle" /\ CallsFit'
      /\ \A q \in Requests \ {r} : call'[q] = call[q]
  BY <1>1, <1>2, CallFacts, CallChanges DEF CallFits
<1>4. AdministrationTypeOK'
  BY <1>1, <1>3, Counts DEF IInv, AdministrationTypeOK
<1>5. ConnectorsBounded'
  <2>1. Adding' = Adding \ {r}
    BY <1>3 DEF Adding
  <2>2. Cardinality(Adding \ {r}) = Cardinality(Adding) - 1
    BY <1>1, Counts, FS_RemoveElement
  <2> QED
    BY <1>1, <2>1, <2>2, Counts DEF IInv, ConnectorsBounded
<1>6. ASSUME NEW k \in Keys
      PROVE  /\ IsFiniteSet(Heirs(k))'
             /\ Cardinality(Heirs(k))' + Cardinality(Rotating(k))' <= width'
  <2>1. Rotating(k)' \subseteq Rotating(k)
    BY <1>3 DEF Rotating
  <2>2. /\ Cardinality(Rotating(k))' \in Nat /\ Cardinality(Rotating(k)) \in Nat
        /\ Cardinality(Rotating(k))' <= Cardinality(Rotating(k))
    BY <2>1, Counts, NoMore
  <2> QED
    BY <1>1, <1>2, <2>2, Counts DEF IInv, HeirsBounded, HeirsKept
<1> QED
  BY <1>2, <1>3, <1>4, <1>5, <1>6 DEF IInv, HeirsBounded

LEMMA AuditStepKeeps ==
  ASSUME IInv, NEW r \in Requests, AuditStep(r)
  PROVE  IInv'
<1>1. Latest \in Nat /\ clock \in Time
  BY LatestIsEvent, LenProperties DEF IInv, AdministrationTypeOK
<1>2. CASE StampEvent(r)
  <2>1. call' = [call EXCEPT ![r].at = "latest", ![r].stamp = clock]
    BY <1>2 DEF StampEvent
  <2>2. PICK c \in Call : call' = [call EXCEPT ![r] = c] /\ c.at = "latest"
    <3>1. /\ call' \in [Requests -> Call] /\ call'[r].at = "latest"
          /\ \A q \in Requests \ {r} : call'[q] = call[q]
      BY SMTT(30), <1>1, <2>1, CallFacts DEF Call, Step
    <3>2. PICK c \in Call : c = call'[r]
      BY SMTT(30), <3>1
    <3>3. call' = [call EXCEPT ![r] = c]
      BY <3>1, <3>2, CallFacts
    <3> QED BY <3>1, <3>2, <3>3
  <2>3. UNCHANGED <<rowVars, log, clock, width, ops, faults>> /\ connectors' = connectors
    BY <1>2 DEF StampEvent, boundVars, rowVars
  <2>4. KeysFit' /\ HeirsKept /\ KeysStay /\ RowsTyped
    BY <2>3, KeysUntouched, RowsUntouched DEF rowVars
  <2> QED
    BY <2>2, <2>3, <2>4, OrdinaryStep DEF CallFits
<1>3. CASE FindLatest(r)
  <2>1. PICK e \in Nat : e = Latest
    BY <1>1
  <2>2. call' = [call EXCEPT ![r].at = "append", ![r].prev = e]
    BY <1>3, <2>1 DEF FindLatest
  <2>3. PICK c \in Call : call' = [call EXCEPT ![r] = c] /\ c.at = "append"
    <3>1. /\ call' \in [Requests -> Call] /\ call'[r].at = "append"
          /\ \A q \in Requests \ {r} : call'[q] = call[q]
      BY <1>1, <2>2, CallFacts DEF Call, Step
    <3>2. PICK c \in Call : c = call'[r]
      BY <3>1
    <3>3. call' = [call EXCEPT ![r] = c]
      BY <3>1, <3>2, CallFacts
    <3> QED BY <3>1, <3>2, <3>3
  <2>4. UNCHANGED <<rowVars, log, clock, width, ops, faults>> /\ connectors' = connectors
    BY <1>3 DEF FindLatest, boundVars, rowVars
  <2>5. KeysFit' /\ HeirsKept /\ KeysStay /\ RowsTyped
    BY <2>4, KeysUntouched, RowsUntouched DEF rowVars
  <2> QED
    BY <2>3, <2>4, <2>5, OrdinaryStep DEF CallFits
<1>4. CASE AppendEvent(r)
  <2>1. /\ log' = Append(log, [at |-> call[r].stamp, prev |-> call[r].prev])
        /\ call' = [call EXCEPT ![r] = Idle]
        /\ UNCHANGED <<keys, policies, connectors, customer, clock, width, ops, faults>>
    BY <1>4 DEF AppendEvent, Ends, Becomes, boundVars, rowVars
  <2>2. [at |-> call[r].stamp, prev |-> call[r].prev] \in Event
    BY CallFacts DEF Call, Event
  <2>3. log' \in Seq(Event)
    BY <2>1, <2>2, AppendProperties DEF IInv, AdministrationTypeOK
  <2>4. RowsTyped
    BY <2>1, <2>3 DEF RowsTyped, IInv, AdministrationTypeOK
  <2> QED
    BY <2>1, <2>4, CallFacts, KeysUntouched, OrdinaryStep DEF CallFits
<1> QED
  BY <1>2, <1>3, <1>4 DEF AuditStep

LEMMA RequestFailsStep ==
  ASSUME IInv, NEW r \in Requests, RequestFails(r)
  PROVE  IInv'
<1>1. /\ faults > 0 /\ faults' = faults - 1 /\ UNCHANGED ops
      /\ UNCHANGED <<keys, policies, connectors, customer, log, clock, width>>
      /\ call' = [call EXCEPT ![r] = Idle]
  BY DEF RequestFails, Becomes, rowVars
<1>2. RowsTyped
  BY <1>1, BoundsSpent DEF RowsTyped, IInv, AdministrationTypeOK
<1> QED
  BY <1>1, <1>2, CallFacts, KeysUntouched, OrdinaryStep DEF CallFits

-----------------------------------------------------------------------------
(* The chain of the audit log                                              *)

\* What a request may be doing after a step that appends nothing.
Moves(q) ==
  /\ call'[q].at \in {"latest", "append"} =>
       \/ call[q].at \in {"latest", "append"} /\ call'[q].stamp = call[q].stamp
       \/ call'[q].stamp = clock
  /\ call'[q].at = "append" =>
       \/ call[q].at = "append" /\ call'[q].prev = call[q].prev
       \/ call'[q].prev = Latest

LEMMA LogFacts ==
  ASSUME IInv
  PROVE  /\ DOMAIN log = 1..Len(log) /\ Len(log) \in Nat /\ clock \in Nat
         /\ \A d \in DOMAIN log : log[d].at \in Nat /\ log[d].prev \in Nat
         /\ \A q \in Requests : call[q].stamp \in Nat
<1>1. log \in Seq(Event) /\ clock \in Nat
  BY DEF IInv, AdministrationTypeOK, Time
<1>2. DOMAIN log = 1..Len(log) /\ Len(log) \in Nat
  BY <1>1, LenProperties
<1>3. ASSUME NEW d \in DOMAIN log PROVE log[d].at \in Nat /\ log[d].prev \in Nat
  <2>1. log[d] \in Event
    BY <1>1, <1>2, ElementOfSeq
  <2> QED
    BY <2>1 DEF Event, Time
<1>4. ASSUME NEW q \in Requests PROVE call[q].stamp \in Nat
  BY CallFacts DEF Call, Time
<1> QED
  BY <1>1, <1>2, <1>3, <1>4

LEMMA ChainCounts ==
  ASSUME IInv, NEW e \in Nat
  PROVE  /\ IsFiniteSet(Children(e)) /\ Cardinality(Children(e)) \in Nat
         /\ IsFiniteSet(Readers(e)) /\ Cardinality(Readers(e)) \in Nat
         /\ IsFiniteSet(Stale(e)) /\ Cardinality(Stale(e)) \in Nat
<1>1. Readers(e) \in SUBSET Requests /\ Stale(e) \in SUBSET Requests
  BY DEF Readers, Stale
<1>2. \A S \in SUBSET Requests : IsFiniteSet(S) /\ Cardinality(S) \in Nat
  BY FS_Subset, FS_CardinalityType
<1>3. IsFiniteSet(Children(e)) /\ Cardinality(Children(e)) \in Nat
  <2>1. IsFiniteSet(1..Len(log))
    BY LogFacts, FS_Interval
  <2>2. Children(e) \subseteq 1..Len(log)
    BY LogFacts DEF Children
  <2> QED
    BY <2>1, <2>2, FS_Subset, FS_CardinalityType
<1> QED
  BY <1>1, <1>2, <1>3

\* What a step that appends nothing leaves of the chain.
LEMMA ChainKept ==
  ASSUME IInv, IInv', ChainInv, UNCHANGED <<log, width>>, clock <= clock',
         \A q \in Requests : Moves(q), Cardinality(Running)' <= width'
  PROVE  ChainInv'
<1>1. /\ Latest \in 0..Len(log) /\ ~Superseded(Latest)
      /\ Len(log) \in Nat /\ clock \in Nat /\ clock' \in Nat /\ width \in Nat
      /\ \A q \in Requests : call[q].stamp \in Nat /\ call'[q].stamp \in Nat
      /\ \A d \in DOMAIN log : log[d].at \in Nat /\ log[d].prev \in Nat /\ log[d].at <= clock
  <2>1. Latest \in 0..Len(log) /\ ~Superseded(Latest)
    BY LatestIsEvent DEF IInv, AdministrationTypeOK
  <2>2. clock' \in Nat /\ \A q \in Requests : call'[q].stamp \in Nat
    BY DEF IInv, AdministrationTypeOK, Call, Time
  <2> QED
    BY <2>1, <2>2, LogFacts, Counts DEF ChainInv, ChainFits
<1>2. ChainFits'
  <2>1. \A d \in DOMAIN log : log[d].prev \in 0..Len(log) /\ log[d].at <= clock'
    BY <1>1 DEF ChainInv, ChainFits
  <2>2. ASSUME NEW q \in Requests, call'[q].at = "append" PROVE call'[q].prev \in 0..Len(log)
    BY <1>1, <2>2 DEF ChainInv, ChainFits, Moves
  <2>3. ASSUME NEW q \in Requests, call'[q].at \in {"latest", "append"}
        PROVE  call'[q].stamp <= clock'
    BY <1>1, <2>3 DEF ChainInv, ChainFits, Moves
  <2> QED
    BY <2>1, <2>2, <2>3 DEF ChainFits
<1>3. ASSUME NEW e \in 0..Len(log) PROVE ForksFew(e)'
  <2>1. Children(e)' = Children(e) /\ Superseded(e)' = Superseded(e) /\ e \in Nat
    BY DEF Children, Superseded
  <2>2. ASSUME Superseded(e) PROVE Readers(e)' \subseteq Readers(e)
    BY <1>1, <2>2 DEF Readers, Moves
  <2>3. Stale(e)' \subseteq Stale(e)
    <3>1. e # 0 => log[e].at \in Nat /\ log[e].at <= clock
      BY <1>1, LogFacts
    <3> QED
      BY <1>1, <3>1 DEF Stale, Moves
  <2>4. CASE Superseded(e)
    <3>1. Cardinality(Readers(e))' \in Nat /\ Cardinality(Readers(e))' <= Cardinality(Readers(e))
      BY <2>1, <2>2, <2>4, ChainCounts, NoMore
    <3>2. Cardinality(Children(e)) + Cardinality(Readers(e)) <= 2 * width - 1
      BY <2>4 DEF ChainInv, ForksFew
    <3>3. Cardinality(Readers(e)) \in Nat /\ Cardinality(Children(e)) \in Nat
      BY <2>1, ChainCounts
    <3>4. Cardinality(Children(e)) + Cardinality(Readers(e))' <= 2 * width - 1
      BY <1>1, <3>1, <3>2, <3>3
    <3> QED
      BY <2>1, <2>4, <3>4 DEF ForksFew
  <2>5. CASE ~Superseded(e)
    <3>1. Cardinality(Stale(e))' \in Nat /\ Cardinality(Stale(e))' <= Cardinality(Stale(e))
      BY <2>1, <2>3, ChainCounts, NoMore
    <3>2. Cardinality(Children(e)) + Cardinality(Stale(e)) <= width - 1
      BY <2>5 DEF ChainInv, ForksFew
    <3>3. Cardinality(Stale(e)) \in Nat /\ Cardinality(Children(e)) \in Nat
      BY <2>1, ChainCounts
    <3>4. Cardinality(Children(e)) + Cardinality(Stale(e))' <= width - 1
      BY <1>1, <3>1, <3>2, <3>3
    <3> QED
      BY <2>1, <2>5, <3>4 DEF ForksFew
  <2> QED
    BY <2>4, <2>5
<1> QED
  BY <1>2, <1>3 DEF ChainInv

LEMMA QuietMoves ==
  ASSUME IInv, NEW r \in Requests, NEW c \in Call, call' = [call EXCEPT ![r] = c],
         c.at \notin {"latest", "append"}
  PROVE  \A q \in Requests : Moves(q)
<1>1. call'[r] = c /\ \A q \in Requests \ {r} : call'[q] = call[q]
  BY CallFacts
<1> QED
  BY <1>1 DEF Moves

\* No more requests run at once than the behaviour allows.
LEMMA RunningBounded ==
  ASSUME IInv, Cardinality(Running) <= width, NEW r \in Requests, NEW c \in Call,
         call' = [call EXCEPT ![r] = c], r \in Running \/ Cardinality(Running) < width
  PROVE  Cardinality(Running)' <= width
<1>1. Running' \subseteq Running \cup {r}
  BY CallFacts DEF Running
<1>2. CASE r \in Running
  <2>1. Running' \subseteq Running
    BY <1>1, <1>2
  <2> QED
    BY <2>1, Counts, NoMore
<1>3. CASE r \notin Running
  <2>1. /\ IsFiniteSet(Running \cup {r})
        /\ Cardinality(Running \cup {r}) = Cardinality(Running) + 1
    BY <1>3, Counts, FS_AddElement
  <2>2. Cardinality(Running') \in Nat /\ Cardinality(Running') <= Cardinality(Running \cup {r})
    BY <1>1, <2>1, NoMore
  <2> QED
    BY <1>3, <2>1, <2>2, Counts
<1> QED
  BY <1>2, <1>3

\* What the steps that leave the log alone have in common.
LEMMA QuietStep ==
  ASSUME IInv, NEW r \in Requests,
         KeyStep(r) \/ CustomerStep(r) \/ PlanStep(r) \/ RequestFails(r)
  PROVE  /\ UNCHANGED <<log, clock, width>>
         /\ r \in Running \/ Cardinality(Running) < width
         /\ \E c \in Call : call' = [call EXCEPT ![r] = c] /\ c.at \notin {"latest", "append"}
<1> DEFINE Quiet(c) == call' = [call EXCEPT ![r] = c] /\ c.at \notin {"latest", "append"}
<1>1. UNCHANGED <<log, clock, width>>
  BY DEF KeyStep, CreateKey, FindKey, RevokeKey, Audits, RotateKey, CustomerStep, FindCustomer, FindCoupon,
     StoreCustomer, PlanStep, CheckPolicy, CreatePolicy, CheckConnector, CreateConnector,
     RequestFails, Starts, Goes, Ends, boundVars, rowVars
<1>2. ASSUME NEW at \in Step \ {"latest", "append"}, NEW k \in Keys \cup {Nothing},
             NEW p \in Profiles \cup {Nothing}, NEW coupon \in Coupons \cup {Nothing},
             Starts(r, Has(at, k, p, coupon))
      PROVE  Cardinality(Running) < width /\ \E c \in Call : Quiet(c)
  <2>1. PICK c \in Call : c = Has(at, k, p, coupon) /\ c.at = at
    BY Asking
  <2>2. Cardinality(Running) < width /\ call' = [call EXCEPT ![r] = c]
    BY <1>2, <2>1 DEF Starts, Becomes
  <2> QED
    BY <2>1, <2>2
<1>3. ASSUME NEW to \in Step \ {"latest", "append"}, Goes(r, to) PROVE \E c \in Call : Quiet(c)
  BY <1>3, GoingOn
<1>4. ASSUME Becomes(r, Idle) PROVE \E c \in Call : Quiet(c)
  BY <1>4, CallFacts DEF Becomes
<1>5. customer.tax \in Profiles \cup {Nothing} /\ customer.coupon \in Coupons \cup {Nothing}
  BY DEF IInv, AdministrationTypeOK, Customer
<1>6. {"stamp", "revoke", "rotate", "profile", "coupon", "clear", "policy", "connector"}
        \subseteq Step \ {"latest", "append"}
  BY DEF Step
<1> HIDE DEF Quiet
<1>7. CASE KeyStep(r)
  <2>1. CASE CreateKey(r) \/ FindKey(r)
    BY <1>1, <1>2, <1>6, <2>1 DEF CreateKey, FindKey, Quiet
  <2>2. CASE RevokeKey(r) \/ RotateKey(r)
    <3>1. r \in Running /\ Goes(r, "stamp")
      BY <2>2 DEF RevokeKey, Audits, RotateKey, Running
    <3> QED
      BY <1>1, <1>3, <1>6, <3>1 DEF Quiet
  <2> QED
    BY <1>7, <2>1, <2>2 DEF KeyStep
<1>8. CASE CustomerStep(r)
  <2>1. CASE FindCustomer(r)
    BY <1>1, <1>2, <1>5, <1>6, <2>1 DEF FindCustomer, Quiet
  <2>2. CASE FindCoupon(r)
    <3>1. PICK at \in {"clear", "stamp"} : at = IF customer.made THEN "clear" ELSE "stamp"
      OBVIOUS
    <3>2. Starts(r, Has(at, Nothing, customer.tax, Nothing))
      BY <2>2, <3>1 DEF FindCoupon
    <3> QED
      BY <1>1, <1>2, <1>5, <1>6, <3>2 DEF Quiet
  <2>3. CASE StoreCustomer(r)
    <3>1. r \in Running /\ Goes(r, "stamp")
      BY <2>3 DEF StoreCustomer, Audits, Running
    <3> QED
      BY <1>1, <1>3, <1>6, <3>1 DEF Quiet
  <2> QED
    BY <1>8, <2>1, <2>2, <2>3 DEF CustomerStep
<1>9. CASE PlanStep(r)
  <2>1. CASE CheckPolicy(r) \/ CheckConnector(r)
    BY <1>1, <1>2, <1>6, <2>1 DEF CheckPolicy, CheckConnector, Quiet
  <2>2. CASE CreatePolicy(r) \/ CreateConnector(r)
    <3>1. r \in Running /\ Becomes(r, Idle)
      BY <2>2 DEF CreatePolicy, CreateConnector, Running, Ends
    <3> QED
      BY <1>1, <1>4, <3>1 DEF Quiet
  <2> QED
    BY <1>9, <2>1, <2>2 DEF PlanStep
<1>10. CASE RequestFails(r)
  BY <1>1, <1>4, <1>10 DEF RequestFails, Quiet
<1> QED
  BY <1>7, <1>8, <1>9, <1>10

\* The new event has no successor yet, and no more requests are stale for it
\* than run beside the one that appended it.
LEMMA AppendKeepsChain ==
  ASSUME IInv, ChainInv, NEW r \in Requests, AppendEvent(r)
  PROVE  ChainInv'
<1>1. PICK s \in Nat : s = call[r].stamp
  BY LogFacts
<1>2. PICK p \in 0..Len(log) : p = call[r].prev
  BY DEF ChainInv, ChainFits, AppendEvent
<1>3. PICK n \in Nat : n = Len(log) + 1 /\ \A d \in 1..n : d = n \/ d \in 1..Len(log)
  BY LogFacts
<1>4. PICK x : x = [at |-> s, prev |-> p]
  OBVIOUS
<1>5. x.at = s /\ x.prev = p /\ x \in Event
  <2>1. s \in Time
    BY <1>1, CallFacts DEF Call
  <2> QED
    BY <1>4, <2>1, LogFacts DEF Event
<1>6. /\ log' = Append(log, x) /\ call[r].at = "append" /\ call' = [call EXCEPT ![r] = Idle]
      /\ UNCHANGED <<clock, width>>
  BY <1>1, <1>2, <1>4 DEF AppendEvent, Ends, Becomes, boundVars
<1>7. /\ Len(log) \in Nat /\ width \in Nat /\ clock \in Nat /\ DOMAIN log = 1..Len(log)
      /\ Cardinality(Running) <= width /\ s <= clock
      /\ \A d \in DOMAIN log : /\ log[d].at \in Nat /\ log[d].at <= clock
                               /\ log[d].prev \in 0..Len(log)
      /\ \A q \in Requests : call[q].stamp \in Nat
  BY <1>1, <1>6, LogFacts, Counts DEF ChainInv, ChainFits
<1>8. /\ Len(log') = n /\ DOMAIN log' = 1..n /\ log'[n] = x
      /\ \A d \in 1..Len(log) : log'[d] = log[d]
  BY <1>5, <1>6, <1>3, AppendProperties DEF IInv, AdministrationTypeOK
<1>9. call'[r].at = "idle" /\ \A q \in Requests \ {r} : call'[q] = call[q]
  BY <1>6, CallFacts
<1>10. Cardinality(Running)' <= width
  BY <1>6, <1>7, CallFacts, RunningBounded DEF Running
<1>11. ChainFits'
  <2>1. ASSUME NEW d \in DOMAIN log'
        PROVE  log'[d].prev \in 0..Len(log') /\ log'[d].at <= clock'
    BY <1>5, <1>6, <1>7, <1>8, <1>3, <2>1
  <2>2. ASSUME NEW q \in Requests
        PROVE  /\ call'[q].at = "append" => call'[q].prev \in 0..Len(log')
               /\ call'[q].at \in {"latest", "append"} => call'[q].stamp <= clock'
    BY <1>6, <1>7, <1>8, <1>9, <1>3 DEF ChainInv, ChainFits
  <2> QED
    BY <2>1, <2>2 DEF ChainFits
<1>12. Running' = Running \ {r} /\ r \in Running
  BY <1>6, <1>9 DEF Running
<1>13. Cardinality(Running') \in Nat /\ Cardinality(Running') <= width - 1 /\ IsFiniteSet(Running')
  <2>1. /\ IsFiniteSet(Running \ {r})
        /\ Cardinality(Running \ {r}) = Cardinality(Running) - 1
    BY <1>12, Counts, FS_RemoveElement
  <2>2. Cardinality(Running \ {r}) \in Nat
    BY <2>1, FS_CardinalityType
  <2> QED
    BY <1>7, <1>12, <2>1, <2>2, Counts
\* The new event.
<1>14. ForksFew(n)'
  <2>1. Children(n)' = {} /\ Readers(n)' = {}
    <3>1. \A d \in DOMAIN log' : log'[d].prev # n
      BY <1>5, <1>7, <1>8, <1>3
    <3>2. \A q \in Requests : ~(call'[q].at = "append" /\ call'[q].prev = n)
      BY <1>9, <1>3 DEF ChainInv, ChainFits
    <3> QED
      BY <3>1, <3>2 DEF Children, Readers
  <2>2. Stale(n)' \subseteq Running'
    BY DEF Stale, Running
  <2>3. Cardinality(Stale(n))' \in Nat /\ Cardinality(Stale(n))' <= width - 1
    BY <1>7, <1>13, <2>2, NoMore
  <2>4. Cardinality(Children(n))' = 0 /\ Cardinality(Readers(n))' = 0 /\ width >= 1
    BY <2>1, FS_EmptySet DEF IInv, AdministrationTypeOK
  <2> QED
    BY <1>6, <1>7, <2>3, <2>4 DEF ForksFew
\* The events before it.
<1>15. ASSUME NEW e \in 0..Len(log) PROVE ForksFew(e)'
  <2> DEFINE children == Cardinality(Children(e))
             readers == Cardinality(Readers(e))
             stale == Cardinality(Stale(e))
             children1 == Cardinality(Children(e))'
             readers1 == Cardinality(Readers(e))'
             stale1 == Cardinality(Stale(e))'
  <2>1. /\ e \in Nat /\ children \in Nat /\ readers \in Nat /\ stale \in Nat
        /\ IsFiniteSet(Children(e)) /\ IsFiniteSet(Readers(e)) /\ IsFiniteSet(Stale(e))
    BY ChainCounts
  <2>2. Children(e)' = IF e = p THEN Children(e) \cup {n} ELSE Children(e)
    BY <1>5, <1>7, <1>8, <1>3 DEF Children
  <2>3. Readers(e)' = IF e = p THEN Readers(e) \ {r} ELSE Readers(e)
    BY <1>2, <1>6, <1>9 DEF Readers
  <2>4. e = p => r \in Readers(e)
    BY <1>2, <1>6 DEF Readers
  <2>5. n \notin Children(e)
    BY <1>7, <1>3 DEF Children
  <2>6. children1 = IF e = p THEN children + 1 ELSE children
    BY <2>1, <2>2, <2>5, FS_AddElement
  <2>7. readers1 = IF e = p THEN readers - 1 ELSE readers
    <3>1. e = p => Cardinality(Readers(e) \ {r}) = readers - 1
      BY <2>1, <2>4, FS_RemoveElement
    <3> QED
      BY <2>3, <3>1
  <2>8. e # 0 => log'[e] = log[e]
    BY <1>7, <1>8
  <2>9. Superseded(e)' <=> Superseded(e) \/ e = 0 \/ ~(s < log[e].at)
    <3>1. n \in DOMAIN log' /\ n # e /\ e < n
      BY <1>7, <1>8, <1>3
    <3>2. e # 0 => log[e].at \in Nat
      BY <1>7
    <3>3. Superseded(e) => Superseded(e)'
      BY <1>7, <1>8, <1>3, <2>8 DEF Superseded
    <3>4. e = 0 \/ ~(s < log[e].at) => Superseded(e)'
      BY <1>1, <1>5, <1>8, <2>8, <3>1, <3>2 DEF Superseded
    <3>5. ASSUME Superseded(e)', e # 0, s < log[e].at PROVE Superseded(e)
      BY <1>1, <1>5, <1>7, <1>8, <1>3, <2>8, <3>2, <3>5 DEF Superseded
    <3> QED
      BY <3>3, <3>4, <3>5
  <2>10. readers <= width
    <3>1. Readers(e) \subseteq Running
      BY DEF Readers, Running
    <3>2. readers <= Cardinality(Running)
      BY <3>1, Counts, NoMore
    <3> QED
      BY <1>7, <2>1, <3>2, Counts
  <2>11. Stale(e)' = Stale(e) \ {r}
    BY <1>9, <2>8 DEF Stale
  <2>12. stale1 \in Nat /\ stale1 <= stale
    BY <2>1, <2>11, NoMore
  <2>13. e # 0 /\ s < log[e].at => stale1 = stale - 1
    <3>1. e # 0 /\ s < log[e].at => r \in Stale(e)
      BY <1>1, <1>6 DEF Stale
    <3>2. r \in Stale(e) => Cardinality(Stale(e) \ {r}) = stale - 1
      BY <2>1, FS_RemoveElement
    <3> QED
      BY <2>11, <3>1, <3>2
  <2>14. IF Superseded(e) THEN children + readers <= 2 * width - 1
                         ELSE children + stale <= width - 1
    BY DEF ChainInv, ForksFew
  <2> HIDE DEF children, readers, stale, children1, readers1, stale1
  <2>15. CASE Superseded(e)
    <3>1. children1 + readers1 <= 2 * width - 1
      BY <1>7, <2>1, <2>6, <2>7, <2>14, <2>15, SMTT(30)
    <3> QED
      BY <1>6, <2>9, <2>15, <3>1 DEF ForksFew, children1, readers1
  <2>16. CASE ~Superseded(e) /\ (e = 0 \/ ~(s < log[e].at))
    <3>1. children1 + readers1 <= 2 * width - 1
      BY <1>7, <2>1, <2>6, <2>7, <2>10, <2>14, <2>16, SMTT(30)
    <3> QED
      BY <1>6, <2>9, <2>16, <3>1 DEF ForksFew, children1, readers1
  <2>17. CASE ~Superseded(e) /\ ~(e = 0 \/ ~(s < log[e].at))
    <3>1. children1 + stale1 <= width - 1
      BY <1>7, <2>1, <2>6, <2>12, <2>13, <2>14, <2>17, SMTT(30)
    <3> QED
      BY <1>6, <2>9, <2>17, <3>1 DEF ForksFew, children1, stale1
  <2> QED
    BY <2>15, <2>16, <2>17
<1>16. \A e \in 0..Len(log') : e = n \/ e \in 0..Len(log)
  BY <1>7, <1>8, <1>3
<1> QED
  BY <1>6, <1>10, <1>11, <1>14, <1>15, <1>16 DEF ChainInv

LEMMA NextChain ==
  ASSUME IInv, IInv', ChainInv, [AdministrationNext]_administrationVars
  PROVE  ChainInv'
<1>1. CASE Tick
  <2>1. UNCHANGED <<log, call, width>> /\ clock' = clock + 1 /\ clock \in Nat
    BY <1>1, LogFacts DEF Tick, boundVars
  <2>2. \A q \in Requests : Moves(q)
    BY <2>1 DEF Moves
  <2>3. Cardinality(Running)' <= width'
    BY <2>1 DEF ChainInv, Running
  <2>4. clock <= clock'
    BY <2>1
  <2> QED
    BY <2>1, <2>2, <2>3, <2>4, ChainKept
<1>2. ASSUME NEW r \in Requests,
             KeyStep(r) \/ CustomerStep(r) \/ PlanStep(r) \/ RequestFails(r)
      PROVE  ChainInv'
  <2>1. /\ UNCHANGED <<log, clock, width>>
        /\ r \in Running \/ Cardinality(Running) < width
        /\ \E c \in Call : call' = [call EXCEPT ![r] = c] /\ c.at \notin {"latest", "append"}
    BY <1>2, QuietStep
  <2>2. PICK c \in Call : call' = [call EXCEPT ![r] = c] /\ c.at \notin {"latest", "append"}
    BY <2>1
  <2>3. \A q \in Requests : Moves(q)
    BY <2>2, QuietMoves
  <2>4. Cardinality(Running)' <= width'
    BY <2>1, <2>2, RunningBounded DEF ChainInv
  <2>5. clock <= clock'
    BY <2>1, LogFacts
  <2> QED
    BY <2>1, <2>3, <2>4, <2>5, ChainKept
<1>3. ASSUME NEW r \in Requests, StampEvent(r) \/ FindLatest(r) PROVE ChainInv'
  <2>1. /\ UNCHANGED <<log, clock, width>> /\ r \in Running
        /\ \/ /\ call[r].at = "stamp"
              /\ call' = [call EXCEPT ![r].at = "latest", ![r].stamp = clock]
           \/ /\ call[r].at = "latest"
              /\ call' = [call EXCEPT ![r].at = "append", ![r].prev = Latest]
    BY <1>3 DEF StampEvent, FindLatest, boundVars, Running
  <2>2. /\ \A q \in Requests \ {r} : call'[q] = call[q]
        /\ \/ call'[r].at = "latest" /\ call'[r].stamp = clock
           \/ /\ call[r].at = "latest" /\ call'[r].at = "append"
              /\ call'[r].stamp = call[r].stamp /\ call'[r].prev = Latest
    BY <2>1, CallFacts DEF Call
  <2>3. \A q \in Requests : Moves(q)
    BY <2>2 DEF Moves
  <2>4. Running' \subseteq Running
    BY <2>1, <2>2 DEF Running
  <2>5. Cardinality(Running)' <= width'
    BY <2>1, <2>4, Counts, NoMore DEF ChainInv
  <2>6. clock <= clock'
    BY <2>1, LogFacts
  <2> QED
    BY <2>1, <2>3, <2>5, <2>6, ChainKept
<1>4. CASE UNCHANGED administrationVars
  <2>1. UNCHANGED <<log, call, width, clock>> /\ clock \in Nat
    BY <1>4, LogFacts DEF administrationVars, boundVars
  <2>2. \A q \in Requests : Moves(q)
    BY <2>1 DEF Moves
  <2>3. Cardinality(Running)' <= width' /\ clock <= clock'
    BY <2>1 DEF ChainInv, Running
  <2> QED
    BY <2>1, <2>2, <2>3, ChainKept
<1> QED
  BY <1>1, <1>2, <1>3, <1>4, AppendKeepsChain DEF AdministrationNext, AuditStep

LEMMA InitChain == AdministrationInit => ChainInv
<1> SUFFICES ASSUME AdministrationInit PROVE ChainInv
  OBVIOUS
<1>1. log = <<>> /\ Len(log) = 0 /\ width \in Nat /\ width >= 1
  BY DEF AdministrationInit
<1>2. \A r \in Requests : call[r].at = "idle"
  BY Asking DEF AdministrationInit, Idle, Step
<1>3. Running = {} /\ Children(0) = {} /\ Stale(0) = {} /\ ~Superseded(0) /\ ChainFits
  BY <1>1, <1>2 DEF Running, Children, Stale, Superseded, ChainFits
<1>4. ForksFew(0)
  <2>1. Cardinality(Children(0)) = 0 /\ Cardinality(Stale(0)) = 0
    BY <1>3, FS_EmptySet
  <2> QED
    BY <1>1, <1>3, <2>1 DEF ForksFew
<1> QED
  BY <1>1, <1>3, <1>4, FS_EmptySet DEF ChainInv

-----------------------------------------------------------------------------
(* The theorems                                                            *)

LEMMA InitInvariant == AdministrationInit => IInv
<1> SUFFICES ASSUME AdministrationInit
             PROVE  IInv
  OBVIOUS
<1>1. AdministrationTypeOK
  <2>1. NoKey \in Key /\ 0 \in Time
    BY DEF NoKey, Key, Time
  <2>2. Idle \in Call
    BY Asking DEF Idle, Step
  <2>3. <<>> \in Seq(Event)
    BY EmptySeq
  <2> HIDE DEF NoKey, Idle
  <2>4. keys \in [Keys -> Key] /\ call \in [Requests -> Call] /\ log \in Seq(Event)
    BY <2>1, <2>2, <2>3 DEF AdministrationInit
  <2> QED
    BY <2>1, <2>4 DEF AdministrationInit, AdministrationTypeOK, Customer
<1>2. \A k \in Keys : Heirs(k) = {} /\ keys[k].origin = Nothing /\ ~keys[k].revoked
  BY DEF AdministrationInit, Heirs, NoKey
<1>3. \A r \in Requests : call[r].at = "idle"
  BY Asking DEF AdministrationInit, Idle, Step
<1>4. KeysFit /\ CallsFit
  BY <1>2, <1>3 DEF KeysFit, CallsFit
<1>5. Adding = {} /\ \A k \in Keys : Rotating(k) = {}
  BY <1>3 DEF Adding, Rotating
<1>6. width \in Nat /\ width >= 1 /\ connectors = 0
  BY DEF AdministrationInit
<1>7. HeirsBounded
  BY <1>2, <1>5, <1>6, FS_EmptySet DEF HeirsBounded
<1>8. ConnectorsBounded
  BY <1>5, <1>6, FS_EmptySet DEF ConnectorsBounded
<1> QED
  BY <1>1, <1>4, <1>7, <1>8 DEF IInv

LEMMA NextInvariant == IInv /\ [AdministrationNext]_administrationVars => IInv'
<1> SUFFICES ASSUME IInv, [AdministrationNext]_administrationVars
             PROVE  IInv'
  OBVIOUS
<1>1. CASE Tick
  BY <1>1, TickStep
<1>2. ASSUME NEW r \in Requests, KeyStep(r)
      PROVE  IInv'
  BY <1>2, CreateKeyStep, FindKeyStep, RevokeKeyStep, RotateKeyStep DEF KeyStep
<1>3. ASSUME NEW r \in Requests, CustomerStep(r)
      PROVE  IInv'
  BY <1>3, FindCustomerStep, FindCouponStep, StoreCustomerStep DEF CustomerStep
<1>4. ASSUME NEW r \in Requests, PlanStep(r)
      PROVE  IInv'
  BY <1>4, CheckPolicyStep, CreatePolicyStep, CheckConnectorStep, CreateConnectorStep
     DEF PlanStep
<1>5. ASSUME NEW r \in Requests, AuditStep(r)
      PROVE  IInv'
  BY <1>5, AuditStepKeeps
<1>6. ASSUME NEW r \in Requests, RequestFails(r)
      PROVE  IInv'
  BY <1>6, RequestFailsStep
<1>7. CASE UNCHANGED administrationVars
  BY <1>7 DEF administrationVars, rowVars, boundVars, IInv, AdministrationTypeOK, KeysFit,
              CallsFit, HeirsBounded, ConnectorsBounded, Heirs, Rotating, Adding
<1> QED
  BY <1>1, <1>2, <1>3, <1>4, <1>5, <1>6, <1>7 DEF AdministrationNext

THEOREM AdministrationInvariant == AdministrationSpec => []IInv
<1>1. AdministrationInit => IInv
  BY InitInvariant
<1>2. IInv /\ [AdministrationNext]_administrationVars => IInv'
  BY NextInvariant
<1> QED
  BY <1>1, <1>2, PTL DEF AdministrationSpec

\* Every variable has its type, whatever the requests and faults: in
\* particular a key always gets an expiry, and the latest event is one of the log.
THEOREM AdministrationTypeCorrect == AdministrationSpec => []AdministrationTypeOK
<1>1. IInv => AdministrationTypeOK
  BY DEF IInv
<1> QED
  BY <1>1, AdministrationInvariant, PTL

\* A key that has been rotated admits nobody, and has no more successors than
\* the requests that overlapped: rotateWorkspaceApiKey asks whether the key is
\* revoked before its transaction, and not in it.
THEOREM RotatedKeysAreReplaced == AdministrationSpec => []RotationReplaces
<1>1. IInv => RotationReplaces
  <2> SUFFICES ASSUME IInv, NEW k \in Keys, Heirs(k) # {}
               PROVE  ~Admits(k) /\ Cardinality(Heirs(k)) <= width
    BY DEF RotationReplaces
  <2>1. ~Admits(k)
    BY DEF IInv, KeysFit, Admits
  <2>2. Cardinality(Heirs(k)) <= width
    BY Counts DEF IInv, HeirsBounded
  <2> QED BY <2>1, <2>2
<1> QED
  BY <1>1, AdministrationInvariant, PTL

\* The connectors exceed the plan's by fewer than the requests that overlapped:
\* assertCanCreateConnector counts before the connector is created.
THEOREM ConnectorsStayNearThePlan == AdministrationSpec => []ConnectorsHold
<1>1. IInv => ConnectorsHold
  BY Counts DEF IInv, ConnectorsBounded, ConnectorsHold
<1> QED
  BY <1>1, AdministrationInvariant, PTL

THEOREM ChainInvariant == AdministrationSpec => [](IInv /\ ChainInv)
<1>1. AdministrationInit => IInv /\ ChainInv
  BY InitInvariant, InitChain
<1>2. IInv /\ ChainInv /\ [AdministrationNext]_administrationVars => (IInv /\ ChainInv)'
  BY NextInvariant, NextChain
<1> QED
  BY <1>1, <1>2, PTL DEF AdministrationSpec

\* An event of the audit log has fewer successors than twice the requests that
\* overlapped: emitAuditEvent reads the latest event and appends its own in a
\* transaction whose isolation does not keep others from reading the same one.
\* One request at a time leaves one chain.
THEOREM AuditForksAreFew == AdministrationSpec => []AuditForksAreBounded
<1>1. IInv /\ ChainInv => AuditForksAreBounded
  <2> SUFFICES ASSUME IInv, ChainInv, NEW e \in 0..Len(log)
               PROVE  Cardinality(Children(e)) <= 2 * width - 1
    BY DEF AuditForksAreBounded, Children
  <2>1. e \in Nat /\ width \in Nat
    BY Counts
  <2>2. /\ Cardinality(Children(e)) \in Nat /\ Cardinality(Readers(e)) \in Nat
        /\ Cardinality(Stale(e)) \in Nat
    BY <2>1, ChainCounts
  <2> QED
    BY <2>1, <2>2 DEF ChainInv, ForksFew
<1> QED
  BY <1>1, ChainInvariant, PTL
=============================================================================
