---------------------------- MODULE PolicyEngine ----------------------------
(***************************************************************************)
(* modules/policies/engine.ts: what a workspace's policies make of an      *)
(* intent.  Pure functions; a policy is the record of its rules.           *)
(***************************************************************************)
EXTENDS Integers, SequencesExt

CONSTANT Nothing   \* a rule that is not set, a field that the intent lacks

\* One dimension of a policy: what it blocks, and what alone it allows.
Restriction(values) ==
  [blocked : SUBSET values, allowed : SUBSET values \cup {Nothing}]
Unrestricted == [blocked |-> {}, allowed |-> Nothing]

\* "blocked" wins over "allowed"; an empty list of allowed values allows none.
Restricted(rule, value) ==
  \/ value \in rule.blocked
  \/ rule.allowed # Nothing /\ value \notin rule.allowed

\* An intent whose amount is no number is compared with no threshold.
Exceeds(intent, threshold) ==
  intent.amount # Nothing /\ threshold # Nothing /\ intent.amount > threshold

\* The role is not looked at when the caller does not give one, as
\* submitForApproval never does; an intent may be without a connector.
Forbidden(policy, intent, role) ==
  \/ Restricted(policy.actions, intent.action)
  \/ intent.connector # Nothing /\ Restricted(policy.connectors, intent.connector)
  \/ Restricted(policy.environments, intent.environment)
  \/ policy.roles # Nothing /\ role # Nothing /\ role \notin policy.roles

\* The thresholds come first: above the one for approval, nothing else of the
\* policy is evaluated.
EvaluatePolicy(policy, intent, role) ==
  CASE Exceeds(intent, policy.maxAmount) -> "deny"
    [] ~Exceeds(intent, policy.maxAmount)
         /\ Exceeds(intent, policy.requireApprovalAbove) -> "require_approval"
    [] OTHER -> IF Forbidden(policy, intent, role) THEN "deny" ELSE "allow"

\* Bug: the loop goes on after a denial.
OverallOfLast(overall, result) == IF result = "allow" THEN overall ELSE result

\* One turn of the loop over the results; a denial breaks it.
Overall(overall, result) ==
  IF overall = "deny" \/ result = "allow" THEN overall ELSE result

\* Enabled policies, the highest priority first.
Ordered(policies) ==
  SetToSortSeq({p \in policies : p.enabled}, LAMBDA p, q : p.priority > q.priority)

EvaluatePolicies(policies, intent, role) ==
  FoldLeft(LAMBDA overall, p : Overall(overall, EvaluatePolicy(p, intent, role)),
           "allow", Ordered(policies))

\* How restrictive a result is.
Severity(result) ==
  CASE result = "allow" -> 0 [] result = "require_approval" -> 1 [] result = "deny" -> 2
=============================================================================
