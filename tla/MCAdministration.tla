-------------------------- MODULE MCAdministration --------------------------
(***************************************************************************)
(* A small instance of Administration: a policy with a maximum, one of     *)
(* lower priority with a threshold and a list, a disabled one, and intents *)
(* that tell them apart.                                                   *)
(***************************************************************************)
EXTENDS Administration, TLC

Free == [enabled |-> TRUE, priority |-> 0, maxAmount |-> Nothing,
         requireApprovalAbove |-> Nothing, actions |-> Unrestricted,
         connectors |-> Unrestricted, environments |-> Unrestricted, roles |-> Nothing]

MCCatalog ==
  {[Free EXCEPT !.priority = 1, !.maxAmount = 2, !.roles = {"owner"}],
   [Free EXCEPT !.requireApprovalAbove = 1, !.actions.blocked = {"delete"}],
   [Free EXCEPT !.enabled = FALSE, !.connectors.allowed = {"github"}]}

MCIntents ==
  [amount : {Nothing, 2, 3}, action : {"delete"}, connector : {"http"},
   environment : {"production"}]
  \cup [amount : {2}, action : {"send"}, connector : {Nothing}, environment : {"production"}]

MCSymmetry == {p @@ q : p \in Permutations(Requests), q \in Permutations(Keys)}
=============================================================================
