---------------------------- MODULE IntentStates ----------------------------
(***************************************************************************)
(* The intent state chart of modules/intents/state-machine.ts: pure data,  *)
(* no state of its own.                                                    *)
(*                                                                         *)
(*   draft -> proposed -> simulated -> pending_approval -> approved        *)
(*   approved -> queued -> executing -> succeeded | failed                 *)
(*   succeeded | failed -> rollback_pending -> rolled_back                 *)
(*                                          -> rollback_failed             *)
(*   proposed .. approved -> rejected                                      *)
(***************************************************************************)

IntentState ==
  {"draft", "proposed", "simulated", "pending_approval", "approved", "rejected",
   "queued", "executing", "succeeded", "failed",
   "rollback_pending", "rolled_back", "rollback_failed"}

\* The edges, as the set of pairs <<from, to>> the chart lists.
StateTransitions ==
  {<<"draft", "proposed">>,
   <<"proposed", "simulated">>, <<"proposed", "rejected">>,
   <<"simulated", "pending_approval">>, <<"simulated", "rejected">>,
   <<"pending_approval", "approved">>, <<"pending_approval", "rejected">>,
   <<"approved", "queued">>, <<"approved", "rejected">>,
   <<"queued", "executing">>,
   <<"executing", "succeeded">>, <<"executing", "failed">>,
   <<"succeeded", "rollback_pending">>,
   <<"failed", "rollback_pending">>, <<"failed", "queued">>,
   <<"rollback_pending", "rolled_back">>,
   <<"rollback_pending", "rollback_failed">>,
   <<"rollback_failed", "rollback_pending">>}

IsValidTransition(from, to) == <<from, to>> \in StateTransitions

GetNextStates(state) == {to \in IntentState : IsValidTransition(state, to)}

IsTerminalState(state) == GetNextStates(state) = {}

CanRollback(state) == IsValidTransition(state, "rollback_pending")
=============================================================================
