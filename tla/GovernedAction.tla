--------------------------- MODULE GovernedAction ---------------------------
(***************************************************************************)
(* What VowGrid promises about one intent, with no requests, rows or       *)
(* queues: the side effect happens only after it was approved, at most     *)
(* once; it is undone only if it happened, though perhaps again; and the   *)
(* state the product shows never claims more than what has happened.       *)
(*                                                                         *)
(*   Approve -> Run -> Undo, and Show at any time                          *)
(***************************************************************************)
EXTENDS Naturals

VARIABLES
  approved,  \* every approval the request asks for has been recorded
  runs,      \* how often the side effect has been performed
  result,    \* what came of it: "none" until it is performed
  undone,    \* the side effect has been undone
  shown      \* what the intent's status claims

actionVars == <<approved, runs, result, undone, shown>>

Claim == {"nothing", "approved", "succeeded", "rolled_back"}

\* What must have happened before the product may show a claim.
Warranted(claim) ==
  /\ claim = "approved" => approved
  /\ claim = "succeeded" => result = "ok"
  /\ claim = "rolled_back" => undone

PromiseInit ==
  /\ approved = FALSE
  /\ runs = 0
  /\ result = "none"
  /\ undone = FALSE
  /\ shown = "nothing"

Approve ==
  /\ approved' = TRUE
  /\ UNCHANGED <<runs, result, undone, shown>>

Run ==
  /\ approved /\ runs = 0
  /\ runs' = 1
  /\ result' \in {"ok", "error"}
  /\ UNCHANGED <<approved, undone, shown>>

Undo ==
  /\ result = "ok"
  /\ undone' = TRUE
  /\ UNCHANGED <<approved, runs, result, shown>>

Show ==
  /\ shown' \in {claim \in Claim : Warranted(claim)}
  /\ UNCHANGED <<approved, runs, result, undone>>

PromiseNext == Approve \/ Run \/ Undo \/ Show

PromiseSpec == PromiseInit /\ [][PromiseNext]_actionVars
=============================================================================
