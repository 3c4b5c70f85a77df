---------------------------- MODULE IntentStore -----------------------------
(***************************************************************************)
(* The `intents` row every handler and worker shares, and transitionIntent *)
(* of modules/intents/service.ts, the only code that writes its status.    *)
(*                                                                         *)
(* transitionIntent reads the row, checks the edge, and only then updates  *)
(* by id; nothing ties the update to the status that was read.  A caller   *)
(* therefore takes two steps: at pc "transition" it reads and checks, at   *)
(* pc "update" it writes what the check allowed, whatever the row holds by *)
(* then.  Each component keeps its callers' pcs and uses the three         *)
(* operators below as the conjuncts of its own actions.                    *)
(*                                                                         *)
(* `faults` counts the database errors, Redis errors and process crashes   *)
(* a behaviour has had, at most MaxFaults; it lets a property say what     *)
(* holds when nothing failed.                                              *)
(***************************************************************************)
EXTENDS Naturals, IntentStates

CONSTANT MaxFaults

ASSUME MaxFaultsAssumption == MaxFaults \in Nat

VARIABLES
  status,   \* intents.status of the one intent under study
  faults    \* number of infrastructure faults so far

storeVars == <<status, faults>>

StoreTypeOK ==
  /\ status \in IntentState
  /\ faults \in 0..MaxFaults

StoreInit(initial) ==
  /\ status = initial
  /\ faults = 0

\* The read and the check pass: the caller goes on to the update.
TransitionAllowed(to) ==
  /\ IsValidTransition(status, to)
  /\ UNCHANGED storeVars

\* The check fails: InvalidStateTransitionError is thrown, nothing is written.
TransitionRefused(to) ==
  /\ ~IsValidTransition(status, to)
  /\ UNCHANGED storeVars

\* The update by id, with no comparison against the status that was checked.
ApplyTransition(to) ==
  /\ status' = to
  /\ UNCHANGED faults

\* One more database error, Redis error or crash, within the bound.
Fault ==
  /\ faults < MaxFaults
  /\ faults' = faults + 1
  /\ UNCHANGED status
=============================================================================
