------------------------------- MODULE Intake -------------------------------
(***************************************************************************)
(* The way of one intent from draft to simulated: proposeIntent of         *)
(* modules/intents/service.ts and simulateIntent of                        *)
(* modules/simulations/service.ts, run by concurrent API requests.         *)
(*                                                                         *)
(*   propose:  idle -> update -> done                                      *)
(*   simulate: idle -> connector -> create -> transition -> update -> done *)
(***************************************************************************)
EXTENDS IntentStore

CONSTANTS
  Proposes,    \* POST /intents/:id/propose requests
  Simulates    \* POST /intents/:id/simulate requests

VARIABLES
  proposePc,
  simulatePc,
  simulated    \* the simulation_results row of the intent exists

intakeVars == <<proposePc, simulatePc, simulated>>

IntakeTypeOK ==
  /\ StoreTypeOK
  /\ proposePc \in [Proposes -> {"idle", "update", "done", "refused", "dead"}]
  /\ simulatePc \in [Simulates -> {"idle", "connector", "create", "transition",
                                   "update", "done", "refused", "dead"}]
  /\ simulated \in BOOLEAN

IntakeInit ==
  /\ proposePc = [p \in Proposes |-> "idle"]
  /\ simulatePc = [m \in Simulates |-> "idle"]
  /\ simulated = FALSE

-----------------------------------------------------------------------------
(* proposeIntent: nothing but transitionIntent                             *)

ProposeGoes(p, to) == proposePc' = [proposePc EXCEPT ![p] = to]

ProposeTransition(p) ==
  /\ proposePc[p] = "idle"
  /\ \/ TransitionAllowed("proposed") /\ ProposeGoes(p, "update")
     \/ TransitionRefused("proposed") /\ ProposeGoes(p, "refused")
  /\ UNCHANGED <<simulatePc, simulated>>

ProposeUpdate(p) ==
  /\ proposePc[p] = "update"
  /\ ApplyTransition("proposed")
  /\ ProposeGoes(p, "done")
  /\ UNCHANGED <<simulatePc, simulated>>

ProposeDies(p) ==
  /\ proposePc[p] = "update"
  /\ Fault
  /\ ProposeGoes(p, "dead")
  /\ UNCHANGED <<simulatePc, simulated>>

-----------------------------------------------------------------------------
(* simulateIntent                                                          *)

SimulateGoes(m, to) == simulatePc' = [simulatePc EXCEPT ![m] = to]

SimulateRead(m) ==
  /\ simulatePc[m] = "idle"
  /\ SimulateGoes(m, IF status = "proposed" THEN "connector" ELSE "refused")
  /\ UNCHANGED <<storeVars, proposePc, simulated>>

\* connector.validate and connector.simulate; either may turn the intent down.
SimulateConnector(m) ==
  /\ simulatePc[m] = "connector"
  /\ \E to \in {"create", "refused"} : SimulateGoes(m, to)
  /\ UNCHANGED <<storeVars, proposePc, simulated>>

\* simulation_results.intent_id is unique: a second row is refused.
SimulateCreate(m) ==
  /\ simulatePc[m] = "create"
  /\ SimulateGoes(m, IF simulated THEN "refused" ELSE "transition")
  /\ simulated' = TRUE
  /\ UNCHANGED <<storeVars, proposePc>>

SimulateTransition(m) ==
  /\ simulatePc[m] = "transition"
  /\ \/ TransitionAllowed("simulated") /\ SimulateGoes(m, "update")
     \/ TransitionRefused("simulated") /\ SimulateGoes(m, "refused")
  /\ UNCHANGED <<proposePc, simulated>>

SimulateUpdate(m) ==
  /\ simulatePc[m] = "update"
  /\ ApplyTransition("simulated")
  /\ SimulateGoes(m, "done")
  /\ UNCHANGED <<proposePc, simulated>>

SimulateDies(m) ==
  /\ simulatePc[m] \in {"connector", "create", "transition", "update"}
  /\ Fault
  /\ SimulateGoes(m, "dead")
  /\ UNCHANGED <<proposePc, simulated>>

-----------------------------------------------------------------------------
ProposeStep(p) == ProposeTransition(p) \/ ProposeUpdate(p) \/ ProposeDies(p)

SimulateStep(m) ==
  \/ SimulateRead(m)
  \/ SimulateConnector(m)
  \/ SimulateCreate(m)
  \/ SimulateTransition(m)
  \/ SimulateUpdate(m)
  \/ SimulateDies(m)

IntakeNext ==
  \/ \E p \in Proposes : ProposeStep(p)
  \/ \E m \in Simulates : SimulateStep(m)
=============================================================================
