----------------------------- MODULE MCMetering -----------------------------
(***************************************************************************)
(* A small instance of Metering: some requests carry one key, the others   *)
(* none.  Requests of a kind are interchangeable.                          *)
(***************************************************************************)
EXTENDS Metering, TLC

CONSTANTS Twins, Keyless

MCCreates == Twins \cup Keyless
MCKeyOf == [c \in MCCreates |-> IF c \in Twins THEN "key" ELSE NoKey]
MCSymmetry == {p @@ q : p \in Permutations(Twins), q \in Permutations(Keyless)}
=============================================================================
