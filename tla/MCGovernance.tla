---------------------------- MODULE MCGovernance ----------------------------
(***************************************************************************)
(* A small instance of Governance: one approval stage, a reviewer for each *)
(* review.                                                                 *)
(***************************************************************************)
EXTENDS Governance

MCReviewerOf == [r \in Reviews |-> IF r = "r1" THEN "ada" ELSE "bob"]
MCRequired == [k \in Stages |-> 1]
MCEligible == [k \in Stages |-> Users]
=============================================================================
