---------------------------- MODULE MCApprovals -----------------------------
(***************************************************************************)
(* Small instances of Approvals: two stages, the second open to one user   *)
(* only, and three users of whom "ada" makes two requests.                 *)
(***************************************************************************)
EXTENDS Approvals

MCReviewerOf == [r \in Reviews |->
  CASE r = "r1" -> "ada" [] r = "r2" -> "bob" [] r = "r3" -> "cyd"
    [] OTHER -> "ada"]

\* The first stage takes two approvals of anyone, the last one of an admin.
MCRequired == [k \in Stages |-> IF k = 0 THEN 2 ELSE 1]
MCEligible == [k \in Stages |-> IF k = 0 THEN Users ELSE {"cyd"}]
=============================================================================
