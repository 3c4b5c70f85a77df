----------------------------- MODULE MCIdentity -----------------------------
(***************************************************************************)
(* A small instance of Identity.  Slots, sessions and invites are each     *)
(* interchangeable; the founder and the other users are not.               *)
(***************************************************************************)
EXTENDS Identity, TLC

MCSymmetry ==
  {p @@ q @@ s : p \in Permutations(Requests), q \in Permutations(Sessions),
                 s \in Permutations(Invites)}

\* The workspaces are alike, so the founder has that of NoUser; and a sign-up
\* token waits only where a workspace is left that can be founded with it.
MCInit ==
  /\ IdentityInit
  /\ founder[Somewhere] # Nothing
  /\ (\A w \in Workspaces : founder[w] # Nothing)
       => \A u \in Users : tokens["signup"][u] = NoToken

MCSpec == MCInit /\ [][IdentityNext]_identityVars
=============================================================================
