----------------------------- MODULE MCTTDSignIn -----------------------------
(* Two requests at a time, two authenticator secrets, two time steps. *)
EXTENDS TTDSignIn, TLC

CONSTANTS q1, q2

MCRequests == {q1, q2}

Symmetry == Permutations(MCRequests)
=============================================================================
