-------------------------- MODULE MCTTDSubmission --------------------------
(* TTDSubmission with a certificate and its renewal, a good PDF under each, a *)
(* damaged one and one too large to be verified.                             *)
EXTENDS TTDSubmission, TLC

CONSTANTS c1, c2, good1, good2, damaged, huge

MCCerts == {c1, c2}
MCBodies == {good1, good2, damaged, huge}
MCSignedWith == good1 :> c1 @@ good2 :> c2 @@ damaged :> c1 @@ huge :> c1

Symmetry == Permutations(Submissions)
=============================================================================
