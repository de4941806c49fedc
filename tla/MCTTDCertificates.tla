-------------------------- MODULE MCTTDCertificates --------------------------
(* TTDCertificates with an account that has two devices. *)
EXTENDS TTDCertificates, TLC

CONSTANT a1

MCOwner == [d \in Devices |-> a1]

Symmetry == Permutations(Commands) \cup Permutations(Serials) \cup Permutations(Devices)
=============================================================================
