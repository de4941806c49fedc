-------------------------- MODULE MCOfficeWorkflow --------------------------
(* OfficeWorkflow on a small instance: an event's hash and key are its place. *)
EXTENDS OfficeWorkflow, TLC

MCHashes == TxnIds \X (1..MaxSequence)

Symmetry == Permutations(TxnIds) \cup Permutations(Documents)
=============================================================================
