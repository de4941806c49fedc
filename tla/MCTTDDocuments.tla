--------------------------- MODULE MCTTDDocuments ---------------------------
(* TTDDocuments with interchangeable requests and a document that fits the   *)
(* verified tier, the store-only tier or neither.                            *)
EXTENDS TTDDocuments, TLC

Symmetry == Permutations(Requests)
=============================================================================
