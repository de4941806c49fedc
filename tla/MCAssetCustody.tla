--------------------------- MODULE MCAssetCustody ---------------------------
(* AssetCustody on a small instance. *)
EXTENDS AssetCustody, TLC

Symmetry == Permutations(Requests) \cup Permutations(Keys) \cup Permutations(Hashes)
=============================================================================
