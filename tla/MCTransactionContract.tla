------------------------ MODULE MCTransactionContract ------------------------
(* TransactionContract on a small instance. *)
EXTENDS TransactionContract, TLC

Symmetry == Permutations(TxnIds) \cup Permutations(Users)
              \cup Permutations(Hashes) \cup Permutations(Keys)
=============================================================================
