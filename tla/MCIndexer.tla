----------------------------- MODULE MCIndexer -----------------------------
(* Indexer on a small instance. *)
EXTENDS Indexer

\* Blocks with one and with two events.
SmallBlocks ==
    {<<k>> : k \in EventKeys \cup {Other}} \cup
    ({<<j, k>> : j \in EventKeys, k \in EventKeys \cup {Other}} \ {<<k, k>> : k \in EventKeys})
=============================================================================
