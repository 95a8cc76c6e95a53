------------------------- MODULE MCCatalogPipeline --------------------------
(* CatalogPipeline on small instances for TLC. *)
EXTENDS CatalogPipeline

CONSTANTS a1, p1, p2, c1, i1

\* Two catalog replicas and one writer of the index; one replica with everything
\* that can set a document back.
MCSetups ==
    {[publishers |-> {p1, p2}, reindexers |-> {}, rows |-> 3, expired |-> 0, late |-> FALSE],
     [publishers |-> {p1}, reindexers |-> {i1}, rows |-> 2, expired |-> 1, late |-> TRUE]}
=============================================================================
