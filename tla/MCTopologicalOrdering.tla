------------------------- MODULE MCTopologicalOrdering -------------------------
(* Every graph over three nodes, self-loops included, ordered through every
   entry point and in every iteration order. *)
EXTENDS TopologicalOrdering
=============================================================================
