---------------------------- MODULE MCCatalogCache ----------------------------
(* CatalogCache for TLC.  Slots and catalogs are interchangeable; replicas
   are too, for safety properties. *)
EXTENDS CatalogCache, TLC

Symmetry == Permutations(Requests) \cup Permutations(Bytes) \cup Permutations(Replicas)
=============================================================================
