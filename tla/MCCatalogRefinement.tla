-------------------------- MODULE MCCatalogRefinement --------------------------
(* CatalogRefinement for TLC. *)
EXTENDS CatalogRefinement
=============================================================================
