----------------------------- MODULE MCLocalCache -----------------------------
(* A cache of two entries used with three versions: every access order up to
   MaxUses, so that evictions, re-insertions and deletions interleave. *)
EXTENDS LocalCache
=============================================================================
