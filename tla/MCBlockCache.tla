---------------------------- MODULE MCBlockCache ----------------------------
(* A store with one block more than fit in the cache. *)
EXTENDS BlockCache
=============================================================================
