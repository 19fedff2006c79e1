----------------------------- MODULE MCLRUCache -----------------------------
(* The cache with three keys and room for two.                             *)
EXTENDS LRUCacheSpec

MCCallerTTL == {-1, 0, 1}
=============================================================================
