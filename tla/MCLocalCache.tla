---------------------------- MODULE MCLocalCache ----------------------------
(* Values for LocalCache: see MCLocalCache.cfg.                             *)
EXTENDS LocalCache
============================================================================
