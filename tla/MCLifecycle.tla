---------------------------- MODULE MCLifecycle ----------------------------
(* Values for Lifecycle: see MCLifecycle.cfg and MCLifecycleAsync.cfg.      *)
EXTENDS Lifecycle
============================================================================
