----------------------------- MODULE MCLimiter ------------------------------
(* Model values for Limiter: see MCLimiter.cfg. *)
EXTENDS Limiter
=============================================================================
