---------------------------- MODULE MCMqManager ----------------------------
(* Model values for MqManager: see MCMqManager.cfg and MCMqReconnect.cfg.   *)
EXTENDS MqManager
============================================================================
