-------------------------- MODULE MCRabbitConsumer --------------------------
(* Model values for RabbitConsumer: see MCRabbitConsumer.cfg.               *)
EXTENDS RabbitConsumer
=============================================================================
