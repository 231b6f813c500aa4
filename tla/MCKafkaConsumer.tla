-------------------------- MODULE MCKafkaConsumer --------------------------
(* Values for KafkaConsumer: see the MCKafkaConsumer*.cfg files.            *)
EXTENDS KafkaConsumer
============================================================================
