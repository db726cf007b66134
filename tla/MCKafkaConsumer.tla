-------------------------- MODULE MCKafkaConsumer --------------------------
(* Model-checking instance of KafkaConsumer: the .cfg file bounds the log,  *)
(* the claims, the pool and the two channels.                               *)
EXTENDS KafkaConsumer, TLC
=============================================================================
