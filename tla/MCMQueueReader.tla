--------------------------- MODULE MCMQueueReader ---------------------------
(* Instances of MQueueReader for TLC. *)
EXTENDS MQueueReader
=============================================================================
