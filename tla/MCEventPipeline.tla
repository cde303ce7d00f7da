-------------------------- MODULE MCEventPipeline --------------------------
(* A small instance of EventPipeline: the channel holds one entry, so that  *)
(* a push source drops and a poll blocks.                                   *)
EXTENDS EventPipeline
=============================================================================
