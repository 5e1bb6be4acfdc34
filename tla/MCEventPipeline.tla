-------------------------- MODULE MCEventPipeline --------------------------
(* TLC instances of EventPipeline; the values of the constants are in the .cfg
   files. *)
EXTENDS EventPipeline
=============================================================================
