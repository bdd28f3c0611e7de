---------------------------- MODULE MCEventStream ----------------------------
(* A small session of EventStream for TLC. *)
EXTENDS EventStream, TLC
==============================================================================
