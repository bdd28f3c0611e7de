------------------------------ MODULE MCPersona ------------------------------
(* Two profiles, two prompts and two conversions, for TLC. *)
EXTENDS PersonaService
===============================================================================
