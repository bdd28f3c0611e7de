------------------------- MODULE MCActionLifecycle --------------------------
(* A session with few places for plans, receipts and facts. *)
EXTENDS ActionLifecycle, TLC

Symmetry == Permutations(Subjects)
==============================================================================
