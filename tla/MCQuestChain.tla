---------------------------- MODULE MCQuestChain ----------------------------
(* A few turns in the chain at a time, for TLC. *)
EXTENDS QuestChain, TLC

Symmetry == Permutations(Turns)
==============================================================================
