------------------------------ MODULE MCSettings ------------------------------
EXTENDS SettingsPolicy, TLC
CONSTANTS short, long

(* Limits occur in no order and no CHOOSE. *)
LimitSymmetry == Permutations(Limits)
==============================================================================
