--------------------------- MODULE MCOperatorForms ----------------------------
EXTENDS OperatorForms, TLC
CONSTANTS t1, t2

RequestSymmetry == Permutations(Requests)
==============================================================================
