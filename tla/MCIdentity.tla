------------------------------ MODULE MCIdentity ------------------------------
(* Two clients, a platform, three accounts and two persons, for TLC. *)
EXTENDS IdentitySync, TLC

CONSTANTS c1, c2, p1, a1, a2, a3, ling, yan

Symmetric == Permutations({c1, c2}) \cup Permutations({a1, a2, a3})
                \cup Permutations({ling, yan})
===============================================================================
