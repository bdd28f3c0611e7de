--------------------------- MODULE MCBridgeService ----------------------------
(* Two credentials that draw the same code, a user and the series panel, two ports
   and a proxy, for TLC.  The panel may do what the user may, and the rest without an
   owner, so the two are interchangeable as owners of credentials. *)
EXTENDS BridgeService, TLC

CONSTANTS t1, t2, p1, p2, proxy, admin, panel

Symmetric ==
    Permutations({t1, t2}) \cup Permutations({p1, p2}) \cup Permutations({admin, panel})
==============================================================================
