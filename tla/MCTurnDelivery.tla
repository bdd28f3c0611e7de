--------------------------- MODULE MCTurnDelivery ---------------------------
(* Every kind of turn with short replies, for TLC. *)
EXTENDS TurnDelivery, TLC
==============================================================================
