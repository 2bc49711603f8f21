---------------------------- MODULE MCTurnRotation ----------------------------
(* Words of one and two letters for TLC. *)
EXTENDS TurnRotation

ShortWords == {1, 2}
================================================================================
