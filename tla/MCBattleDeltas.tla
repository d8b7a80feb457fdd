---------------------------- MODULE MCBattleDeltas ----------------------------
(* A small battle with the receiver's mirror, for TLC. *)
EXTENDS BattleDeltas, MCBattleRoomValues
==============================================================================
