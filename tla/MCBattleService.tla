---------------------------- MODULE MCBattleService ---------------------------
(* A small instance of BattleService for TLC. *)
EXTENDS BattleService, MCBattleRoomValues

(* One client per player. *)
TwoClients == {"s1", "s2"}
EachItsPlayer == ("s1" :> 1) @@ ("s2" :> 2)

OneWave == << [start |-> 1, count |-> 2, gap |-> 1, speed |-> 1, path |-> 2] >>
OneGrid == {1}
==============================================================================
