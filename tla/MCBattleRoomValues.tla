-------------------------- MODULE MCBattleRoomValues --------------------------
(* Values of the constants of BattleRoom for TLC. *)
EXTENDS Integers, Sequences, TLC

MCPlayers == {1, 2}
MCGrids == {1, 2}

(* Player 1 may build on both grids, player 2 on the second one only. *)
MCBuildGrids == (1 :> {1, 2}) @@ (2 :> {2})
NoBuildGrids == [x \in {} |-> x]

NoTypes == <<>>
MCDeck == <<101, 102>>
(* Player 2 brings no deck and gets the default one. *)
MCDecks == (1 :> <<101>>) @@ (2 :> <<>>)

(* Two overlapping waves, the last with gap and speed left to NewRoom's *)
(* defaults, and one without monsters, which NewRoom drops.             *)
MCWaves == << [start |-> 1, count |-> 2, gap |-> 2, speed |-> 2, path |-> 3],
              [start |-> 0, count |-> 0, gap |-> 1, speed |-> 1, path |-> 1],
              [start |-> 2, count |-> 1, gap |-> 0, speed |-> 0, path |-> 2] >>
==============================================================================
