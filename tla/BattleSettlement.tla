--------------------------- MODULE BattleSettlement ---------------------------
(***************************************************************************)
(* What the battle service promises about the end of a battle, without     *)
(* goroutines, ticks or locks: one outcome is decided, and that outcome    *)
(* and no other is reported to the logic service, once                     *)
(* (src/src/service/battle/battleapp/battlesvr.go, finishBattleRoom).      *)
(***************************************************************************)
EXTENDS Sequences

CONSTANTS Outcomes,   \* final outcomes of a battle
          Undecided   \* not one of them

VARIABLES outcome,    \* the outcome of the room
          reports     \* settlements sent to logic, oldest first

outcomeVars == <<outcome, reports>>

OutcomeInit == outcome = Undecided /\ reports = <<>>

Decide ==
    /\ outcome = Undecided
    /\ outcome' \in Outcomes
    /\ UNCHANGED reports

Report ==
    /\ outcome # Undecided
    /\ reports = <<>>
    /\ reports' = <<outcome>>
    /\ UNCHANGED outcome

OutcomeNext == Decide \/ Report

OutcomeSpec ==
    /\ OutcomeInit /\ [][OutcomeNext]_outcomeVars
    /\ WF_outcomeVars(Decide) /\ WF_outcomeVars(Report)
==============================================================================
