----------------------------- MODULE MCTimerMgr -----------------------------
EXTENDS TimerMgr

(* One timer that starts at once and repeats for ever, one that fires twice. *)
CONSTANTS a, b
MCTimers == {a, b}
MCFirst == [t \in MCTimers |-> IF t = a THEN 0 ELSE 1]
MCInterval == [t \in MCTimers |-> IF t = a THEN 2 ELSE 1]
MCMaxTickCount == [t \in MCTimers |-> IF t = a THEN 0 ELSE 2]
=============================================================================
