------------------------------ MODULE TimerMgr ------------------------------
(***************************************************************************)
(* deps/timer_mgr: timers are added and cancelled through two bounded      *)
(* channels and belong to one goroutine, mainLoop, which also handles the  *)
(* ticker.  Add, cancel, tick and the end of the context are the branches  *)
(* of one select, so any of those that are ready may come first.           *)
(*                                                                         *)
(* A timer is added once, cancelled at most once, and each call first      *)
(* looks at running and then, later, at the channel.  The unit of time is  *)
(* the tick interval; the ticker keeps at most one tick, and a late loop   *)
(* works with the time at which it takes it.                               *)
(***************************************************************************)
EXTENDS Naturals, Sequences, FiniteSets

CONSTANTS Timers,         \* timers that callers may add
          First,          \* firstSeconds of each
          Interval,       \* intervalSeconds of each
          MaxTickCount,   \* tickCount of each, 0 without a limit
          ChannelBuffer,  \* capacity of addChan and of cancelChan
          MaxTime         \* bound: time

ASSUME TimerParameters ==
    /\ First \in [Timers -> Nat]
    /\ Interval \in [Timers -> Nat \ {0}]
    /\ MaxTickCount \in [Timers -> Nat]
    /\ ChannelBuffer \in Nat \ {0} /\ MaxTime \in Nat

VARIABLES now,         \* the clock
          tick,        \* a tick waits in the ticker's channel
          running,     \* TimerMgr.running
          loop,        \* mainLoop: "running", "stopping" or "ended"
          status,      \* where each timer is
          addChan, cancelChan,
          canceller,   \* the call of CancelTimer for each timer
          next,        \* NextTimeMs
          added,       \* NextTimeMs when the timer was added
          ticks,       \* TickCount
          last         \* schedule time passed to the last callback

callVars == <<running, loop>>
timerVars == <<now, tick, running, loop, status, addChan, cancelChan, canceller,
               next, added, ticks, last>>

TimerInit ==
    /\ now = 0 /\ tick = FALSE /\ running = TRUE /\ loop = "running"
    /\ status = [t \in Timers |-> "new"]
    /\ addChan = <<>> /\ cancelChan = <<>>
    /\ canceller = [t \in Timers |-> "idle"]
    /\ next = [t \in Timers |-> 0] /\ added = [t \in Timers |-> 0]
    /\ ticks = [t \in Timers |-> 0] /\ last = [t \in Timers |-> 0]

Contexted == loop = "running"

-----------------------------------------------------------------------------
(* AddTimer: running is checked, the first time is set, then the channel    *)
(* takes the timer, is full, or the context turns out to be done; when it   *)
(* could be sent as well, select picks either.                              *)
AddCheck(t) ==
    /\ status[t] = "new"
    /\ IF running
       THEN /\ status' = [status EXCEPT ![t] = "checked"]
            /\ next' = [next EXCEPT ![t] = now + First[t]]
            /\ added' = [added EXCEPT ![t] = now + First[t]]
       ELSE /\ status' = [status EXCEPT ![t] = "refused"]
            /\ UNCHANGED <<next, added>>
    /\ UNCHANGED <<now, tick, callVars, addChan, cancelChan, canceller, ticks, last>>

AddSend(t) ==
    /\ status[t] = "checked"
    /\ \/ /\ Len(addChan) < ChannelBuffer
          /\ addChan' = Append(addChan, t)
          /\ status' = [status EXCEPT ![t] = "queued"]
       \/ /\ Len(addChan) = ChannelBuffer \/ ~Contexted
          /\ status' = [status EXCEPT ![t] = "refused"]
          /\ UNCHANGED addChan
    /\ UNCHANGED <<now, tick, callVars, cancelChan, canceller, next, added, ticks, last>>

(* CancelTimer, once AddTimer has returned the id.                          *)
CancelCheck(t) ==
    /\ canceller[t] = "idle" /\ status[t] \in {"queued", "active", "done"}
    /\ canceller' = [canceller EXCEPT ![t] = IF running THEN "checked" ELSE "refused"]
    /\ UNCHANGED <<now, tick, callVars, status, addChan, cancelChan, next, added, ticks, last>>

CancelSend(t) ==
    /\ canceller[t] = "checked"
    /\ \/ /\ Len(cancelChan) < ChannelBuffer
          /\ cancelChan' = Append(cancelChan, t)
          /\ canceller' = [canceller EXCEPT ![t] = "queued"]
       \/ /\ Len(cancelChan) = ChannelBuffer \/ ~Contexted
          /\ canceller' = [canceller EXCEPT ![t] = "refused"]
          /\ UNCHANGED cancelChan
    /\ UNCHANGED <<now, tick, callVars, status, addChan, next, added, ticks, last>>

-----------------------------------------------------------------------------
(* mainLoop.  The add comes first when both channels are ready and it is    *)
(* picked; a cancel of a timer that is not registered yet is lost.          *)
AddInternal ==
    /\ loop # "ended" /\ addChan # <<>>
    /\ addChan' = Tail(addChan)
    /\ status' = [status EXCEPT ![Head(addChan)] = "active"]
    /\ UNCHANGED <<now, tick, callVars, cancelChan, canceller, next, added, ticks, last>>

Cancelled(t) == IF status[t] = "active" THEN "cancelled" ELSE status[t]
CancelInternal ==
    /\ loop # "ended" /\ cancelChan # <<>>
    /\ cancelChan' = Tail(cancelChan)
    /\ LET t == Head(cancelChan)
       IN  /\ status' = [status EXCEPT ![t] = Cancelled(t)]
           /\ canceller' = [canceller EXCEPT ![t] = "handled"]
    /\ UNCHANGED <<now, tick, callVars, addChan, next, added, ticks, last>>

(* processTickers: every timer that is due fires once, for the latest of    *)
(* its times that has passed; the next one is an interval after that, and a *)
(* timer that has fired often enough is dropped.                            *)
DueExactly == {t \in Timers : status[t] = "active" /\ next[t] = now}
Due == {t \in Timers : status[t] = "active" /\ next[t] <= now}
Missed(t) == (now - next[t]) \div Interval[t]
ScheduleTime(t) == next[t] + Missed(t) * Interval[t]
NextTimeFromNow(t) == now + Interval[t]
NextTime(t) == ScheduleTime(t) + Interval[t]
ExhaustedOneLate(t) == MaxTickCount[t] > 0 /\ ticks[t] + 1 > MaxTickCount[t]
Exhausted(t) == MaxTickCount[t] > 0 /\ ticks[t] + 1 >= MaxTickCount[t]

ProcessTickers ==
    /\ loop # "ended" /\ tick
    /\ tick' = FALSE
    /\ last' = [t \in Timers |-> IF t \in Due THEN ScheduleTime(t) ELSE last[t]]
    /\ ticks' = [t \in Timers |-> IF t \in Due THEN ticks[t] + 1 ELSE ticks[t]]
    /\ next' = [t \in Timers |-> IF t \in Due THEN NextTime(t) ELSE next[t]]
    /\ status' = [t \in Timers |-> IF t \in Due /\ Exhausted(t) THEN "done" ELSE status[t]]
    /\ UNCHANGED <<now, callVars, addChan, cancelChan, canceller, added>>

(* Stop clears running, ends the context and waits for the loop; the loop   *)
(* may still pick other branches before it sees the context.                *)
TimerStop ==
    /\ running
    /\ running' = FALSE /\ loop' = "stopping"
    /\ UNCHANGED <<now, tick, status, addChan, cancelChan, canceller, next, added, ticks, last>>

LoopEnds ==
    /\ loop = "stopping" /\ loop' = "ended"
    /\ UNCHANGED <<now, tick, running, status, addChan, cancelChan, canceller,
                   next, added, ticks, last>>

(* The clock; the ticker drops a tick when one is waiting already.  At the  *)
(* bound the clock stays, and the ticker goes on.                           *)
Clock ==
    /\ now' = IF now < MaxTime THEN now + 1 ELSE now
    /\ tick' = TRUE
    /\ UNCHANGED <<callVars, status, addChan, cancelChan, canceller, next, added, ticks, last>>

MainLoop == AddInternal \/ CancelInternal \/ ProcessTickers \/ LoopEnds
Callers == \E t \in Timers : AddCheck(t) \/ AddSend(t) \/ CancelCheck(t) \/ CancelSend(t)
TimerNext == MainLoop \/ Callers \/ TimerStop \/ Clock

(* select picks at random among the branches that are ready, so one that is *)
(* ready again and again is picked in the end.                              *)
TimerFairness ==
    /\ SF_timerVars(AddInternal) /\ SF_timerVars(CancelInternal)
    /\ SF_timerVars(ProcessTickers) /\ WF_timerVars(LoopEnds)
    /\ WF_timerVars(Clock)
    /\ \A t \in Timers : WF_timerVars(AddSend(t)) /\ WF_timerVars(CancelSend(t))

TimerSpec == TimerInit /\ [][TimerNext]_timerVars /\ TimerFairness

-----------------------------------------------------------------------------
Fired(t) == ticks'[t] # ticks[t]

(* A timer stays on the times it was added for, however late the loop is:   *)
(* the next time is a whole number of intervals after the first, at most    *)
(* one interval ahead of the clock once it has fired, and an interval after *)
(* the last time that was fired.                                            *)
OnSchedule ==
    \A t \in Timers : status[t] \in {"queued", "active"} =>
        /\ next[t] >= added[t] /\ (next[t] - added[t]) % Interval[t] = 0
        /\ next[t] = added[t] \/ next[t] = last[t] + Interval[t]
        /\ next[t] <= now + Interval[t] \/ next[t] = added[t]

(* No time is fired twice, none before it is due, and none by a timer that  *)
(* was cancelled or has used up its count.                                  *)
FiresOncePerTime ==
    [][\A t \in Timers : Fired(t) =>
          /\ status[t] = "active"
          /\ ticks[t] > 0 => last'[t] > last[t]
          /\ added[t] <= last'[t] /\ last'[t] <= now
          /\ MaxTickCount[t] > 0 => ticks'[t] <= MaxTickCount[t]]_timerVars

(* An accepted timer that nobody cancels fires, unless the manager stops.   *)
EveryTimerFires ==
    \A t \in Timers :
        status[t] \in {"queued", "active"} /\ canceller[t] = "idle" /\ added[t] <= MaxTime
            ~> ticks[t] > 0 \/ ~running \/ canceller[t] # "idle"
=============================================================================
