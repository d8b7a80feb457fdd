SPECIFICATION TimerSpec
CONSTANTS
    a = a
    b = b
    Timers <- MCTimers
    First <- MCFirst
    Interval <- MCInterval
    MaxTickCount <- MCMaxTickCount
    ChannelBuffer = 1
    MaxTime = 5
INVARIANTS OnSchedule
PROPERTIES FiresOncePerTime EveryTimerFires
CHECK_DEADLOCK FALSE
