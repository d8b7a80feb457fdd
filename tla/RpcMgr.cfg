SPECIFICATION RpcSpec
CONSTANTS
    Calls <- TheCalls
    Blocking <- TheBlocking
    ClientWait = 2
    ServerWait = 1
    MaxTime = 4
INVARIANTS
    OneVerdict
    StopIsFinal
PROPERTIES
    NoStartAfterTimeout
    EveryCallEnds
CHECK_DEADLOCK FALSE
