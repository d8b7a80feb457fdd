SPECIFICATION Spec
CONSTANTS
    Pools <- MCPools
    Keys = {1}
    Size <- MCSize
    WorkerOf <- MCWorkerOf
    QueueSize = 1
    Payloads <- MCCalls
    Calls <- MCCalls
    Nothing = Nothing
    MaxPosts <- MCMaxPosts
INVARIANTS KeyOrder StopRunsAccepted ResponsesHandled
PROPERTIES ServerStops
CHECK_DEADLOCK FALSE
