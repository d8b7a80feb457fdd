SPECIFICATION SeqSpec
CONSTANTS
    SeqMod = 6
    CacheTime = 0
    WriteChan = 2
    Window = 2
    Repeats = 1
    MaxSess = 3
    Loads <- MCLoads
INVARIANTS
    NothingLost
    RequestsOnce
PROPERTIES
    NoMixUp
    EventuallyDelivered
CHECK_DEADLOCK FALSE
