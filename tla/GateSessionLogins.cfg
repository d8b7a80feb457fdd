SPECIFICATION GateSpec
CONSTANTS
    MaxSess = 2
    TokenUses = 1
    CacheTime = 1
    MaxTime = 2
INVARIANTS
    GateTypeOK
PROPERTIES
    EventuallyOneSession
CHECK_DEADLOCK FALSE
