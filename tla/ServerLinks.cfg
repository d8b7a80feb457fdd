SPECIFICATION LinksSpec
CONSTANTS
    None = None
    Instances = {1}
    MaxChanges = 4
    MaxBreaks = 1
    Links = {1, 2, 3}
    MaxLinkBreaks = 1
    MaxRefused = 1
INVARIANTS AgentIsHeld
PROPERTIES EventuallyLinked
CHECK_DEADLOCK FALSE
