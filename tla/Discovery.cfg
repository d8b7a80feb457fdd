SPECIFICATION DiscoverySpec
CONSTANTS
    None = None
    Instances = {1, 2, 3}
    MaxChanges = 5
    MaxBreaks = 1
INVARIANTS IndexConsistent TableFollows
PROPERTIES EveryInstanceListed
CHECK_DEADLOCK FALSE
