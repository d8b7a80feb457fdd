SPECIFICATION DiscoverySpec
CONSTANTS
    None = None
    Instances = {1, 2}
    MaxChanges = 4
    MaxBreaks = 1
PROPERTY GoneIsForgotten
CHECK_DEADLOCK FALSE
