\* All settings are right; a process that was signalled or has failed stops.
SPECIFICATION LifeSpec
CHECK_DEADLOCK FALSE
CONSTANTS
    Sites = 2
    Calls = {}
    MaxStarts = 1
    MaxOff = 1
    HostFaults = {}
    NoCause = NoCause
PROPERTIES
    UnreachableClustersAreSkipped
