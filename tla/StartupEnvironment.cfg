\* One setting is off; a process whose settings are refused stops.
SPECIFICATION SettingsSpec
CHECK_DEADLOCK FALSE
CONSTANTS
    Sites = 2
    Calls = {}
    MaxStarts = 3
    MaxOff = 1
    HostFaults = {}
    NoCause = NoCause
INVARIANTS
    MendedAsToldIsAccepted
