SPECIFICATION MCFairSpec
CONSTANTS
    Replicas = {n1, n2}
    Calls = {c1, c2, c3}
    Paths = {p1, p2}
    Contents = {v1}
    Faults <- LocalFaults
    NoFile = NoFile
    NoCall = NoCall
PROPERTIES
    OnlyRequestedChangesArePushed
    EveryCallReturns
