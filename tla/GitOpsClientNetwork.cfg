SPECIFICATION Spec
CONSTANTS
    Replicas = {n1, n2}
    Calls = {c1, c2, c3}
    Paths = {p1, p2}
    Contents = {v1, v2}
    Faults <- NetworkFaults
    NoFile = NoFile
    NoCall = NoCall
SYMMETRY Symmetry
INVARIANTS
    TypeOK
    UnlockedCloneIsClean
PROPERTIES
    ImplementsGitStore
