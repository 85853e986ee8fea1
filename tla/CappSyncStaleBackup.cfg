SPECIFICATION Spec
CONSTANTS
    Requests = {r1, r2}
    Specs = {s1, s2}
    GitOpsEnabled = TRUE
    MaxConcurrent = 2
    Faults = {}
    NoCapp = NoCapp
    NoFile = NoFile
    NoSpec = NoSpec
INVARIANTS
    SyncedUpdatesAreCommitted
