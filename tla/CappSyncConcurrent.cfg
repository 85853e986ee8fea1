SPECIFICATION Spec
CONSTANTS
    Requests = {r1, r2, r3}
    Specs = {s1, s2}
    GitOpsEnabled = TRUE
    MaxConcurrent = 3
    Faults <- AllFaults
    NoCapp = NoCapp
    NoFile = NoFile
    NoSpec = NoSpec
SYMMETRY Symmetry
INVARIANTS
    TypeOK
    BackupWasLive
    DriftIsReported
PROPERTIES
    OverwritesOnlyWhatWasRead
    LabelChangesOnlyByToggle
    ToggleRestoresAgreement
