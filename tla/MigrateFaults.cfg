SPECIFICATION Spec
CONSTANTS
    Migrations = {m1, m2}
    Places = {east, west}
    Secrets = {secret}
    ConfigMaps = {configMap}
    Hostnames = {h1, h2}
    MaxConcurrent = 2
    Faults <- AllFaults
    UserCreates = {"capp", "dep"}
    NoCapp = NoCapp
    NoDep = NoDep
    NoHost = NoHost
    User = User
SYMMETRY Symmetry
INVARIANTS
    TypeOK
    CappIsNeverLost
    FailedMigrationCleansUp
    TargetHasDependents
    BypassLastsAsLongAsTheMove
