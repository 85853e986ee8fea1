\* One client more than the store has room for; half a token a tick.
SPECIFICATION MCSpec
CONSTANTS
    Clients = {1, 2, 3}
    Requests = {1, 2, 3, 4}
    Burst = 1
    Rate = 1
    Price = 2
    MaxEntries = 2
    MaxTime = 4
    Callers = {a1, a2}
    Tokens = {t1}
    Identities = {alice, bob}
    Invalid = Invalid
    NoEntry = NoEntry
    TTL = 2
    ReviewTime = 1
    Clusters = {k1, k2}
    Nobody = Nobody
    Sites = 2
    Calls = {c1, c2}
    MaxStarts = 4
    MaxOff = 2
    HostFaults = {"pod", "port"}
    NoCause = NoCause
INVARIANTS
    RequestPathTypeOK
    ClientsAreLimited
    RefusedForOwnRequestsOnly
    FlagIsRecent
    AcceptedSettingsStart
    NothingIsToldLate
    CleanExitAnswersAll
PROPERTIES
    AuthenticatedWasValid
    ExpiredEntriesGo
    FlagsFollowClusters
    StopEnds
