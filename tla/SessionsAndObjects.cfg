\* Three commands for "one reads, another one writes, the first one writes";
\* two contexts, entries, keys and replicas are the least that can be mixed up.
SPECIFICATION MCSpec
CONSTANTS
    Commands = {1, 2, 3}
    Contexts = {1, 2}
    MaxIssued = 3
    CliFaults = {"unheard", "save"}
    NoContext = NoContext
    MaxRunning = 2
    LdapLogins = {1, 2}
    DNs = {1, 2}
    Names = {"alice", "bob"}
    Passwords = {"right", "wrong"}
    Groups = {staff}
    Replicas = {r1, r2}
    Keys = {"old", "new"}
    NoUser = NoUser
    NoToken = NoToken
    TokenTTL = 1
    MaxUserChanges = 2
    Accesses = {1, 2}
    Payloads = {"v1", "v2"}
    NoObject = NoObject
    ObjectFaults = {"api", "lost"}
    Updates = {c1}
    Values = {"v1", "v2"}
    Volumes = {vol}
    Sizes <- SizesByName
    Applied <- SomeCapps
    Bodies <- SomeBodies
    Flags <- SomeFlags
    NoCapp = NoCapp
    Unset = Unset
    Blank = Blank
    Malformed = Malformed
    Triggers = {t1, t2, t3}
    Capps = {capp1, capp2}
    JobNames = {job1}
    NameOf <- SharedName
    MaxTriggers = 3
    MaxDeletions = 1
    NoJob = NoJob
    JobFaults = {"k8s", "k8s_lost"}
    capp1 = capp1
    capp2 = capp2
    job1 = job1
    NamespaceRequests = {1, 2, 3}
    Users = {u1, u2}
    Resources = {cpu}
    MaxAmount = 1
    MaxRequests = 2
    NamespaceFaults = {"api", "lost", "crash"}
    Absent = Absent
    NoQuota = NoQuota
    NoBinding = NoBinding
    Invalid = Invalid
    BrowserLogins = {1, 2}
    OAuthReplicas = {o1, o2}
    LastSecret = 2
    StateTTL = 4
    CallbackWait = 2
    NoTab = NoTab
SYMMETRY Symmetry
INVARIANTS
    SessionsAndObjectsTypeOK
    RefreshTokenIsAccepted
    PairsStayWithTheirContext
    TokenSaysWhatWasTrue
    TokensSurviveRotation
    RefusedForACause
    CreatedJobIsThere
PROPERTIES
    OnlyManagedObjectsChange
    UpdateChangesWhatFlagsName
    LimitsStayAboveUsage
    UsersAreRemovedByPutOnly
    DeleteTakesNewCappsOnly
    OwnCallbackIsAccepted
