CONSTANTS
    MaxTokens = 4
    MaxRequests = 4
    alice = alice
    bob = bob
    Principal = {alice, bob}
    TokenTTL = 1
    SessionTTL = 2
    AbsoluteTTL = 2
    MaxTime = 2
    MaxSessions = 2
    MaxFlight = 2
    MaxEpoch = 2
    Admin = {"a1", "a2"}
    MaxWrites = 1
    Worker = {1, 2}
    Interval = 2
    StaleAfter = 3
    BeatEvery = 1
    ErrorThreshold = 2
    Lag = 1
    Row = {1, 2, 3, 4}
    Job = {"j1", "j2", "j3"}
    BatchSize = 2
    FailureThreshold = 2
    RecoveryTime = 2
    MaxAttempts = 3
    MaxDelay = 2
    Timeout = 3
    MaxClock = 9
    MaxFailures = 4
    Client = {"c", "d"}
    MaxGeneration = 3
    MaxOperator = 2
    Creator = {"c1", "c2"}
    Restorer = {"r1", "r2"}
    Remote = {"qdrant_down"}
    User = {"u", "v"}
    Key = {"k1", "k2"}
    MaxLate = 1
SPECIFICATION Spec
SYMMETRY People
INVARIANTS
    
    WorkersAreWatched
    ArchiveIsComplete
    BreakerIsSound
    
    FaultsAreKnown
PROPERTIES
    RunnerKeepsAccess
    AdminsInControl
    RecoveryIsKept
    DemoIsExact
CHECK_DEADLOCK FALSE
