SPECIFICATION ToolSpec
CONSTANTS
    c1 = c1
    c2 = c2
    c3 = c3
    c4 = c4
    x0 = x0
    v0 = v0
    None = None
    Calls <- FourCalls
    MayFail = TRUE
    MaxRequests = 2
    TripAfter = 0
    Interval = 2
    Timeout = 1
    MaxTicks = 4
    MaxAttempts = 3
    InitialDelay = 1
    Multiplier = 2
    MaxDelay = 3
    FirstLetters <- OneLetter
    MaxRetries = 3
    RetryDelays <- Waits
    TTL = 2
    MaxDate = 2
    Tenants = {"t"}
    Paths <- MCPaths
    TierLimit <- Tiering
    DefaultTier = "free"
    Span = 1
    MaxMoment = 2
    Loggers = {"l1", "l2"}
    FineClocks = {"l2"}
    BatchSize = 2
    MaxStarts = 1
    Managers = {"m1", "m2"}
    FirstSecrets <- MCSecrets
SYMMETRY CallSymmetry
CHECK_DEADLOCK FALSE
INVARIANTS
    BreakerHolds
    FailuresAreBuried
    LettersAreKept
    LimitsAreExact
    ChainsHold
    NothingIsDropped
    OldSecretsAreExplained
