SPECIFICATION PlatformSpec
CONSTANTS
    c1 = c1
    c2 = c2
    c3 = c3
    a0 = a0
    f0 = f0
    x0 = x0
    s0 = s0
    None = None
    Calls <- ThreeCalls
    MayFail = TRUE
    Wallets = {"w1", "w2"}
    References = {"r1", "r2"}
    FirstAccounts <- OneAccount
    FirstFlows <- MCFlows
    FirstEvents <- MCEvents
    Arriving <- MCArriving
    FirstSchedules <- MCSchedules
    EventTypes <- MCTypes
    Length <- MCLength
    MaxTicksOfSchedule = 5
    FirstSessions <- OneSession
    MaxPolls = 2
SYMMETRY CallSymmetry
CHECK_DEADLOCK FALSE
INVARIANTS
    TransfersLoseNothing
    BulksAreAccountedFor
    ReplaysAreAccountedFor
    RunsKeepTheirDistance
    TracesAreComplete
