SPECIFICATION CommerceSpec
CONSTANTS
    c1 = c1
    c2 = c2
    c3 = c3
    x0 = x0
    None = None
    Calls <- ThreeCalls
    MayFail = TRUE
    FirstSubs <- OneRow
    Plans = {"gold"}
    MaxNow = 2
    MaxCharges = 2
    FirstPlatforms <- OneRow
    Emails = {"e0", "e1", "e2"}
    Payouts <- MCPayouts
    Users = {"u"}
    Limit = 10
    Threshold = 1
    Window = 2
    MaxTime = 3
    MaxRestarts = 1
    FirstTickets <- OneRow
    FirstContracts <- OneRow
    Tiers = {"t1"}
    ResponseTime = 1
    MaxClock = 2
    FirstProjects <- OneRow
    FirstStatus = "approved"
    Offers = {"offer"}
SYMMETRY CallSymmetry
CHECK_DEADLOCK FALSE
INVARIANTS
    PeriodsArePaidOnce
    SettingsComeInPairs
    VelocityIsExact
    TicketsAddUp
    StagesAreBacked
PROPERTIES
    CancelsYieldToRenewalsOnly
