SPECIFICATION FlowFairSpec
CONSTANTS
    m1 = m1
    r1 = r1
    r2 = r2
    e1 = e1
    e2 = e2
    Nobody = Nobody
    NoNode = NoNode
    Messages <- OneMessage
    EventType <- MCEventType
    Resumers <- TwoResumers
    Editors <- TwoEditors
    Nodes <- MCNodes
    Contents <- ThreeContents
    FirstContent <- Guarded
    Body <- MCBody
    MayFail = TRUE
    MaxCrashes = 1
CHECK_DEADLOCK FALSE
INVARIANTS
    HistoryIsLinear
    NothingPassesUnapproved
PROPERTIES
    EveryJobReturns
