SPECIFICATION PaymentsAlone
CONSTANTS
    c1 = c1
    c2 = c2
    c3 = c3
    pi1 = pi1
    k1 = k1
    NoKey = NoKey
    Calls <- ThreeCalls
    Intents <- OneIntent
    Keys <- OneKey
    Requests <- AllKinds
    Amount <- MCAmount
    Fee <- MCFee
    MayFail = TRUE
SYMMETRY CallSymmetry
CHECK_DEADLOCK FALSE
INVARIANTS
    MoneyBehindEveryRecord
PROPERTIES
    NoChargeOnceSettled
