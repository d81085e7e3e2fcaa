SPECIFICATION PaymentsAlone
CONSTANTS
    c1 = c1
    c2 = c2
    c3 = c3
    pi1 = pi1
    k1 = k1
    NoKey = NoKey
    Calls <- TwoCalls
    Intents <- OneIntent
    Keys <- OneKey
    Requests <- ConfirmWithKey
    Amount <- MCAmount
    Fee <- MCFee
    MayFail = FALSE
CHECK_DEADLOCK FALSE
INVARIANTS
    OneChargePerKey
