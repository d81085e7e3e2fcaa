SPECIFICATION PipelineFairSpec
CONSTANTS
    c1 = c1
    c2 = c2
    c3 = c3
    pi1 = pi1
    k1 = k1
    NoKey = NoKey
    Calls <- TwoCalls
    Intents <- OneIntent
    Keys = {}
    Requests <- ConfirmOrRefund
    Amount <- MCAmount
    Fee <- NoFee
    MayFail = TRUE
CHECK_DEADLOCK FALSE
PROPERTIES
    LossIsReported
