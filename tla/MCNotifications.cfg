SPECIFICATION FairSpec
CONSTANTS
    r1 = r1
    r2 = r2
    MaxEvent = 1
    Types = {"user_registered", "password_reset", "payment_succeeded"}
    Replicas = {r1, r2}
    MaxFaults = 2
CHECK_DEADLOCK FALSE
INVARIANTS
    AcknowledgedMeansTold
    RepeatsAreExplained
PROPERTIES
    EveryTaskSettles
