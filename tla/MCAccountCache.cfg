SPECIFICATION Spec
CONSTANTS
    a1 = a1
    a2 = a2
    r1 = r1
    r2 = r2
    w1 = w1
    w2 = w2
    Nil = Nil
    Accounts = {a1, a2}
    Readers = {r1, r2}
    Writers = {w1, w2}
    MayFail = TRUE
    MaxReads = 1
CHECK_DEADLOCK FALSE
INVARIANTS
    StaleBalancesAreExplained
