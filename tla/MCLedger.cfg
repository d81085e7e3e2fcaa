SPECIFICATION OutboxSpec
CONSTANTS
    c1 = c1
    c2 = c2
    c3 = c3
    p1 = p1
    p2 = p2
    Calls <- MCCalls
    Accounts <- MCAccounts
    Currency <- MCCurrency
    Requests <- MCRequests
    WordBits = 4
    Publishers = {}
    BatchLimit = 1
    Unsendable = {}
    MaxCrashes = 0
SYMMETRY CallSymmetry
INVARIANTS
    OneTransactionPerReference
    EntriesSumToZero
    AcknowledgedIsRecorded
PROPERTIES
    ImplementsAtomicLedger
