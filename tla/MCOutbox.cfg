SPECIFICATION OutboxFairSpec
CONSTANTS
    c1 = c1
    c2 = c2
    c3 = c3
    p1 = p1
    p2 = p2
    Calls <- TwoCalls
    Accounts <- OneAccount
    Currency <- MCCurrency
    Requests <- EmptyPayments
    WordBits = 4
    Publishers <- TwoPublishers
    BatchLimit = 2
    Unsendable <- OneUnsendable
    MaxCrashes = 1
INVARIANTS
    ProcessedWasPublished
PROPERTIES
    EveryEventIsPublished
