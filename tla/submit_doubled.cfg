SPECIFICATION Spec
CONSTANTS
    Policies <- Entries
    Qty = 2
    MaxRetry = 2
    MaxRemainder = 3
    MaxProbes = 3
    FaultSets <- Ambiguous
INVARIANT EntryNeverDoubled
CHECK_DEADLOCK FALSE
