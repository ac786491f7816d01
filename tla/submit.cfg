SPECIFICATION FairSpec
CONSTANTS
    Policies <- AllPolicies
    Qty = 2
    MaxRetry = 2
    MaxRemainder = 3
    MaxProbes = 3
    FaultSets <- AnyFaults
INVARIANTS RefusedEntryNeverDoubled EntryAccounted CleanReduceIsFlat
PROPERTIES HaltStopsIoc HandlerEnds
CHECK_DEADLOCK FALSE
