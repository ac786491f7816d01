SPECIFICATION Spec
CONSTANTS
    Closers <- Settled
    Qty = 1
    Paper = FALSE
    Entering = FALSE
    Faults <- Usual
INVARIANTS SlotSerializesCloses ClosedMeansFlat
CHECK_DEADLOCK FALSE
