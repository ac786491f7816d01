SPECIFICATION Spec
CONSTANTS
    Closers <- WithMomentum
    Qty = 2
    Paper = FALSE
    Entering = FALSE
    Faults <- Usual
INVARIANT OneClosingFill
CHECK_DEADLOCK FALSE
