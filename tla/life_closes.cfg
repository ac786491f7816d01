SPECIFICATION FairSpec
CONSTANTS
    Closers <- Entered
    Qty = 2
    Paper = FALSE
    Entering = TRUE
    Faults <- Everything
PROPERTY FlatEndsClosed
CHECK_DEADLOCK FALSE
