SPECIFICATION Spec
CONSTANTS
    Operators = {ann, bob}
    Evaluators <- OneEvaluator
    MaxStamp = 3
    MaxDate = 1
    MaxReHalt = 1
    Settings <- Mixed
SYMMETRY Interchangeable
INVARIANTS OperatorHaltHolds ResumeReleases
CHECK_DEADLOCK FALSE
