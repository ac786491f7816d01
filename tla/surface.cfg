SPECIFICATION Spec
CONSTANTS
    Parts = {"feed", "queue", "agent", "tokens"}
    None = None
    MaxConns = 1
    FeedTtl = 1
    MaxMoves = 2
    FeedTime = 1
    SoftCap = 2
    QueueCap = 3
    FullMs = 2
    ThrottleMs = 2
    QueueTime = 5
    MaxTicks = 4
    Agents = {"p", "q"}
    Parents = {1, 2}
    Lookback = 2
    PerformanceCap = 3
    DecisionsCap = 2
    BacktestCap = 3
    Midnight = TRUE
    MaxLaunches = 2
    MaxCrashes = 1
    MaxChildren = 2
    Jtis = {"j", "k"}
    TokenTtl = 2
    Margin = 1
    PruneAfter = 3
    MaxLookup = 1
    TokenTime = 6
    MaxRevokes = 2
INVARIANT SurfaceSound
PROPERTY SurfaceSettles
CHECK_DEADLOCK FALSE
