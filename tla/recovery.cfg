SPECIFICATION Spec
CONSTANTS
    Parts = {"protection", "exits", "boot", "calls", "fills", "candles"}
    None = None
    Flatten = TRUE
    Faults = {"ordersFail", "attachFails", "orderPending", "positionsFail"}
    MaxTroubles = 2
    Deadline = 1
    Qty = 2
    ExitTime = 2
    MaxFaults = 1
    MaxEscalations = 1
    MaxCrashes = 1
    Engines = {"p", "q"}
    MaxBoots = 2
    MaxDamage = 1
    Callers = {"p", "q"}
    Symbols = {"a"}
    Window = 1
    Capacity <- MCCapacity
    Share = 1
    MaxWait = 1
    RetryAfters = {0, 3}
    DefaultFreeze = 1
    FreezeCap = 4
    Decay = 2
    UsedCounts = {2}
    CallTime = 3
    MaxRequests = 3
    MaxBans = 2
    Orders <- MCOrders
    Quotes <- MCQuotes
    Threshold = 2
    Cap = 2
    MaxOrders = 2
    MaxOutages = 1
    BarLen = 2
    DayLen = 2
    FeedTime = 6
    MaxLag = 2
    MaxTicks = 4
    MaxLoops = 2
INVARIANTS  BootSound FeedsSound
PROPERTIES NothingRisked PositionsRecover EngineSettles
CHECK_DEADLOCK FALSE
