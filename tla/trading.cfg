SPECIFICATION Spec
CONSTANTS
    Parts = {"rebalance", "entry", "ledger", "excursion", "day", "universe", "paper", "closes"}
    None = None
    BasketSymbols = {"x", "y"}
    TopN = 1
    Cooldown = 1
    MaxWait = 2
    Period = 2
    MaxTime = 2
    MaxOrders = 3
    MaxManual = 1
    Bars <- MCBars
    Snapshots <- MCSnapshots
    FillPrices <- MCFills
    Capital = 1000000
    PerCoin = 2000000
    MinNotional = 20000
    Relax = FALSE
    Symbols = {"a"}
    UniverseTiers = {"t1", "t2"}
    MaxSymbols = 1
    MaxRefreshes = 3
    MaxRestarts = 2
    ClosingOrders = {"a", "b"}
    Partials = 2
    MaxFunding = 2
    MaxMinutes = 1
    Peak = 2
    MaxObjects = 3
    MaxCrashes = 1
    Positions = {1, 2}
    Results <- MCResults
    DailyLimit = 2
    StreakLimit = 2
    DayHandlers = {"h"}
    MaxDay = 1
    Coids = {"a"}
    Callers = {"p", "q"}
    Start = 10
    Pnls <- MCPnls
    Fundings = {1}
    Marks <- MCMarks
    MaxOps = 3
    Lots = 3
    CloseFaults = {"partial", "throws"}
INVARIANTS BasketSound EntrySound RecordsSound ClosesBooked UniverseSound PaperBooksSound ClosesSound
PROPERTY NothingUndone
CHECK_DEADLOCK FALSE
