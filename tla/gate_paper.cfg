SPECIFICATION Spec
CONSTANTS
    Intents <- Four
    SymbolOf <- MixedSymbols
    SideOf <- AllLong
    ModeOf <- MixedModes
    NotionalOf <- UnitNotional
    RankOf <- RankById
    BarOf <- MixedBars
    EligibleIdio <- AllEligible
    BarTicks = 2
    TtlTicks = 1
    MaxClock = 4
    MaxPerCoin = 4
    MaxSameDirection = 5
    MaxPerBar = 2
    MaxPerSymbolDay = 2
    Paper = TRUE
    Faults <- DropOnly
INVARIANTS OneRowPerSlot BarCapHeld
CHECK_DEADLOCK FALSE
