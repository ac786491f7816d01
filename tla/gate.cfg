SPECIFICATION FairSpec
CONSTANTS
    Intents <- Three
    SymbolOf <- StreamSymbols
    SideOf <- AllLong
    ModeOf <- StreamModes
    NotionalOf <- StreamNotional
    RankOf <- RankById
    BarOf <- StreamBars
    EligibleIdio <- AllEligible
    BarTicks = 1
    TtlTicks = 1
    MaxClock = 4
    MaxPerCoin = 2
    MaxSameDirection = 4
    MaxPerBar = 4
    MaxPerSymbolDay = 2
    Paper = FALSE
    Faults <- AllFaults
INVARIANTS ReservationsExclusive ReservedExposureCapped ConfirmedHasOwner
PROPERTIES PendingSettles ClosedRowFreesSlot ImplementsSlotPool
CHECK_DEADLOCK FALSE
