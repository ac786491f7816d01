SPECIFICATION Spec
CONSTANTS
    Parts = {"promotion", "shadow", "replay", "stats", "login", "alerts", "backup", "pages"}
    Versions = {a, b, c}
    Operators = {p, q}
    Workers = {v, w}
    None = None
    Weaknesses = {{}, {6, 10}}
    MaxTx = 2
    MaxRestarts = 1
    MaxEvent = 2
    PerDay = 3
    StaleAge = 1
    MaxTrades = 1
    HaltAfter = 1
    Ips = {"i", "j"}
    LoginWindow <- MCWindow
    LoginLimit <- MCLimit
    Clamp = 4
    LoginTime = 4
    MaxAttempts = 5
    MaxCrashes = 1
    MaxToggles = 3
    AlertKeys = {"k"}
    Coalesce = 2
    AlertWindow = 3
    Ceiling = 2
    RetryAfters = {1, 2}
    AlertTime = 4
    MaxAlerts = 3
    Retention = 2
    BackupTime = 5
    Symbols <- MCSymbols
    RangeBars = 8
    TrainBars = 3
    ValidationBars = 2
    OosBars = 2
    StepBars = 1
    Hold = 2
    Slots = 1
    Fundings = {2, 3}
    Tags = {"u", "v"}
    PageResults <- MCResults
    PageSize = 1
    DayLen = 1
    WindowDays = 0
    PagesTime = 1
    MaxRows = 2
    MaxLag = 1
    MaxRotations = 1
SYMMETRY Symmetry
INVARIANTS PromotionSound ShadowSound ReplaySound OperationsSound StatsSound
CHECK_DEADLOCK FALSE
