----------------------------- MODULE MCEvidence -----------------------------
(***************************************************************************)
(* Small instances of what is kept about trading and around it, none of    *)
(* which needs fairness: promotion of strategy versions, shadow decisions, *)
(* the replay and its statistics, login and alert limits, backups and the  *)
(* pages of the read API. They share no state: a behaviour is one          *)
(* component's, which one is chosen at the start, and the variables of the *)
(* others stay off.                                                        *)
(***************************************************************************)
EXTENDS Integers, TLC

CONSTANTS
    Parts, Versions, Operators, Workers, None,
    Weaknesses, MaxTx, MaxRestarts,                         \* of the promotions
    MaxEvent, PerDay, StaleAge, MaxTrades, HaltAfter,       \* of the shadow ledger
    Ips, LoginWindow, LoginLimit, Clamp, LoginTime, MaxAttempts, MaxCrashes, MaxToggles,    \* of the login limits
    AlertKeys, Coalesce, AlertWindow, Ceiling, RetryAfters, AlertTime, MaxAlerts,    \* of the alerts
    Retention, BackupTime,                                  \* of the backups
    Symbols, RangeBars, TrainBars, ValidationBars, OosBars, StepBars, Hold, Slots, Fundings,    \* of the replay
    Tags, PageResults, PageSize, DayLen, WindowDays, PagesTime, MaxRows, MaxLag, MaxRotations       \* of the pages

VARIABLES part, status, report, harness, op, engine, ever, replaced, txs, restarts, sameBar, rows,
                trades, held, processed, halted, pending, pass, fed, last, overlapped, upgraded,
                wasHalted, crashes, tape, cell, cursor, funded, book, reserved, outcomes, counters,
                opened, peeked, now, seen, gcAt, alertAt, sent, let, life, attempts, toggles,
                toggleGc, toggled, refused, broken, recent, bucket, suppressed, notBefore, flying,
                log, untold, asked, early, alerts, stage, at, exit, flush, tmp, files, expired,
                made, ticks, skips, lost, unpruned, secret, probing, filter, got, done, present,
                rotated

\* Versions, operators and shadow passes are interchangeable; the run checks invariants only.
Symmetry == Permutations(Versions) \cup Permutations(Operators) \cup Permutations(Workers)

\* What an instance of TLC may take for the tables of the login limits.
MCWindow == [burst |-> 2, sustained |-> 4, global |-> 2, halt |-> 2]
MCSymbols == <<"a", "b">>
MCResults == {-1, 1}
MCLimit == [burst |-> 2, sustained |-> 3, global |-> 3, halt |-> 1]

PM == INSTANCE Promotion
SH == INSTANCE Shadow
RP == INSTANCE Replay
ST == INSTANCE RunStats WITH tape <- trades, Amounts <- {-1, 0, 2}, Days <- {0, 1, 3}, MaxEvents <- 4,
                             Capital <- 1, TailDen <- 2, CiDen <- 4, MinBlock <- 1, MinBlocks <- 2,
                             TradesFloor <- 1, EventsFloor <- 2
LL == INSTANCE LoginLimits WITH Window <- LoginWindow, Limit <- LoginLimit, MaxTime <- LoginTime
AD == INSTANCE AlertDesk WITH Keys <- AlertKeys, Window <- AlertWindow, MaxTime <- AlertTime
BU == INSTANCE Backup WITH MaxTime <- BackupTime
PG == INSTANCE ReadPages WITH MaxTime <- PagesTime, Results <- PageResults

ASSUME VersionsAssumption == PM!ConstantsOK /\ None \notin Versions
ASSUME ShadowAssumption == SH!ConstantsOK
ASSUME ReplayAssumption == RP!ConstantsOK
ASSUME PagesAssumption == PG!ConstantsOK
ASSUME StatsAssumption == ST!ConstantsOK
ASSUME LoginAssumption == LL!ConstantsOK
ASSUME AlertAssumption == AD!ConstantsOK
ASSUME BackupAssumption == BU!ConstantsOK

\* What each part alone uses.
promotionOnly == <<status, report, harness, op, engine, ever, replaced, txs, restarts>>
shadowOnly == <<sameBar, held, processed, halted, pending, pass, fed, last, overlapped, upgraded,
                wasHalted>>
replayOnly == <<tape, cell, funded, book, reserved, outcomes, counters, opened, peeked>>
loginOnly == <<seen, gcAt, alertAt, sent, let, life, attempts, toggles, toggleGc, toggled, refused,
               broken>>
alertsOnly == <<recent, bucket, suppressed, notBefore, flying, log, untold, asked, early>>
backupOnly == <<stage, at, exit, flush, tmp, files, expired, made, ticks, skips, lost, unpruned>>
pagesOnly == <<secret, probing, filter, got, done, present, rotated>>

Off == "off"

Init ==
    /\ part \in Parts
    /\ IF part = "promotion" THEN PM!Init ELSE status = Off /\ report = Off /\ harness = Off /\ op = Off /\
        engine = Off /\ ever = Off /\ replaced = Off /\ txs = Off /\ restarts = Off
    /\ IF part = "shadow" THEN SH!Init ELSE sameBar = Off /\ held = Off /\ processed = Off /\ halted = Off /\
        pending = Off /\ pass = Off /\ fed = Off /\ last = Off /\ overlapped = Off /\ upgraded = Off /\
        wasHalted = Off
    /\ IF part = "replay" THEN RP!Init ELSE tape = Off /\ cell = Off /\ funded = Off /\ book = Off /\
        reserved = Off /\ outcomes = Off /\ counters = Off /\ opened = Off /\ peeked = Off
    /\ part = "stats" => ST!Init
    /\ IF part = "login" THEN LL!Init ELSE seen = Off /\ gcAt = Off /\ alertAt = Off /\ sent = Off /\
        let = Off /\ life = Off /\ attempts = Off /\ toggles = Off /\ toggleGc = Off /\ toggled = Off /\
        refused = Off /\ broken = Off
    /\ IF part = "alerts" THEN AD!Init ELSE recent = Off /\ bucket = Off /\ suppressed = Off /\
        notBefore = Off /\ flying = Off /\ log = Off /\ untold = Off /\ asked = Off /\ early = Off
    /\ IF part = "backup" THEN BU!Init ELSE stage = Off /\ at = Off /\ exit = Off /\ flush = Off /\ tmp = Off
        /\ files = Off /\ expired = Off /\ made = Off /\ ticks = Off /\ skips = Off /\ lost = Off /\
        unpruned = Off
    /\ IF part = "pages" THEN PG!Init ELSE secret = Off /\ probing = Off /\ filter = Off /\ got = Off /\
        done = Off /\ present = Off /\ rotated = Off
    /\ part \notin {"shadow", "pages"} => rows = Off
    /\ part \notin {"shadow", "replay", "stats"} => trades = Off
    /\ part \notin {"shadow", "login", "backup"} => crashes = Off
    /\ part \notin {"replay", "pages"} => cursor = Off
    /\ part \notin {"login", "alerts", "backup", "pages"} => now = Off
    /\ part \notin {"alerts", "backup"} => alerts = Off

Next ==
    /\ IF part = "promotion" THEN PM!Next ELSE UNCHANGED promotionOnly
    /\ IF part = "shadow" THEN SH!Next ELSE UNCHANGED shadowOnly
    /\ IF part = "replay" THEN RP!Next ELSE UNCHANGED replayOnly
    /\ part = "stats" => ST!Next
    /\ IF part = "login" THEN LL!Next ELSE UNCHANGED loginOnly
    /\ IF part = "alerts" THEN AD!Next ELSE UNCHANGED alertsOnly
    /\ IF part = "backup" THEN BU!Next ELSE UNCHANGED backupOnly
    /\ IF part = "pages" THEN PG!Next ELSE UNCHANGED pagesOnly
    /\ part \notin {"shadow", "pages"} => UNCHANGED <<rows>>
    /\ part \notin {"shadow", "replay", "stats"} => UNCHANGED <<trades>>
    /\ part \notin {"shadow", "login", "backup"} => UNCHANGED <<crashes>>
    /\ part \notin {"replay", "pages"} => UNCHANGED <<cursor>>
    /\ part \notin {"login", "alerts", "backup", "pages"} => UNCHANGED <<now>>
    /\ part \notin {"alerts", "backup"} => UNCHANGED <<alerts>>
    /\ UNCHANGED part

vars == <<part, PM!vars, SH!vars, RP!vars, ST!vars, LL!vars, AD!vars, BU!vars, PG!vars>>

Spec == Init /\ [][Next]_vars

-----------------------------------------------------------------------------
\* Overlapping promote and reactivate commands leave one active version per name, lose no version
\* that was ever active to shadow-logging, and promote only what conclusively beat the version it
\* displaced (PromotionService, PromotionGateService).
PromotionSound == part = "promotion" => PM!OneActivePerName /\ PM!DemotedKeepsShadowing /\ PM!PromotedBeatsIncumbent

\* The shadow ledger lives in memory, its rows in the database: no booked trade without its row, no
\* walk rewrites a settled exit, the day's cap is passed by at most the passes in flight, and a
\* restart keeps a halt (ShadowStrategyOrchestratorService).
ShadowSound ==
    part = "shadow" => SH!TradesHaveRows /\ SH!UpgradesOnlyForced /\ SH!CapOvershootBounded /\ SH!HaltSurvivesRestart

\* A replayed cell: slots match the book, nothing is left open, every fill is one trade, and funding
\* is settled once (BacktestRunnerService).
ReplaySound == part = "replay" => RP!SlotsMatchBook /\ RP!FlatAtTheEnd /\ RP!FundingOnce

\* The services around trading: logins, halt toggles and alerts never pass their limits within one
\* life of the process, and a promised retry succeeds (LoginRateLimiter, HaltRateLimiter,
\* AlertRateLimiter); the newest whole dumps survive failures, crashes and prunes, and no failed
\* dump is silent (DbBackupScheduler); a walk over the pages misses no row written before it and
\* brings none twice, and the two performance views agree (the paged read API and its views).
OperationsSound ==
    /\ part = "login" => LL!LimitsHold /\ LL!HaltRetrySuffices
    /\ part = "alerts" => AD!CeilingHeld /\ AD!OnePerCoalesceWindow
    /\ part = "backup" => BU!NewestKept /\ BU!RetentionHeld /\ BU!NoSilentFailure
    /\ part = "pages" => PG!WalkComplete /\ PG!ViewsAgree

\* What a run's report computes from its trades is what the definitions of the figures say: the
\* drawdown, the streak, the shortfall, the sums, the resampling and the comparison of two versions
\* (the figures of a backtest's report).
StatsSound ==
    part = "stats" =>
        /\ ST!DrawdownIsWorst /\ ST!StreakIsLongest /\ ST!ShortfallIsTail
        /\ ST!ReportAddsUp /\ ST!ResamplesUnbiased /\ ST!ComparisonAntisymmetric
=============================================================================
