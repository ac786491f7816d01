----------------------------- MODULE MCTrading ------------------------------
(***************************************************************************)
(* Small instances of the components behind a trade that need no fairness: *)
(* the basket rebalance, the entry rules, the ledger, the excursion        *)
(* records, the day's accounting, the universe, the paper account and a    *)
(* paper position's closes. They share no state here: a behaviour is one   *)
(* component's, which one is chosen at the start, and the variables of the *)
(* others stay off.                                                        *)
(***************************************************************************)
EXTENDS Integers, FiniteSets

CONSTANTS
    Parts, None,
    BasketSymbols, TopN, Cooldown, MaxWait, Period, MaxTime, MaxOrders, MaxManual,  \* of the rebalance
    Bars, Snapshots, FillPrices, Capital, PerCoin, MinNotional, Relax,  \* of the entry rules
    Symbols, UniverseTiers, MaxSymbols, MaxRefreshes, MaxRestarts,  \* of the universe
    ClosingOrders, Partials, MaxFunding, MaxMinutes,                \* of the ledger
    Peak, MaxObjects, MaxCrashes,                                   \* of the excursion records
    Positions, Results, DailyLimit, StreakLimit, DayHandlers, MaxDay, \* of the day
    Coids, Callers, Start, Pnls, Fundings, Marks, MaxOps,           \* of the paper account
    Lots, CloseFaults                                               \* of the paper position's closes

VARIABLES part, now, cron, emitted, manual, asked, orch, cycle, attempts, armed, reports, firing,
                orders, blurred, stage, bar, snap, trade, state, trades, published, booked, funding,
                realized, exec, recon, todo, got, pick, lastMinute, writing, snapshots, missed, row,
                column, obj, tracked, seeding, flush, close, ready, best, gaps, crashes, day, pos,
                closed, job, up, admitted, entries, reasons, adopted, loss, sweep, member, boot,
                refreshes, lost, rows, histFund, audit, lock, call, bal, fund, peak, mark, timer,
                tripped, halted, view, drifted, ops, unsaved, late, exch, slot, indexed, closing,
                pc, ent, order, seen

\* Bars around a VWAP of 10000: the move, the ATR and how far the wick reaches past the close; most
\* with falling open interest (an exhausted move), some with each regime, volume, age and idiosyncrasy.
Bar(version, ref, atr, reach) ==
    [version |-> version, vwap |-> 10000, ref |-> ref, atr |-> atr, wick |-> IF ref > 10000 THEN ref + reach ELSE ref - reach,
     regime |-> "calm", idio |-> FALSE, oi |-> -1, vol |-> 2, young |-> FALSE, inside |-> FALSE]
Plain ==
    {Bar(v, ref, atr, w): v \in {"v1", "v2", "v3", "xmom"}, ref \in {9700, 10102, 10300}, atr \in {20, 60, 200, 2000}, w \in {-30, 5, 60, 400}}
Varied == {b \in Plain: b.atr = 60 /\ b.ref # 10102 /\ b.wick \in {b.ref + 60, b.ref - 60}}
MCBars ==
    Plain \cup {[b EXCEPT !.oi = 0]: b \in Plain}
    \cup {[b EXCEPT !.regime = r]: b \in Varied, r \in {"up", "down", "ranging"}}
    \cup {[b EXCEPT !.idio = i, !.oi = o, !.vol = n, !.young = y, !.inside = z]:
              b \in Varied, i, y, z \in BOOLEAN, o \in {0, 1}, n \in {0, 2, 3}}

\* A quiet market, and one change of it at a time: spread, depth and tier, funding, breadth, shocks.
Calm == [tier |-> "t1", spread |-> 10, depth |-> 200, oi |-> TRUE, buying |-> FALSE, funding |-> 0, slippage |-> 5,
         breadth |-> 0, sameBar |-> 0, shock |-> FALSE, finite |-> TRUE]
MCSnapshots ==
    {Calm, [Calm EXCEPT !.tier = "t2"], [Calm EXCEPT !.oi = FALSE], [Calm EXCEPT !.finite = FALSE]}
    \cup {[Calm EXCEPT !.tier = t, !.spread = s, !.depth = d]: t \in {"t1", "t2", "t3"}, s \in {2, 20, 40}, d \in {0, 22, 40}}
    \cup {[Calm EXCEPT !.funding = f, !.buying = q]: f \in {-3, -2, 1, 2}, q \in BOOLEAN}
    \cup {[Calm EXCEPT !.breadth = b, !.sameBar = n, !.shock = h]: b \in {-40, 25, 31, 40}, n \in {0, 11, 12, 20}, h \in BOOLEAN}
\* A close may lose what halts a day at once, or gain.
MCResults == {-2, 1}
\* A paper close loses; a mark loses or gains.
MCPnls == {-1}
MCMarks == {-2, 2}

MCFills == {9650, 9690, 9700, 9703, 10090, 10102, 10112, 10120, 10135, 10290, 10300, 10310, 10340}

RB == INSTANCE Rebalance WITH Symbols <- BasketSymbols
ER == INSTANCE EntryRules
LG == INSTANCE Ledger WITH Orders <- ClosingOrders
XI == INSTANCE Instrumentor
RD == INSTANCE RiskDay WITH Handlers <- DayHandlers, Overlap <- FALSE
MF == INSTANCE MarketFeed WITH Tiers <- UniverseTiers, MaxCrashes <- MaxRestarts
PA == INSTANCE PaperAccount
PL == INSTANCE PositionLifecycle WITH Closers <- {"unwind", "timestop"}, Qty <- Lots, Paper <- TRUE,
                                      Entering <- TRUE, Faults <- CloseFaults

ASSUME BasketAssumption == RB!ConstantsOK
ASSUME EntryAssumption == ER!ConstantsOK
ASSUME UniverseAssumption == MF!ConstantsOK
ASSUME LedgerAssumption == LG!ConstantsOK /\ None \notin ClosingOrders \cup Int
ASSUME ExcursionAssumption == XI!ConstantsOK
ASSUME DayAssumption == RD!ConstantsOK
ASSUME PaperAssumption == PA!ConstantsOK
ASSUME ClosesAssumption == Lots \in Nat \ {0} /\ CloseFaults \subseteq PL!FaultKinds

\* What each part alone uses.
rebalanceOnly == <<cron, emitted, manual, asked, orch, cycle, attempts, reports, firing, orders,
                   blurred>>
entryOnly == <<stage, bar, trade>>
ledgerOnly == <<state, trades, published, funding, realized, exec, recon, todo, got, pick,
                lastMinute, writing, snapshots, missed>>
excursionOnly == <<column, obj, tracked, seeding, flush, close, ready, best, gaps>>
dayOnly == <<day, closed, job, up, admitted>>
universeOnly == <<entries, reasons, adopted, loss, sweep, member, boot, refreshes>>
paperOnly == <<rows, histFund, audit, lock, call, bal, fund, peak, mark, timer, tripped, halted,
               view, drifted, ops, unsaved, late>>
closesOnly == <<exch, slot, indexed, closing, pc, ent, order, seen>>

Off == "off"

Init ==
    /\ part \in Parts
    /\ IF part = "rebalance" THEN RB!Init ELSE cron = Off /\ emitted = Off /\ manual = Off /\ asked = Off /\
        orch = Off /\ cycle = Off /\ attempts = Off /\ reports = Off /\ firing = Off /\ orders = Off /\
        blurred = Off
    /\ IF part = "entry" THEN ER!Init ELSE stage = Off /\ bar = Off /\ trade = Off
    /\ IF part = "ledger" THEN LG!Init ELSE state = Off /\ trades = Off /\ published = Off /\ funding = Off /\
        realized = Off /\ exec = Off /\ recon = Off /\ todo = Off /\ got = Off /\ pick = Off /\
        lastMinute = Off /\ writing = Off /\ snapshots = Off /\ missed = Off
    /\ IF part = "excursion" THEN XI!Init ELSE column = Off /\ obj = Off /\ tracked = Off /\ seeding = Off /\
        flush = Off /\ close = Off /\ ready = Off /\ best = Off /\ gaps = Off
    /\ IF part = "day" THEN RD!Init ELSE day = Off /\ closed = Off /\ job = Off /\ up = Off /\ admitted = Off
    /\ IF part = "universe" THEN MF!Init ELSE entries = Off /\ reasons = Off /\ adopted = Off /\ loss = Off /\
        sweep = Off /\ member = Off /\ boot = Off /\ refreshes = Off
    /\ IF part = "paper" THEN PA!Init ELSE rows = Off /\ histFund = Off /\ audit = Off /\ lock = Off /\
        call = Off /\ bal = Off /\ fund = Off /\ peak = Off /\ mark = Off /\ timer = Off /\ tripped = Off /\
        halted = Off /\ view = Off /\ drifted = Off /\ ops = Off /\ unsaved = Off /\ late = Off
    /\ IF part = "closes" THEN PL!Init ELSE exch = Off /\ slot = Off /\ indexed = Off /\ closing = Off /\
        pc = Off /\ ent = Off /\ order = Off /\ seen = Off
    /\ part \notin {"rebalance", "ledger"} => now = Off
    /\ part \notin {"rebalance", "closes"} => armed = Off
    /\ part \notin {"entry", "paper"} => snap = Off
    /\ part \notin {"ledger", "paper", "closes"} => booked = Off
    /\ part \notin {"excursion", "day", "universe", "closes"} => row = Off
    /\ part \notin {"excursion", "day", "universe", "paper"} => crashes = Off
    /\ part \notin {"day", "paper"} => pos = Off
    /\ part \notin {"universe", "paper"} => lost = Off

Next ==
    /\ IF part = "rebalance" THEN RB!Next ELSE UNCHANGED rebalanceOnly
    /\ IF part = "entry" THEN ER!Next ELSE UNCHANGED entryOnly
    /\ IF part = "ledger" THEN LG!Next ELSE UNCHANGED ledgerOnly
    /\ IF part = "excursion" THEN XI!Next ELSE UNCHANGED excursionOnly
    /\ IF part = "day" THEN RD!Next ELSE UNCHANGED dayOnly
    /\ IF part = "universe" THEN MF!Next ELSE UNCHANGED universeOnly
    /\ IF part = "paper" THEN PA!Next ELSE UNCHANGED paperOnly
    /\ IF part = "closes" THEN PL!Next ELSE UNCHANGED closesOnly
    /\ part \notin {"rebalance", "ledger"} => UNCHANGED <<now>>
    /\ part \notin {"rebalance", "closes"} => UNCHANGED <<armed>>
    /\ part \notin {"entry", "paper"} => UNCHANGED <<snap>>
    /\ part \notin {"ledger", "paper", "closes"} => UNCHANGED <<booked>>
    /\ part \notin {"excursion", "day", "universe", "closes"} => UNCHANGED <<row>>
    /\ part \notin {"excursion", "day", "universe", "paper"} => UNCHANGED <<crashes>>
    /\ part \notin {"day", "paper"} => UNCHANGED <<pos>>
    /\ part \notin {"universe", "paper"} => UNCHANGED <<lost>>
    /\ UNCHANGED part

vars == <<part, RB!vars, ER!vars, LG!vars, XI!vars, RD!vars, MF!vars, PA!vars, PL!vars>>

Spec == Init /\ [][Next]_vars

-----------------------------------------------------------------------------
\* Rebalances, forced closes and retries overlap: the basket is not overfilled, a symbol is retried
\* once per cycle, and no symbol is bought twice (MomentumOrchestratorService, the scheduler).
BasketSound == part = "rebalance" => RB!TypeOK /\ RB!BasketBounded /\ RB!RetriedOnce /\ RB!OneLegPerSymbol

\* From the signal through sizing, gate, routing and fill: the order stays within the budget, the
\* gate does not move its stop, a kept fill can gain more than it can lose, its loss at the stop is
\* bounded; and the relaxed, resumed and catalogued rules agree with the live ones.
EntrySound ==
    part = "entry" =>
        /\ ER!TypeOK /\ ER!OrderWithinBudget /\ ER!StopKeptByGate /\ ER!LossAtStopBounded /\ ER!KeptPositionsPay
        /\ ER!RelaxNeverStricter /\ ER!ResumeIsQuiet /\ ER!EntriesCatalogued

\* Executor, reconciler and snapshot writer race on the ledger: each closing order is booked once and
\* whole, funding has no hole, the realized result is complete, a minute has one snapshot.  Ticks,
\* flushes, the close handler and restarts race on the excursions: the row of a closed position has
\* its best one, and a seed at boot never starts below the row (PositionInstrumentor).
RecordsSound ==
    /\ part = "ledger" => LG!FillsBookedOnce /\ LG!FundingHasNoHoles /\ LG!RealizedComplete /\ LG!OneScheduledPerMinute
    /\ part = "excursion" => XI!CloseFlushComplete /\ XI!SeedKeepsColumn

\* While recomputes do not overlap, every close the executor made today is in the row the loss
\* limits are read from (RiskStateLifecycleListener, upsertAccountingForDay).
ClosesBooked == part = "day" => RD!TypeOK /\ RD!ExecutorClosesBooked

\* A reason to keep a symbol does not outlive its cause, and the membership timeline says who is in
\* the universe (SubscriptionRetainer, UniverseService).
UniverseSound == part = "universe" => MF!ReasonsHaveCause /\ MF!MembershipMatches

\* Concurrent mutators of the paper account keep one audit chain, and the cash, the open positions
\* and the funding in memory match what was committed (PaperAccountStateService).
PaperBooksSound ==
    part = "paper" => PA!TypeOK /\ PA!ChainLinear /\ PA!LedgerMatchesHistory /\ PA!MemoryMatchesRows /\ PA!FundingAccounted

\* A paper entry is rejected and unwound, or settles and meets its time stop, with partial fills and
\* throws: what the row lost is what was booked, and the close slot is not held by nobody
\* (ExecutionService, SharedCloseCoordinator).
ClosesSound == part = "closes" => PL!ReducesAddUp /\ PL!HeldSlotIsInFlight

\* What no step may undo: a boot opens the engine with the exposure of the surviving rows, the paper
\* peak never falls, a refresh never evicts the symbol of a held position, and the row of a position
\* follows positionStateGraph whoever saves it.
NothingUndone ==
    [][/\ part = "day" => RD!OpensExact
       /\ part = "paper" => peak' >= peak
       /\ part = "universe" => MF!KeepsHeld
       /\ part = "closes" => PL!MovesLegally]_vars
=============================================================================
