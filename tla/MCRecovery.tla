----------------------------- MODULE MCRecovery -----------------------------
(***************************************************************************)
(* Small instances of the components that put the engine right again, with *)
(* their fairness: protective orders and the reconciliation pass, the exit *)
(* watchers, the boot chain, the rate-limited exchange client, the paper   *)
(* fills with their account probe and the candle feed. They share no       *)
(* state: a behaviour is one component's, which one is chosen at the       *)
(* start, and the variables of the others stay off.                        *)
(***************************************************************************)
EXTENDS Integers

CONSTANTS
    Parts, None,
    Flatten, Faults, MaxTroubles,                           \* of the protective orders
    Deadline, Qty, ExitTime, MaxFaults, MaxEscalations, MaxCrashes,    \* of the exit watchers
    Engines, MaxBoots, MaxDamage,                           \* of the boot
    Callers, Symbols, Window, Capacity, Share, MaxWait, RetryAfters, DefaultFreeze, FreezeCap, Decay,
    UsedCounts, CallTime, MaxRequests, MaxBans,             \* of the exchange client
    Orders, Quotes, Threshold, Cap, MaxOrders, MaxOutages,  \* of the paper fills
    BarLen, DayLen, FeedTime, MaxLag, MaxTicks, MaxLoops    \* of the candle feed

VARIABLES part, row, typ, adopted, live, resting, armed, exec, engine, pass, seen, halted, gaps,
                count, side, state, qty, now, eligible, indexed, rebuild, slot, stage, reason, used,
                booked, marks, holes, swallowed, held, pend, escalated, faults, escalations, crashes, history, rotations,
                nextSeq, lock, proc, boots, damage, bucket, perSymbol, caller, calls, frozenUntil,
                currentFreeze, lastExpired, timer, header, sent, banUntil, bans, tick, stale,
                ledger, call, answers, up, leaked, outages, probing, failures, backoff, wait,
                latched, ticks, forming, watermark, closed, session, sessionDay, second, rows,
                dropped, loops

\* What an instance of TLC may take for a table: one order and two calls per window.
MCCapacity == [fapi |-> 2, sapi |-> 1, orders |-> 1, raw |-> 2]

\* A long is closed; one tick has no ask and no mark, the other is empty.
MCOrders == {[id |-> 1, side |-> "long", reduceOnly |-> TRUE, policy |-> "REDUCE_MARKET"]}
MCQuotes == {[ask |-> 0, bid |-> 3, mark |-> 0, last |-> 4], [ask |-> 0, bid |-> 0, mark |-> 0, last |-> 0]}

PR == INSTANCE Protection
XW == INSTANCE ExitWatch WITH MaxTime <- ExitTime
BP == INSTANCE BootPipeline
EC == INSTANCE ExchangeCalls WITH MaxTime <- CallTime, MaxCalls <- MaxRequests
PF == INSTANCE PaperFills WITH MaxCalls <- MaxOrders
CF == INSTANCE CandleFeed WITH MaxTime <- FeedTime

ASSUME ProtectionAssumption == PR!ConstantsOK
ASSUME ExitAssumption == XW!ConstantsOK
ASSUME BootAssumption == BP!ConstantsOK
ASSUME CallAssumption == EC!ConstantsOK
ASSUME FillAssumption == PF!ConstantsOK
ASSUME CandleAssumption == CF!ConstantsOK

\* What each part alone uses.
protectionOnly == <<row, typ, adopted, resting, exec, engine, pass, seen, gaps, count>>
exitsOnly == <<side, state, qty, eligible, indexed, rebuild, slot, stage, reason, used, booked,
               held, pend, marks, holes, swallowed, faults, escalations, crashes>>
bootOnly == <<history, rotations, nextSeq, lock, proc, boots, damage>>
callsOnly == <<bucket, perSymbol, caller, frozenUntil, currentFreeze, lastExpired, timer, header,
               sent, banUntil, bans>>
fillsOnly == <<tick, stale, ledger, call, answers, up, leaked, outages, probing, failures, backoff,
               wait, latched>>
candlesOnly == <<ticks, forming, watermark, closed, session, sessionDay, second, rows, dropped,
                 loops>>

Off == "off"

Init ==
    /\ part \in Parts
    /\ IF part = "protection" THEN PR!Init ELSE row = Off /\ typ = Off /\ adopted = Off /\ resting = Off /\
        exec = Off /\ engine = Off /\ pass = Off /\ seen = Off /\ gaps = Off /\ count = Off
    /\ IF part = "exits" THEN XW!Init ELSE side = Off /\ state = Off /\ qty = Off /\ eligible = Off /\
        indexed = Off /\ rebuild = Off /\ slot = Off /\ stage = Off /\ reason = Off /\ used = Off /\
        booked = Off /\ held = Off /\ pend = Off /\ swallowed = Off /\ marks = Off /\ holes = Off /\ faults = Off /\ escalations = Off /\ crashes = Off
    /\ IF part = "boot" THEN BP!Init ELSE history = Off /\ rotations = Off /\ nextSeq = Off /\ lock = Off /\
        proc = Off /\ boots = Off /\ damage = Off
    /\ IF part = "calls" THEN EC!Init ELSE bucket = Off /\ perSymbol = Off /\ caller = Off /\
        frozenUntil = Off /\ currentFreeze = Off /\ lastExpired = Off /\ timer = Off /\ header = Off /\
        sent = Off /\ banUntil = Off /\ bans = Off
    /\ IF part = "fills" THEN PF!Init ELSE tick = Off /\ stale = Off /\ ledger = Off /\ call = Off /\
        answers = Off /\ up = Off /\ leaked = Off /\ outages = Off /\ probing = Off /\ failures = Off /\
        backoff = Off /\ wait = Off /\ latched = Off
    /\ IF part = "candles" THEN CF!Init ELSE ticks = Off /\ forming = Off /\ watermark = Off /\ closed = Off
        /\ session = Off /\ sessionDay = Off /\ second = Off /\ rows = Off /\ dropped = Off /\ loops = Off
    /\ part \notin {"protection", "exits"} => live = Off /\ armed = Off
    /\ part \notin {"protection", "fills"} => halted = Off
    /\ part \notin {"exits", "calls", "candles"} => now = Off
    /\ part \notin {"exits", "candles"} => escalated = Off
    /\ part \notin {"calls", "fills"} => calls = Off

Next ==
    /\ IF part = "protection" THEN PR!Next ELSE UNCHANGED protectionOnly
    /\ IF part = "exits" THEN XW!Next ELSE UNCHANGED exitsOnly
    /\ IF part = "boot" THEN BP!Next ELSE UNCHANGED bootOnly
    /\ IF part = "calls" THEN EC!Next ELSE UNCHANGED callsOnly
    /\ IF part = "fills" THEN PF!Next ELSE UNCHANGED fillsOnly
    /\ IF part = "candles" THEN CF!Next ELSE UNCHANGED candlesOnly
    /\ part \notin {"protection", "exits"} => UNCHANGED <<live, armed>>
    /\ part \notin {"protection", "fills"} => UNCHANGED <<halted>>
    /\ part \notin {"exits", "calls", "candles"} => UNCHANGED <<now>>
    /\ part \notin {"exits", "candles"} => UNCHANGED <<escalated>>
    /\ part \notin {"calls", "fills"} => UNCHANGED <<calls>>
    /\ UNCHANGED part

vars == <<part, PR!vars, XW!vars, BP!vars, EC!vars, PF!vars, CF!vars>>

\* A subscript per part: a part's step says nothing of the others' variables.
protectionVars == PR!vars
exitVars == XW!vars
bootVars == BP!vars
callVars == EC!vars
fillVars == PF!vars
candleVars == CF!vars

Fairness ==
    /\ WF_protectionVars(part = "protection" /\ PR!Executor)
    /\ WF_protectionVars(part = "protection" /\ PR!Pass)
    /\ WF_protectionVars(part = "protection" /\ PR!Recover)
    /\ WF_protectionVars(part = "protection" /\ PR!ExecutorFlattens)
    /\ WF_protectionVars(part = "protection" /\ PR!Resume)
    /\ SF_protectionVars(part = "protection" /\ PR!FetchExchangePositions /\ seen'.pos = live)
    /\ WF_exitVars(part = "exits" /\ XW!Index)
    /\ WF_exitVars(part = "exits" /\ XW!Sweep)
    /\ WF_exitVars(part = "exits" /\ XW!Reopen)
    /\ WF_exitVars(part = "exits" /\ XW!ReconcileMissing)
    /\ \A w \in {"monitor", "timestop"}: WF_exitVars(part = "exits" /\ XW!Closing(w))
    /\ \A e \in Engines: WF_bootVars(part = "boot" /\ BP!BootStep(e))
    /\ WF_callVars(part = "calls" /\ EC!Tick)
    /\ WF_callVars(part = "calls" /\ EC!RunAutoClear)
    /\ WF_fillVars(part = "fills" /\ PF!Probing)
    /\ WF_candleVars(part = "candles" /\ CF!LoopTurns)

Spec == Init /\ [][Next]_vars /\ Fairness

-----------------------------------------------------------------------------
\* A position the executor, the pass or the boot leaves pending or open is watched, but for the four
\* gaps the README names; the close slot of one the exchange still holds is only taken with nothing in
\* flight after an escalation or a swallowed throw; its fills are booked once, and all of them but for
\* the two holes the README names; and its row is closed only when it is gone (ExecutionService,
\* ReconciliationService, LocalProtectiveMonitor, PositionTimeStopEnforcer).
ExitsSound ==
    /\ part = "protection" => PR!ProtectedButForGaps
    /\ part = "exits" => XW!SlotLeaksAreKnown /\ XW!FillsBookedOnce /\ XW!ClosedIsGone

\* Engines that cold-start together or die in the boot transaction leave chains that verify, every
\* change of environment is witnessed, and LIVE came through PAPER (BootModeChainService).
BootSound == part = "boot" => BP!TypeOK /\ BP!ChainsVerify /\ BP!TransitionsWitnessed /\ BP!LiveCameThroughPaper

\* Concurrent callers never overrun an order window (RateLimitPolicyService); racing createOrder
\* calls of one id get one fill (StreamingFillAdapter); ticks and the wall-clock sweep close each
\* bar once, with its own ticks, in its own day (SymbolMarketState).
FeedsSound ==
    /\ part = "calls" => EC!OrdersPerWindow
    /\ part = "fills" => PF!TypeOK /\ PF!OneFillPerOrder /\ PF!OrderKeepsItsMeaning
    /\ part = "candles" => CF!BarsClosedOnce /\ CF!TicksInOwnBar /\ CF!NoForming /\ CF!SessionIsOneDay

\* What no step may do: append to a damaged chain, shorten a freeze by a second ban, take a profit
\* at the price the entry was filled at.
NothingRisked ==
    [][/\ part = "boot" => BP!LeavesDamaged
       /\ part = "calls" => EC!FreezeHolds
       /\ part = "exits" => XW!TakesEarned]_vars

\* A naked position is handed to the monitor, an orphan on the exchange is adopted, and a position
\* past its deadline closes unless it is stranded.
PositionsRecover ==
    /\ \/ part = "protection" /\ PR!Naked
       \/ part = "exits" /\ XW!Overdue
       ~> /\ part = "protection" => PR!Watched
          /\ part = "exits" => state = "closed" \/ XW!Stranded
    /\ part = "protection" /\ PR!Orphan ~> (part = "protection" => PR!Adopted)

AnEngine == CHOOSE e \in Engines : TRUE

\* A boot ends open, closed or down (either engine's: they are interchangeable), a freeze ends, a
\* leaked account is found while the exchange can be reached, a de-escalated symbol's loops stop.
EngineSettles ==
    \/ part = "boot" /\ BP!Booting(AnEngine)
    \/ part = "calls" /\ EC!EndsInTime
    \/ part = "fills" /\ leaked
    \/ part = "candles" /\ ~escalated
    ~> /\ part = "boot" => BP!Booted(AnEngine)
       /\ part = "calls" => ~EC!EndsInTime
       /\ part = "fills" => latched \/ ~up
       /\ part = "candles" => loops = 0 \/ escalated
=============================================================================
