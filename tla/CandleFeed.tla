----------------------------- MODULE CandleFeed -----------------------------
(***************************************************************************)
(* The state of one symbol that ticks feed: the forming and the closed     *)
(* bars, the one-second buckets that are persisted, the bars of the UTC    *)
(* session, and the deep subscriptions opened near a trigger.  Ticks carry *)
(* the exchange's time and arrive late by up to MaxLag seconds; an interval*)
(* sweep on the wall clock closes what no tick has closed.                 *)
(*                                                                         *)
(* Every tick adds one unit of volume, so a volume is a count of ticks.    *)
(* One timeframe stands for the 1m and the 5m candle states.               *)
(***************************************************************************)
EXTENDS Naturals, Sequences, FiniteSets

CONSTANTS
    BarLen,         \* seconds per bar
    DayLen,         \* bars per UTC day
    MaxTime, MaxLag, MaxTicks,
    MaxLoops,       \* bound on concurrent consume loops
    None            \* no forming candle, no closed bar yet

ConstantsOK ==
    /\ {BarLen, DayLen, MaxTime, MaxLag, MaxTicks, MaxLoops} \subseteq Nat
    /\ BarLen > 0 /\ DayLen > 0 /\ MaxLoops > 0
    /\ None \notin Nat /\ None \notin [at : Nat, vol : Nat]

VARIABLES
    now,            \* wall clock
    ticks,          \* ghost: exchange times of the ticks so far, in order of arrival
    forming,        \* forming candle: bucket and volume
    watermark,      \* lastClosedBucketOpenTime
    closed,         \* closed bars in graduation order
    session,        \* sessionBars: buckets
    sessionDay,     \* sessionDayIndex
    second,         \* forming one-second bucket
    rows,           \* tick_aggregates: volume stored under each second
    dropped,        \* ghost: which ticks the candle refused as late
    escalated,      \* the symbol is near its trigger
    loops           \* running order book loops (the trade loops go with them)

vars == <<now, ticks, forming, watermark, closed, session, sessionDay, second, rows, dropped, escalated, loops>>

Times == 0..MaxTime
BucketOpenTime(ts) == ts \div BarLen
Buckets == 0..BucketOpenTime(MaxTime)
DayIndex(bucket) == (bucket + 1) \div DayLen       \* of the bar's close time
Candles == [at : Times, vol : 0..MaxTicks]

TypeOK ==
    /\ now \in Times /\ ticks \in Seq(Times) /\ Len(ticks) <= MaxTicks
    /\ forming \in [at : Buckets, vol : 0..MaxTicks] \cup {None} /\ watermark \in Buckets \cup {None}
    /\ closed \in Seq([at : Buckets, vol : 0..MaxTicks]) /\ session \subseteq Buckets
    /\ sessionDay \in 0..DayIndex(BucketOpenTime(MaxTime)) \cup {None}
    /\ second \in Candles \cup {None} /\ rows \in [Times -> 0..MaxTicks]
    /\ dropped \subseteq 1..MaxTicks /\ escalated \in BOOLEAN /\ loops \in 0..MaxLoops

Init ==
    /\ now = 0 /\ ticks = <<>> /\ forming = None /\ watermark = None /\ closed = <<>>
    /\ session = {} /\ sessionDay = None /\ second = None /\ rows = [t \in Times |-> 0]
    /\ dropped = {} /\ escalated = FALSE /\ loops = 0

-----------------------------------------------------------------------------
(* Closing.                                                                *)

\* graduate, then onBarClosed: the session starts over with the first bar of a day.
SessionWithMutant(b) == session \cup {b}

SessionWith(b) == IF sessionDay # None /\ DayIndex(b) > sessionDay THEN {b} ELSE session \cup {b}

Graduate(candle) ==
    /\ closed' = Append(closed, candle) /\ watermark' = candle.at
    /\ session' = SessionWith(candle.at) /\ sessionDay' = DayIndex(candle.at)

NoBarCloses == UNCHANGED <<closed, watermark, session, sessionDay>>

\* A closed second is drained, emitted and upserted under its start.
StoreSecond == rows' = [rows EXCEPT ![second.at] = second.vol]

\* ingestTick: a late tick of a closed bucket is dropped, a tick past the forming
\* bucket closes it, any other is accumulated.
LateMutant(b) == FALSE

Late(b) == watermark # None /\ b <= watermark

CrossesMutant(b) == FALSE

Crosses(b) == forming # None /\ b > forming.at

IngestCandle(b) ==
    IF Late(b) THEN dropped' = dropped \cup {Len(ticks')} /\ UNCHANGED forming /\ NoBarCloses
    ELSE /\ UNCHANGED dropped
         /\ CASE forming = None   -> forming' = [at |-> b, vol |-> 1] /\ NoBarCloses
              [] Crosses(b)       -> Graduate(forming) /\ forming' = [at |-> b, vol |-> 1]
              [] OTHER            -> forming' = [forming EXCEPT !.vol = @ + 1] /\ NoBarCloses

IngestTickBucket(ts) ==
    CASE second = None -> second' = [at |-> ts, vol |-> 1] /\ UNCHANGED rows
      [] second # None /\ ts > second.at -> StoreSecond /\ second' = [at |-> ts, vol |-> 1]
      [] OTHER -> second' = [second EXCEPT !.vol = @ + 1] /\ UNCHANGED rows

\* handleTicker; the exchange's times of one symbol do not go back.
HandleTicker(ts) ==
    /\ Len(ticks) < MaxTicks /\ ts <= now /\ now <= ts + MaxLag
    /\ ticks # <<>> => ts >= ticks[Len(ticks)]
    /\ ticks' = Append(ticks, ts)
    /\ IngestCandle(BucketOpenTime(ts)) /\ IngestTickBucket(ts)
    /\ UNCHANGED <<now, escalated, loops>>

\* sweepBarCloses: closeFormingIfElapsed and closeElapsedTickBucket.
ElapsedMutant(candle) == BucketOpenTime(now) >= candle.at

Elapsed(candle) == BucketOpenTime(now) > candle.at

SweepBarCloses ==
    /\ IF forming # None /\ Elapsed(forming) THEN Graduate(forming) /\ forming' = None
                                             ELSE UNCHANGED forming /\ NoBarCloses
    /\ IF second # None /\ now >= second.at + 1 THEN StoreSecond /\ second' = None
                                                ELSE UNCHANGED <<second, rows>>
    /\ UNCHANGED <<now, ticks, dropped, escalated, loops>>

Tick ==
    /\ now < MaxTime /\ now' = now + 1
    /\ UNCHANGED <<ticks, forming, watermark, closed, session, sessionDay, second, rows, dropped, escalated, loops>>

-----------------------------------------------------------------------------
(* Escalation.                                                             *)

feed == <<now, ticks, forming, watermark, closed, session, sessionDay, second, rows, dropped>>

\* applyEscalation and DepthAggressorService.start: two more loops.
Escalate ==
    /\ ~escalated /\ escalated' = TRUE /\ loops < MaxLoops /\ loops' = loops + 1 /\ UNCHANGED feed

Deescalate == escalated /\ escalated' = FALSE /\ UNCHANGED <<loops, feed>>

\* A loop looks at the active set when its watch returns, and a watch that fails
\* ends it whatever the set says.
LoopTurnsMutant == loops > 0 /\ escalated /\ loops' = loops - 1 /\ UNCHANGED <<escalated, feed>>

LoopTurns == loops > 0 /\ ~escalated /\ loops' = loops - 1 /\ UNCHANGED <<escalated, feed>>

LoopFails == loops > 0 /\ loops' = loops - 1 /\ UNCHANGED <<escalated, feed>>

Next ==
    \/ \E ts \in Times : HandleTicker(ts)
    \/ SweepBarCloses \/ Tick \/ Escalate \/ Deescalate \/ LoopTurns \/ LoopFails

\* The exchange keeps answering watches.
Spec == Init /\ [][Next]_vars /\ WF_vars(LoopTurns)

-----------------------------------------------------------------------------
(* Properties.                                                             *)

\* The wall-clock sweep and the ticks race for every boundary, on different
\* clocks: no bar is closed twice, reopened, or closed out of order.
BarsClosedOnce == \A i \in 1..(Len(closed) - 1) : closed[i].at < closed[i + 1].at

TicksIn(b) == Cardinality({i \in 1..Len(ticks) : i \notin dropped /\ BucketOpenTime(ticks[i]) = b})

\* Every tick is counted once, in its own bar, but for the late ones the candle refused,
\* whose bar was closed already (ingestTick).
TicksInOwnBar ==
    LET open == IF forming = None THEN <<>> ELSE <<forming>>
        bars == closed \o open
    IN  /\ \A k \in 1..Len(bars) : bars[k].vol = TicksIn(bars[k].at)
        /\ \A i \in 1..Len(ticks) :
              IF i \in dropped THEN watermark # None /\ BucketOpenTime(ticks[i]) <= watermark
              ELSE \E k \in 1..Len(bars) : bars[k].at = BucketOpenTime(ticks[i])

\* A bar is closed only once its interval is over on the wall clock or a later
\* tick has been seen, so what indicators read never changes again.
NoForming == \A i \in 1..Len(closed) : closed[i].at < BucketOpenTime(now)

\* The session VWAP reads bars of one UTC day.
SessionIsOneDay == \A b, c \in session : DayIndex(b) = DayIndex(c)

\* MarketDataService: ticks of one second "collapse into a single row keyed
\* (symbol, ts)" and "no longer overwrite each other".
SecondsComplete ==
    \A t \in Times : rows[t] > 0 /\ (second = None \/ second.at # t)
        => rows[t] = Cardinality({i \in 1..Len(ticks) : ticks[i] = t})

\* DepthAggressorService: "Each escalated symbol runs two consume loops".
OneLoop == loops <= 1

\* A de-escalated symbol's loops end, if it is not escalated again first.
DepthReleased == ~escalated ~> (loops = 0 \/ escalated)
=============================================================================
