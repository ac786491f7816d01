------------------------------ MODULE RunStats ------------------------------
(***************************************************************************)
(* The numbers a backtest report and a version comparison are judged by,   *)
(* as the code computes them: the equity curve and its drawdown, the       *)
(* report's counts and breakdowns, the tail statistics, and the paired     *)
(* circular block bootstrap.  Each is checked against a definition that    *)
(* does not scan.  Amounts are integers in units of one trade's risk       *)
(* budget; a ratio is a pair <<numerator, denominator>> compared by cross  *)
(* multiplication.  The Sharpe and Sortino ratios, skew and kurtosis need  *)
(* roots and are left out; the equity curve is built without unrealized    *)
(* results, as its only caller builds it.                                  *)
(***************************************************************************)
EXTENDS Integers, Sequences, FiniteSets, SequencesExt, FiniteSetsExt, Folds

CONSTANTS Amounts,      \* results a trade may have
          Days,         \* days a trade may close on
          MaxEvents,    \* bound: events of the tape
          Capital,      \* starting capital: the run may lose more
          TailDen,      \* the shortfall tail is one in TailDen
          CiDen,        \* one resample in CiDen is cut off on either side
          MinBlock, MinBlocks,       \* floor of the block length, blocks a resample must hold
          TradesFloor, EventsFloor   \* trades of each version, events with a result, a verdict needs

VARIABLES tape         \* the events one version was shown: traded or skipped

vars == <<tape>>

ConstantsOK ==
    /\ Capital \in Nat /\ Amounts \subseteq Int /\ Days \subseteq Nat
    /\ {MaxEvents, TailDen, CiDen, MinBlock, MinBlocks, TradesFloor, EventsFloor} \subseteq Nat \ {0}

Init == tape = <<>>

\* What a replay leaves behind, one event after the other.  Symbols are replayed in turn on
\* one book, so closes are not in the order of their days.
Event == [open : {TRUE}, pnl : Amounts, day : Days] \cup {[open |-> FALSE, pnl |-> 0, day |-> 0]}

Next == Len(tape) < MaxEvents /\ \E e \in Event : tape' = Append(tape, e)

Spec == Init /\ [][Next]_vars

-----------------------------------------------------------------------------
(* The equity curve.                                                       *)

SumOf(xs) == FoldLeft(LAMBDA a, b : a + b, 0, xs)
Counted(xs, Test(_)) == Len(SelectSeq(xs, Test))

\* The completed trades a report is built from; a skipped event leaves none.
Trades == SelectSeq(tape, LAMBDA e : e.open)
Results(ts) == [i \in DOMAIN ts |-> ts[i].pnl]

DayKeys(ts) == SetToSortSeq({ts[i].day : i \in DOMAIN ts}, <)

RealizedUpTo(ts, d) == SumOf([i \in DOMAIN ts |-> IF ts[i].day <= d THEN ts[i].pnl ELSE 0])

\* One point per day with a close.
Curve(ts) ==
    [k \in DOMAIN DayKeys(ts) |-> [day |-> DayKeys(ts)[k], equity |-> Capital + RealizedUpTo(ts, DayKeys(ts)[k])]]

Worse(p, q) == p[1] * q[2] > q[1] * p[2]

\* computeDrawdown: one pass that carries the peak.
ScanStepMutant(acc, point) ==
    [acc EXCEPT !.worst = IF Worse(<<acc.peak.equity - point.equity, acc.peak.equity>>, @)
                          THEN <<acc.peak.equity - point.equity, acc.peak.equity>> ELSE @,
                !.peak = point]

ScanStep(acc, point) ==
    IF point.equity > acc.peak.equity THEN [acc EXCEPT !.peak = point]
    ELSE LET fall == <<acc.peak.equity - point.equity, acc.peak.equity>> IN
         IF acc.peak.equity > 0 /\ Worse(fall, acc.worst)
         THEN [acc EXCEPT !.worst = fall, !.days = point.day - acc.peak.day] ELSE acc

Drawdown(curve) ==
    IF Len(curve) < 2 THEN [worst |-> <<0, 1>>, days |-> 0]
    ELSE LET end == FoldLeft(ScanStep, [peak |-> curve[1], worst |-> <<0, 1>>, days |-> 0], curve) IN
         [worst |-> end.worst, days |-> end.days]

-----------------------------------------------------------------------------
(* The report.                                                             *)

\* A trade that did not win is a loss.
PartitionTradesMutant(ts) ==
    [win |-> SelectSeq(Results(ts), LAMBDA x : x > 0), loss |-> SelectSeq(Results(ts), LAMBDA x : x < 0)]

PartitionTrades(ts) ==
    [win |-> SelectSeq(Results(ts), LAMBDA x : x > 0), loss |-> SelectSeq(Results(ts), LAMBDA x : ~(x > 0))]

WinRate(won, n) == IF n = 0 THEN <<0, 1>> ELSE <<won, n>>

\* grossWin over |grossLoss|; <<1, 0>> is the report's 'Infinity'.
ProfitFactor(won, lost) == IF won = 0 THEN <<0, 1>> ELSE IF lost = 0 THEN <<1, 0>> ELSE <<won, -lost>>

\* From the first point of the curve to the last: what closed on the first day is not in it.
ReturnFromCurve(curve) ==
    IF curve = <<>> \/ curve[1].equity = 0 THEN <<0, 1>>
    ELSE <<Last(curve).equity - curve[1].equity, curve[1].equity>>

Figures(ts) ==
    LET p == PartitionTrades(ts) IN
    [tradeCount |-> Len(ts), winCount |-> Len(p.win), lossCount |-> Len(p.loss),
     winRate |-> WinRate(Len(p.win), Len(ts)), netPnl |-> SumOf(Results(ts)),
     profitFactor |-> ProfitFactor(SumOf(p.win), SumOf(p.loss))]

\* One row per key; keyOf gives each trade its regime, flow type or symbol.
Breakdown(ts, keyOf) ==
    LET Bucket(k) == [j \in 1..Cardinality({i \in DOMAIN ts : keyOf[i] = k}) |->
                         ts[SetToSortSeq({i \in DOMAIN ts : keyOf[i] = k}, <)[j]]] IN
    {[key |-> k, of |-> Figures(Bucket(k))] : k \in {keyOf[i] : i \in DOMAIN ts}}

Report(keyOf) ==
    [figures |-> Figures(Trades), return |-> ReturnFromCurve(Curve(Trades)),
     drawdown |-> Drawdown(Curve(Trades)), rows |-> Breakdown(Trades, keyOf)]

-----------------------------------------------------------------------------
(* Statistics of one version over the tape, skipped events included.       *)

\* rPerUnitRisk of an event: what the trade made for the risk it took, 0 without a trade.
OutcomeOf(e) == [action |-> IF e.open THEN "open" ELSE "skip", r |-> IF e.open THEN e.pnl ELSE 0]

RSeries(events) == [i \in DOMAIN events |-> OutcomeOf(events[i]).r]

RegimeBreakdown(rs, regimeOf) ==
    [g \in {regimeOf[i] : i \in DOMAIN rs} |->
        [tradeCount |-> Cardinality({i \in DOMAIN rs : regimeOf[i] = g}),
         wins |-> Cardinality({i \in DOMAIN rs : regimeOf[i] = g /\ rs[i] > 0}),
         total |-> SumOf([i \in DOMAIN rs |-> IF regimeOf[i] = g THEN rs[i] ELSE 0])]]

WorstOf(xs) == FoldLeft(LAMBDA least, x : IF x < least THEN x ELSE least, xs[1], xs)

TailCountMutant(n) == n \div TailDen

TailCount(n) == IF n \div TailDen > 1 THEN n \div TailDen ELSE 1

\* expectedShortfall5R, as <<sum of the tail, its length>>.
Shortfall(xs) == <<SumOf(SubSeq(SortSeq(xs, <), 1, TailCount(Len(xs)))), TailCount(Len(xs))>>

StreakStepMutant(acc, x) == IF x < 0 THEN [now |-> acc.now + 1, max |-> acc.now + 1] ELSE [acc EXCEPT !.now = 0]

StreakStep(acc, x) ==
    IF x < 0 THEN [now |-> acc.now + 1, max |-> IF acc.now + 1 > acc.max THEN acc.now + 1 ELSE acc.max]
    ELSE [acc EXCEPT !.now = 0]

LongestLosingStreak(xs) == FoldLeft(StreakStep, [now |-> 0, max |-> 0], xs).max

\* Of a tape with events: buildTailRiskByVersion asks for none on an empty one.
TailRisk(rs) ==
    [maxSingleLoss |-> WorstOf(rs), shortfall |-> Shortfall(rs), streak |-> LongestLosingStreak(rs)]

-----------------------------------------------------------------------------
(* The bootstrap.                                                          *)

\* The block length for any raw estimate of the Politis-White rule.
BlockLenMutant(n, raw) == IF raw > MinBlock THEN raw ELSE MinBlock

BlockLen(n, raw) ==
    LET cap == IF n \div MinBlocks > MinBlock THEN n \div MinBlocks ELSE MinBlock IN
    IF n < 2 * MinBlock THEN (IF n < MinBlock THEN n ELSE MinBlock)
    ELSE IF raw <= 0 THEN MinBlock
    ELSE LET floored == IF raw > MinBlock THEN raw ELSE MinBlock IN IF floored < cap THEN floored ELSE cap

\* The event a block puts at offset k, wrapping around.
SampleMutant(xs, start, k) == xs[IF start + k < Len(xs) THEN start + k + 1 ELSE Len(xs)]

Sample(xs, start, k) == xs[((start + k) % Len(xs)) + 1]

\* Sum of one resample: blocks laid end to end, cut at the length of the series.
ResampleSum(xs, len, starts) ==
    LET n == Len(xs) IN
    SumOf([j \in 1..n |-> Sample(xs, starts[((j - 1) \div len) + 1], (j - 1) % len)])

\* The starts a resample may draw, one per block.
Draws(n, len) == [1..((n + len - 1) \div len) -> 0..(n - 1)]

\* The sums of the resamples: each sequence of starts drawn once, where the code draws
\* with a seeded generator.  All are over the same length, so sums order as means do.
Distribution(xs, len) == {[starts |-> d, sum |-> ResampleSum(xs, len, d)] : d \in Draws(Len(xs), len)}

\* The entry at a 0-based index of the sorted resamples.
SortedAt(resamples, k) ==
    CHOOSE v \in {d.sum : d \in resamples} :
        /\ Cardinality({d \in resamples : d.sum < v}) <= k
        /\ k < Cardinality({d \in resamples : d.sum <= v})

LowIndex(n) == n \div CiDen
HighIndexMutant(n) == ((CiDen - 1) * n) \div CiDen

HighIndex(n) == ((CiDen - 1) * n + CiDen - 1) \div CiDen - 1

\* The percentile interval of the resamples.
Interval(resamples) ==
    LET n == Cardinality(resamples) IN <<SortedAt(resamples, LowIndex(n)), SortedAt(resamples, HighIndex(n))>>

\* Two versions' records of the same events, and what the sample-size gates count.
PairedDiff(a, b) ==
    LET ra == RSeries(a)
        rb == RSeries(b) IN
    [diff |-> [i \in DOMAIN a |-> ra[i] - rb[i]],
     tradesA |-> Counted(a, LAMBDA e : OutcomeOf(e).action = "open"),
     tradesB |-> Counted(b, LAMBDA e : OutcomeOf(e).action = "open"),
     nonZero |-> Cardinality({i \in DOMAIN a : ra[i] # 0 \/ rb[i] # 0})]

ResolveWinner(ci) == IF ci[1] > 0 THEN "A" ELSE IF ci[2] < 0 THEN "B" ELSE "tie"

\* computeOnePair: a verdict only above both floors, from the interval of the resamples.
Verdict(a, b, raw) ==
    LET p == PairedDiff(a, b) IN
    IF p.tradesA < TradesFloor \/ p.tradesB < TradesFloor \/ p.nonZero < EventsFloor THEN "inconclusive"
    ELSE ResolveWinner(Interval(Distribution(p.diff, BlockLen(Len(a), raw))))

-----------------------------------------------------------------------------
(* Properties.                                                             *)

\* The one-pass drawdown is the worst fall from a peak of the curve that is worth something, and
\* lasted from that peak to that trough; a curve that never rose above nothing has none
\* (BacktestEquityCurve.computeDrawdown).
DrawdownIsWorst ==
    LET c == Curve(Trades)
        Fall(i, j) == <<c[i].equity - c[j].equity, c[i].equity>>
        falls == {p \in (DOMAIN c) \X (DOMAIN c) :
                    p[1] < p[2] /\ c[p[1]].equity > 0 /\ \A k \in 1..p[2] : c[k].equity <= c[p[1]].equity}
        found == Drawdown(c) IN
    /\ \A p \in falls : ~Worse(Fall(p[1], p[2]), found.worst)
    /\ \/ found = [worst |-> <<0, 1>>, days |-> 0]
       \/ \E p \in falls : found = [worst |-> Fall(p[1], p[2]), days |-> c[p[2]].day - c[p[1]].day]

\* The streak is the longest run of consecutive losses of the tape, wherever it lies; a
\* skipped event ends it (computeLongestLosingStreak).
StreakIsLongest ==
    LET xs == RSeries(tape)
        runs == {r \in (DOMAIN xs) \X (DOMAIN xs) : r[1] <= r[2] /\ \A k \in r[1]..r[2] : xs[k] < 0} IN
    tape # <<>> => TailRisk(xs).streak = Max({0} \cup {r[2] - r[1] + 1 : r \in runs})

\* The shortfall averages a tail that is never empty: it lies between the worst event and
\* the average of all (computeExpectedShortfall on short series).
ShortfallIsTail ==
    tape # <<>> =>
        LET xs == RSeries(tape)
            es == TailRisk(xs).shortfall IN
        /\ es[2] >= 1
        /\ TailRisk(xs).maxSingleLoss * es[2] <= es[1]
        /\ es[1] * Len(xs) <= SumOf(xs) * es[2]

\* Every trade is counted once, whichever way the report is cut, and the two ways of
\* reading a run agree: the regimes of the tape hold every event, and the wins and the
\* total of its trades.
ReportAddsUp ==
    LET ts == Trades
        report == Report([i \in DOMAIN ts |-> ts[i].day])
        all == report.figures IN
    /\ all.winCount + all.lossCount = all.tradeCount
    /\ ts # <<>> => Last(Curve(ts)).equity = Capital + all.netPnl
    /\ ts # <<>> /\ Curve(ts)[1].equity > 0 /\ report.return[1] < 0 => report.drawdown.worst[1] > 0
    /\ \A keyOf \in [DOMAIN ts -> {"k", "l"}] :
        LET rows == Breakdown(ts, keyOf) IN
        /\ MapThenSumSet(LAMBDA row : row.of.tradeCount, rows) = all.tradeCount
        /\ MapThenSumSet(LAMBDA row : row.of.winCount, rows) = all.winCount
        /\ MapThenSumSet(LAMBDA row : row.of.netPnl, rows) = all.netPnl
    /\ \A regimeOf \in [DOMAIN tape -> {"g", "h"}] :
        LET buckets == RegimeBreakdown(RSeries(tape), regimeOf) IN
        /\ MapThenSumSet(LAMBDA g : buckets[g].tradeCount, DOMAIN buckets) = Len(tape)
        /\ MapThenSumSet(LAMBDA g : buckets[g].wins, DOMAIN buckets) = all.winCount
        /\ MapThenSumSet(LAMBDA g : buckets[g].total, DOMAIN buckets) = all.netPnl

\* The bootstrap reads no day: the tapes that close on one day are all it can be given.
Dayless == tape # <<>> /\ \A i \in DOMAIN tape : tape[i].day = 0

\* Over all block starts the resamples average to the series: wrapping around gives the
\* first and last events the weight of the others (circularBlockBootstrap).
ResamplesUnbiased ==
    Dayless =>
    \A raw \in 0..(MaxEvents + 1) :
        LET xs == RSeries(tape)
            len == BlockLen(Len(xs), raw)
            resamples == Distribution(xs, len) IN
        /\ len \in 1..Len(xs)
        /\ MapThenSumSet(LAMBDA d : d.sum, resamples) = Cardinality(resamples) * SumOf(xs)

\* Comparing B with A gives the mirror image of comparing A with B, and a version wins
\* only when all but the cut-off share of the resamples is on its side, whatever the other
\* version made of the same events (computeOnePair, circularBlockBootstrap).
ComparisonAntisymmetric ==
    LET mirrored == [v \in {"A", "B", "tie", "inconclusive"} |-> IF v = "A" THEN "B" ELSE IF v = "B" THEN "A" ELSE v]
        rivals == {Reverse(tape), Append(Tail(tape), Head(tape)), [i \in DOMAIN tape |-> [tape[i] EXCEPT !.pnl = -@]]} IN
    Dayless =>
    \A rival \in rivals, raw \in {1, MaxEvents} :
        LET verdict == Verdict(tape, rival, raw)
            resamples == Distribution(PairedDiff(tape, rival).diff, BlockLen(Len(tape), raw))
            against == Cardinality({d \in resamples : d.sum <= 0}) IN
        /\ Verdict(rival, tape, raw) = mirrored[verdict]
        /\ verdict # "inconclusive" => (verdict = "A" <=> against * CiDen <= Cardinality(resamples))
=============================================================================
