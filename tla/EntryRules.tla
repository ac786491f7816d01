----------------------------- MODULE EntryRules -----------------------------
(***************************************************************************)
(* The arithmetic one entry passes through, from the bar that triggers it  *)
(* to the fill that is kept or unwound: the strategy cores (fade, follow   *)
(* and the cross-sectional open), PositionSizer, the pure checks of the    *)
(* risk gate (stress, tier filters, funding skip, exit geometry), the      *)
(* order-policy matrix and router, and the fill-acceptance guard.          *)
(*                                                                         *)
(* Prices are whole ticks and the signal price lies near 10,000, so that a *)
(* basis point is about a tick; rates are basis points.  A product with a  *)
(* rate is truncated to a tick, where the code keeps decimals.             *)
(***************************************************************************)
EXTENDS Integers, FiniteSets, FiniteSetsExt

CONSTANTS
    Bars,               \* the triggering bars: [vwap, ref, atr, wick, ...]
    Snapshots,          \* market snapshots at the bar's close
    FillPrices,         \* average prices the exchange may fill at
    Capital, PerCoin,   \* accountCapitalUsdt, maxExposurePerCoinUsdt
    MinNotional, Relax  \* instrument minimum; the paper relax flags

NoTrade == [ref |-> 0]

VARIABLES stage, bar, snap, trade

vars == <<stage, bar, snap, trade>>

Tiers == {"t1", "t2", "t3"}
Flows == {"exhaustion", "trend", "catalyst", "beta", "noise"}
Versions == {"v1", "v2", "v3", "xmom"}

Abs(x) == IF x < 0 THEN -x ELSE x
Lesser(x, y) == IF x < y THEN x ELSE y
Greater(x, y) == IF x > y THEN x ELSE y

\* x moved against (with) a position of the side.
Adverse(side, x, d) == IF side = "long" THEN x - d ELSE x + d
Favour(side, x, d) == IF side = "long" THEN x + d ELSE x - d
\* How far y lies from x in the side's favour, negative when against.
Gain(side, x, y) == IF side = "long" THEN y - x ELSE x - y

BarRecord ==
    [version: Versions, vwap: Nat, ref: Nat \ {0}, atr: Nat \ {0}, wick: Int, oi: -1..1, vol: 0..3,
     regime: {"calm", "up", "down", "ranging"}, idio: BOOLEAN, young: BOOLEAN, inside: BOOLEAN]

\* A rate of 0 to 3 stands for where funding lies between its thresholds, on either side.
SnapshotRecord ==
    [tier: Tiers, spread: Nat, depth: Nat, slippage: Nat, oi: BOOLEAN, buying: BOOLEAN, funding: -3..3,
     breadth: Int, sameBar: Nat, shock: BOOLEAN, finite: BOOLEAN]

ConstantsOK ==
    /\ Bars \subseteq BarRecord /\ Snapshots \subseteq SnapshotRecord /\ FillPrices \subseteq Nat \ {0}
    /\ {Capital, PerCoin, MinNotional} \subseteq Nat \ {0} /\ Relax \in BOOLEAN

Stages == {"idle", "signalled", "sized", "approved", "planned", "open", "unwound"}

Init == stage = "idle" /\ bar \in Bars /\ snap \in Snapshots /\ trade = NoTrade

-----------------------------------------------------------------------------
(* The strategy cores, with the seeded parameters: MinRr is 3/2, the noise *)
(* floor the greater of 0.3 ATR (one ATR for the cross-sectional version)  *)
(* and thirty basis points of the signal price.                            *)

\* The trap of classifyFlowType and of isIdiosyncraticTrap.
Trap(b) == b.idio /\ b.oi > 0 /\ b.vol >= 2

\* classifyFlowType: oi is -1 when it falls sharply, 1 when it rises; vol is 0
\* below any confirmation, 1 below the trigger floor, 3 at a spike.
FlowType(b, s) ==
    CASE b.version = "xmom" -> "trend"
      [] b.version # "xmom" /\ Trap(b) -> "catalyst"
      [] b.version # "xmom" /\ b.oi < 0 -> "exhaustion"
      [] OTHER ->
            IF s.funding > 0 /\ b.vol = 3 /\ b.young THEN "catalyst"
            ELSE IF s.breadth > 20 /\ s.sameBar >= 5 THEN "beta"
            ELSE IF s.spread <= 3 /\ s.depth < 50 /\ b.vol = 0 THEN "noise" ELSE "trend"

\* V1MeanReversionStrategy, V2MomentumStrategy, V3HybridRouterStrategy,
\* XMomPortfolioStrategy: the core a version runs on a flow.
Core(b, s) ==
    CASE b.version = "v1" -> "fade" [] b.version = "v2" -> "follow" [] b.version = "xmom" -> "xmom"
      [] b.version = "v3" -> CASE FlowType(b, s) = "exhaustion" -> "fade" [] FlowType(b, s) = "trend" -> "follow" [] OTHER -> "skip"

\* resolveFadeSide, resolveFollowSide; the cross-sectional core only buys.
FadeSide(b) == IF b.ref > b.vwap THEN "short" ELSE "long"
FollowSide(b) == IF b.ref > b.vwap THEN "long" ELSE "short"
Side(core, b) == CASE core = "fade" -> FadeSide(b) [] core = "follow" -> FollowSide(b) [] OTHER -> "long"

SlFloor(b) == Greater(IF b.version = "xmom" THEN b.atr ELSE (3 * b.atr) \div 10, (3 * b.ref) \div 1000)

FadeTarget(b) == b.vwap + (b.ref - b.vwap) \div 2

\* slCapDistance: the stop may be two thirds of the way to the target.
FadeCap(b) == (2 * Abs(FadeTarget(b) - b.ref)) \div 3

\* computeStructuralStop: ten basis points past the wick, at most two percent
\* away and at most FadeCap away.
StructuralStop(b) ==
    IF FadeSide(b) = "long"
    THEN Greater(Greater((b.wick * 999) \div 1000, (b.ref * 98) \div 100), b.ref - FadeCap(b))
    ELSE Lesser(Lesser((b.wick * 1001) \div 1000, (b.ref * 102) \div 100), b.ref + FadeCap(b))

RegimeSuppressed(b) == (b.regime = "up" /\ FadeSide(b) = "short") \/ (b.regime = "down" /\ FadeSide(b) = "long")

\* closedBackInsideBand, isVolumeDecelerating, isOiNotRising
Exhausted(b) == b.inside \/ b.vol <= 1 \/ b.oi <= 0

FadeSkips(b) == RegimeSuppressed(b) \/ Trap(b) \/ ~Exhausted(b) \/ FadeCap(b) < SlFloor(b) \/ b.vwap = b.ref

\* resolveTakeProfitDistance: the ATR leg (for a long also the cost floor and
\* its margin), widened to MinRr times the stop up to five ATRs.
BaseTarget(b) == IF FollowSide(b) = "long" THEN Greater((7 * b.atr) \div 2, (b.ref * 48) \div 10000) ELSE 2 * b.atr

FollowDistance(b) == Greater(BaseTarget(b), Lesser((3 * Abs(b.ref - b.vwap)) \div 2, 5 * b.atr))

FollowSkips(b, s) ==
    \/ FlowType(b, s) = "catalyst" \/ b.regime = "ranging"
    \/ b.ref = b.vwap
    \/ FollowSide(b) = "short" /\ b.ref <= FollowDistance(b)
    \/ 2 * FollowDistance(b) < 3 * Abs(b.ref - b.vwap)

\* resolveExpectedFillPrice: the open pays half the spread.
ExpectedFill(b, s) == b.ref + (b.ref * s.spread) \div 20000

\* The exit a core proposes, with the price it is sized from.
FadeExit(b) == [stop |-> StructuralStop(b), target |-> FadeTarget(b), anchor |-> b.ref]
FollowExit(b) == [stop |-> b.vwap, target |-> Favour(FollowSide(b), b.ref, FollowDistance(b)), anchor |-> b.ref]
XmomExit(b, s) == LET f == ExpectedFill(b, s) IN [stop |-> f - 2 * b.atr, target |-> f + 3 * b.atr, anchor |-> f]

Proposed(core, b, s) == CASE core = "fade" -> FadeExit(b) [] core = "follow" -> FollowExit(b) [] OTHER -> XmomExit(b, s)

Skips(b, s) ==
    \/ Core(b, s) = "skip"
    \/ Core(b, s) = "fade" /\ FadeSkips(b)
    \/ Core(b, s) = "follow" /\ FollowSkips(b, s)

\* evaluateMeanReversion, evaluateMomentum, buildMomentumOpenIntent.
Signal ==
    /\ stage = "idle" /\ ~Skips(bar, snap)
    /\ LET core == Core(bar, snap)
           e == Proposed(core, bar, snap)
       IN  trade' = [core |-> core, side |-> Side(core, bar), ref |-> bar.ref, anchor |-> e.anchor, proposed |-> e.stop,
                     stop |-> e.stop, target |-> e.target, qty |-> 0, policy |-> "none", limit |-> 0, fill |-> 0]
    /\ stage' = "signalled" /\ UNCHANGED <<bar, snap>>

TypeOK ==
    /\ stage \in Stages /\ (stage = "idle" <=> trade = NoTrade)
    /\ bar.version \in Versions /\ FlowType(bar, snap) \in Flows /\ snap.tier \in Tiers
    /\ stage \in Stages \ {"idle", "signalled"} => trade.qty \in 1..Capital
    /\ stage \in {"open", "unwound"} => trade.fill \in FillPrices

-----------------------------------------------------------------------------
(* PositionSizer.                                                          *)

Budget == Capital \div 100      \* RISK_PER_TRADE_PCT
Leverage == 3                   \* MAX_LEVERAGE

\* A rate of 2 is at the suppress threshold, 3 is over the annualized limit.
FundingRate == IF bar.version = "xmom" THEN 0 ELSE snap.funding

FundingCut ==
    /\ Abs(FundingRate) >= 2
    /\ IF trade.side = "long" THEN FundingRate > 0 ELSE FundingRate < 0

\* The quantity that risks the budget, halved by unfavourable funding.
RiskQty(dist) == Budget \div (dist * IF FundingCut THEN 2 ELSE 1)

\* clampToCeilings and roundDownToStep, with a step of one.
ClampToCeilingsMutant(qty) == Lesser(qty, Greater(Leverage * Capital, PerCoin) \div trade.anchor)

ClampToCeilings(qty) == Lesser(qty, Lesser(Leverage * Capital, PerCoin) \div trade.anchor)

\* size: suppressed, invalid and below-minimum inputs build no intent.
Size ==
    /\ stage = "signalled"
    /\ Abs(FundingRate) <= 2
    /\ LET dist == Abs(trade.anchor - trade.stop) IN
       /\ dist >= 1
       /\ LET qty == ClampToCeilings(RiskQty(dist)) IN
          /\ qty * trade.anchor >= MinNotional
          /\ trade' = [trade EXCEPT !.qty = qty]
    /\ stage' = "sized" /\ UNCHANGED <<bar, snap>>

-----------------------------------------------------------------------------
(* StressHaltEvaluator.                                                    *)

\* hasInvalidStressInputs: a scalar of the snapshot is not finite.
Invalid(s) == ~s.finite

\* activeStressLegs under the paper relax flag: "shock" stands for the five
\* relaxable legs (BTC, ETH, open interest, funding, spread).
ActiveLegs(s, relax) ==
    {l \in {"breadth", "same_bar", "shock"}:
        \/ l = "breadth" /\ Abs(s.breadth) >= 40
        \/ l = "same_bar" /\ s.sameBar >= 20
        \/ l = "shock" /\ s.shock /\ ~relax}

IsStressed(s, relax) == Invalid(s) \/ ActiveLegs(s, relax) # {}

ClassifyHaltLeg(s, relax) ==
    LET legs == ActiveLegs(s, relax) IN
    IF Invalid(s) \/ legs = {} THEN "invalid"
    ELSE IF Cardinality(legs) > 1 THEN "multi" ELSE CHOOSE l \in legs: TRUE

\* isGlobalStressed, isSameBarStillStressed
StillStressedMutant(leg, s) ==
    Invalid(s) \/ IF leg = "same_bar" THEN s.sameBar >= 20 + 1 ELSE Abs(s.breadth) > 30

StillStressed(leg, s) ==
    Invalid(s) \/ IF leg = "same_bar" THEN s.sameBar >= 12 ELSE Abs(s.breadth) > 30

-----------------------------------------------------------------------------
(* The gate's filters and exit geometry.                                   *)

\* TIER_SPREAD_CEILING_PCT and COIN_DEPTH_FLOOR_10BPS_USDT (hundreds of USDT);
\* the paper relax takes the laxer of its own value and the tier's.
SpreadCeiling(tier, relax) ==
    LET live == CASE tier = "t1" -> 15 [] tier = "t2" -> 30 [] OTHER -> 50
    IN  IF relax THEN Greater(30, live) ELSE live

DepthFloorMutant(tier, relax) ==
    IF relax THEN 25 ELSE CASE tier = "t1" -> 100 [] tier = "t2" -> 25 [] OTHER -> 20

DepthFloor(tier, relax) ==
    LET live == CASE tier = "t1" -> 100 [] tier = "t2" -> 25 [] OTHER -> 20
    IN  IF relax THEN Lesser(25, live) ELSE live

\* isOiUnavailable, isSpreadTooWide, isBookTooThin; a depth of 0 is missing
\* or unreadable.
Liquid(s, relax) ==
    /\ s.oi
    /\ s.spread <= SpreadCeiling(s.tier, relax)
    /\ s.depth > DepthFloor(s.tier, relax)

\* firstFailingTierFilter: no version is validated for tier 3.
TierFilterPasses(s, relax) == Liquid(s, relax) /\ s.tier # "t3"

\* checkFundingFlowSkip: a fade against rising open interest, a short into a
\* squeeze.  The cross-sectional snapshot has no deviation and flat interest.
FundingFlowSkip(t, b, s) ==
    /\ b.version # "xmom"
    /\ \/ t.side = FadeSide(b) /\ b.oi > 0 /\ Abs(s.funding) < 2
       \/ t.side = "short" /\ s.funding <= -2 /\ s.buying

\* clampStopInsideLiquidation: four fifths of the way to the maintenance
\* margin, half a percent; 0 when there is no room.
SafeDistanceMutant(t) == (t.ref * ((200 \div Leverage) - 1)) \div 250

SafeDistance(t) ==
    LET notional == t.qty * t.anchor
    IN  IF notional > Leverage * Capital THEN 0
        ELSE (t.ref * (((200 * Capital) \div notional) - 1)) \div 250

ClampedStop(t) ==
    IF Abs(t.ref - t.stop) <= SafeDistance(t) THEN t.stop ELSE Adverse(t.side, t.ref, SafeDistance(t))

\* isTakeProfitBelowCost: four basis points of fee and the slippage, each way.
ClearsCost(t) ==
    10000 * Gain(t.side, t.ref, t.target) > t.ref * 2 * (4 + IF bar.version = "xmom" THEN 0 ELSE snap.slippage)

\* isWrongSideStop, isWrongSideTakeProfit, isRewardRiskTooLow (at least 1)
ExitPasses(t) ==
    /\ SafeDistance(t) > 0
    /\ Gain(t.side, t.ref, t.stop) < 0 /\ Gain(t.side, t.ref, t.target) > 0
    /\ ClearsCost(t)
    /\ Gain(t.side, t.ref, t.target) >= -Gain(t.side, t.ref, ClampedStop(t))

\* buildMomentumSnapshot, buildGateStrategyParams: the cross-sectional open
\* carries its own snapshot, with neutral breadth and no trigger count, and
\* asks for no open interest.
Read(b, s) == IF b.version = "xmom" THEN [s EXCEPT !.breadth = 0, !.sameBar = 0, !.oi = TRUE] ELSE s

\* evaluateEntry: the caps that depend on other trades are RiskGate's.
Approve ==
    /\ stage = "sized"
    /\ ~IsStressed(Read(bar, snap), Relax)
    /\ TierFilterPasses(Read(bar, snap), Relax)
    /\ ~FundingFlowSkip(trade, bar, snap)
    /\ ExitPasses(trade)
    /\ trade' = [trade EXCEPT !.stop = ClampedStop(trade)]
    /\ stage' = "approved" /\ UNCHANGED <<bar, snap>>

-----------------------------------------------------------------------------
(* orderPolicyMatrix and OrderPolicyRouter.                                *)

Row(dir, tiers, flows, policy) == {[dir |-> dir, tier |-> t, flow |-> f, policy |-> policy]: t \in tiers, f \in flows}

MakerRowsMutant == Row("fade", Tiers, Flows \ {"exhaustion"}, "maker") \cup Row("fade", {"t2"}, {"exhaustion"}, "maker")

\* buildMeanReversionMakerRows
MakerRows == Row("fade", Tiers, Flows \ {"exhaustion"}, "maker") \cup Row("fade", {"t2", "t3"}, {"exhaustion"}, "maker")

\* buildMomentumIocRows
IocRows == Row("follow", Tiers, Flows, "ioc")

\* The rows of an OPEN; those of an ADD are the same.
EntryRows == Row("fade", {"t1"}, {"exhaustion"}, "ioc") \cup MakerRows \cup IocRows

Matches(dir, tier, flow) == {r \in EntryRows: r.dir = dir /\ r.tier = tier /\ r.flow = flow}

\* lookupOrderPolicy, with the maker fallback of an uncatalogued key.
LookupOrderPolicy(dir, tier, flow) ==
    LET found == Matches(dir, tier, flow)
    IN  IF found = {} THEN "maker" ELSE (CHOOSE r \in found: TRUE).policy

Direction(core) == IF core = "fade" THEN "fade" ELSE "follow"

SlippageTier(tier) == CASE tier = "t1" -> 15 [] tier = "t2" -> 40 [] OTHER -> 80
SlShare == 25   \* DEFAULT_MAX_SLIPPAGE_OF_SL_PCT

\* computeSlippageCap as a price distance: the tier's cap or a share of the
\* proposed stop's distance, whichever is less.
SlippageCapMutant(t, tier) == (t.ref * SlippageTier(tier)) \div 10000

SlippageCap(t, tier) ==
    Lesser((t.ref * SlippageTier(tier)) \div 10000, (Abs(t.ref - t.proposed) * SlShare) \div 100)

\* plan, buildPlan, computeLimitPrice; the mid at the trigger is the signal price.
Plan ==
    /\ stage = "approved"
    /\ LET policy == LookupOrderPolicy(Direction(trade.core), snap.tier, FlowType(bar, snap)) IN
       trade' = [trade EXCEPT !.policy = policy,
                              !.limit = IF policy = "ioc" THEN Favour(trade.side, trade.ref, SlippageCap(trade, snap.tier))
                                        ELSE trade.ref]
    /\ stage' = "planned" /\ UNCHANGED <<bar, snap>>

-----------------------------------------------------------------------------
(* The fill and evaluateFillDrift.                                         *)

\* evaluateFillGeometry: side ordering, the noise floor, the reward to risk.
\* No core is eligible for a rebased target and the magnitude leg ships off.
FillAcceptedMutant(t, p) == Gain(t.side, p, t.stop) < 0

FillAccepted(t, p) ==
    LET risk == -Gain(t.side, p, t.stop)
        reward == Gain(t.side, p, t.target)
    IN  risk > 0 /\ reward > 0 /\ risk >= SlFloor(bar) /\ 2 * reward >= 3 * risk

\* The exchange fills at the limit or better; a maker order is pegged to the
\* book when it is sent, wherever the market has gone.
Fill(p) ==
    /\ stage = "planned"
    /\ trade.policy = "ioc" => Gain(trade.side, p, trade.limit) >= 0
    /\ trade' = [trade EXCEPT !.fill = p]
    /\ stage' = IF FillAccepted(trade, p) THEN "open" ELSE "unwound"
    /\ UNCHANGED <<bar, snap>>

\* The bar is done with: skipped by its core, refused, filled or unwound.
NextBar ==
    /\ stage = "idle" => Skips(bar, snap)
    /\ stage' = "idle" /\ trade' = NoTrade
    /\ UNCHANGED <<bar, snap>>

Next == Signal \/ Size \/ Approve \/ Plan \/ (\E p \in FillPrices: Fill(p)) \/ NextBar

Spec == Init /\ [][Next]_vars

-----------------------------------------------------------------------------
(* Properties.                                                             *)

\* An order that reaches the exchange never stands to lose more than the
\* risk budget between the price it was sized from and its stop, and its
\* notional is within the leverage and the per-coin ceilings: sizing, the
\* ceilings, the rounding and the gate's clamp together.
OrderWithinBudget ==
    stage \in {"approved", "planned"} =>
        /\ trade.qty * Abs(trade.anchor - trade.stop) <= Budget
        /\ trade.qty * trade.anchor <= Lesser(Leverage * Capital, PerCoin)

\* The liquidation clamp never moves a stop: what the sizer allows at the
\* stop's distance always leaves the stop inside the safe distance, so the
\* exit the gate approves is the one the core proposed.
StopKeptByGate == stage \in {"approved", "planned", "open"} => trade.stop = trade.proposed

\* A taker entry that is kept loses at its stop at most the budget and the
\* share of it the router grants to slippage, wherever in its limit it filled.
LossAtStopBounded ==
    stage = "open" /\ trade.policy = "ioc" =>
        100 * trade.qty * Abs(trade.fill - trade.stop) <= Budget * (100 + SlShare)

\* A position that is kept stands to gain, at the fill it got, more than it
\* can lose: the drift of a maker fill away from the signal cannot turn the
\* geometry the core and the gate approved.
KeptPositionsPay ==
    stage = "open" => Gain(trade.side, trade.fill, trade.target) > -Gain(trade.side, trade.fill, trade.stop)

\* The paper relax is never stricter than live: a coin live trading would
\* admit is admitted, and a market it calls calm is calm.
RelaxNeverStricter ==
    /\ Liquid(snap, FALSE) => Liquid(snap, TRUE)
    /\ IsStressed(snap, TRUE) => IsStressed(snap, FALSE)

\* A snapshot that counts as a clean tick for a resumable leg would not
\* engage that leg again: the resume thresholds lie below the engage ones, so
\* a day that resumes does not halt on the same reading.
ResumeIsQuiet ==
    \A leg \in {"breadth", "same_bar"}: ~StillStressed(leg, snap) => leg # ClassifyHaltLeg(snap, Relax)

\* The policy of every entry is catalogued, once: the maker fallback never
\* decides, and the order of the rows does not matter.
EntriesCatalogued == Cardinality(Matches(Direction(Core(bar, snap)), snap.tier, FlowType(bar, snap))) = 1

\* A stop the fade core proposes is outside the noise floor, the distance
\* under which the fill guard unwinds the position.
NoNoiseTightExit ==
    stage = "signalled" /\ trade.core = "fade" => Abs(trade.ref - trade.stop) >= SlFloor(bar)
=============================================================================
