------------------------------ MODULE RiskGate ------------------------------
(***************************************************************************)
(* How an OPEN intent travels from the strategy through the risk gate to   *)
(* the executor, and how the slot and the exposure it reserves on the way  *)
(* are given back.                                                         *)
(*                                                                         *)
(* Many intents are in flight at once.  Everything that awaits I/O is an   *)
(* action boundary: the gate reads the open positions in Load and decides  *)
(* in a later step, on a snapshot that may be stale by then, whereas the   *)
(* in-memory ReservationLedger is always read live.  From the last database*)
(* read of evaluate() to ledger.reserve() only resolved promises are       *)
(* awaited, so the decision itself (Approve) is one step.                  *)
(***************************************************************************)
EXTENDS Integers, FiniteSets, FiniteSetsExt

CONSTANTS
    Intents,            \* the OPEN intents of a behaviour, one per eventId
    SymbolOf,           \* [Intents -> symbols]
    SideOf,             \* [Intents -> {"long", "short"}]
    ModeOf,             \* [Intents -> Modes], snapshot.correlation_mode
    NotionalOf,         \* [Intents -> Nat], sizing.notional
    RankOf,             \* [Intents -> Nat], score then symbol; lower is better
    BarOf,              \* [Intents -> Nat], the candle of the triggering event
    EligibleIdio,       \* the intents with idiosyncrasyScore >= the minimum
    BarTicks,           \* CANDLE_INTERVAL_MS in clock ticks
    TtlTicks,           \* RESERVATION_TTL_MS in clock ticks
    MaxClock,           \* bound on the wall clock
    MaxPerCoin,         \* limits.maxExposurePerCoinUsdt
    MaxSameDirection,   \* limits.maxSameDirectionExposureUsdt
    MaxPerBar,          \* params.max_trades_per_bar_universe
    MaxPerSymbolDay,    \* params.max_trades_per_symbol_per_day
    Paper,              \* exchangeEnv = PAPER: reconciliation passes are no-ops
    Faults              \* the faults this instance is exposed to

Modes == {"idiosyncratic", "correlated"}
Slots == {"A", "B", "C"}
NoSlot == "none"

MAX_IDIOSYNCRATIC_SLOTS == 2

\* "drop": persisting the decision fails, so the approval is never emitted;
\* "abandon": the fill-acceptance guard rejects the fill, or the entry path
\* throws once the position row exists; "midEntryClose": a position is closed
\* while its entry is still attaching protection; "restart": the process restarts.
FaultKinds == {"drop", "abandon", "midEntryClose", "restart"}

ASSUME IntentsAssumption == IsFiniteSet(Intents)
ASSUME AttributesAssumption ==
    /\ ModeOf \in [Intents -> Modes]
    /\ SideOf \in [Intents -> {"long", "short"}]
    /\ NotionalOf \in [Intents -> Nat]
    /\ BarOf \in [Intents -> Nat]
    /\ RankOf \in [Intents -> Nat]
    /\ \A i, j \in Intents : RankOf[i] = RankOf[j] => i = j
    /\ EligibleIdio \subseteq Intents
ASSUME ClockAssumption ==
    /\ BarTicks \in Nat \ {0}
    /\ TtlTicks \in Nat
    /\ MaxClock \in Nat
ASSUME LimitsAssumption ==
    /\ MaxPerCoin \in Nat
    /\ MaxSameDirection \in Nat
    /\ MaxPerBar \in Nat
    /\ MaxPerSymbolDay \in Nat
ASSUME ModeAssumption == Paper \in BOOLEAN /\ Faults \subseteq FaultKinds

VARIABLES
    clock,          \* Date.now(), in ticks
    recoveryReady,  \* RiskGateService.recoveryReady
    stage,          \* [Intents -> Stages], how far each intent has travelled
    snap,           \* [Intents -> SUBSET Intents], the rows findOpen() returned
    ledger,         \* [Intents -> LedgerStates], ReservationLedger by intent
    slot,           \* [Intents -> Slots \cup {NoSlot}], the reserved slot
    row,            \* [Intents -> RowStates], the positions table
    owed            \* [Intents -> Releases], the release a closed row still owes

vars == <<clock, recoveryReady, stage, snap, ledger, slot, row, owed>>

Stages == {"undetected", "buffered", "queued", "loaded", "rejected",
           "approved", "submitting", "filled", "settled"}
LedgerStates == {"absent", "pending", "confirmed", "released", "expired"}
RowStates == {"none", "live", "closed"}
Releases == {"none", "executor", "reconcile"}

TypeOK ==
    /\ clock \in 0..MaxClock
    /\ recoveryReady \in BOOLEAN
    /\ stage \in [Intents -> Stages]
    /\ snap \in [Intents -> SUBSET Intents]
    /\ ledger \in [Intents -> LedgerStates]
    /\ slot \in [Intents -> Slots \cup {NoSlot}]
    /\ row \in [Intents -> RowStates]
    /\ owed \in [Intents -> Releases]

Init ==
    /\ clock = 0
    /\ recoveryReady = FALSE
    /\ stage = [i \in Intents |-> "undetected"]
    /\ snap = [i \in Intents |-> {}]
    /\ ledger = [i \in Intents |-> "absent"]
    /\ slot = [i \in Intents |-> NoSlot]
    /\ row = [i \in Intents |-> "none"]
    /\ owed = [i \in Intents |-> "none"]

-----------------------------------------------------------------------------
(***************************************************************************)
(* ReservationLedger                                                       *)
(***************************************************************************)

\* countsTowardCaps: only these two states hold a slot and exposure.
CountsTowardCaps(state) == state \in {"pending", "confirmed"}

\* listActive()
Active == {i \in Intents : CountsTowardCaps(ledger[i])}

\* Mutant: the EXPIRED arrow is missing from the table.
LegalTransitionNoExpiry(from, to) ==
    \/ from = "pending" /\ to \in {"confirmed", "released"}
    \/ from = "confirmed" /\ to = "released"

\* isLegalTransition: RELEASED and EXPIRED are terminal.
LegalTransition(from, to) ==
    \/ from = "pending" /\ to \in {"confirmed", "released", "expired"}
    \/ from = "confirmed" /\ to = "released"

\* transition(): unknown ids and illegal arrows are logged and ignored.
LedgerAfter(S, to) ==
    [i \in Intents |-> IF i \in S /\ LegalTransition(ledger[i], to)
                       THEN to ELSE ledger[i]]

-----------------------------------------------------------------------------
(***************************************************************************)
(* SlotManager.  Open rows from the snapshot and live reservations occupy  *)
(* slots; a trade that has both counts twice, as in the code.              *)
(***************************************************************************)

\* Mutant: reservations in flight are forgotten.
OccupantsRowsOnly(i) == snap[i]

\* occupiedSlots(): the snapshot's rows, and the ledger as it is now.
Occupants(i) == snap[i] \cup Active

OccupiedBy(i, s) == {j \in Occupants(i) : slot[j] = s}

\* The number of IDIOSYNCRATIC entries of the occupied list.
IdiosyncraticCount(i) ==
    Cardinality({j \in snap[i] : ModeOf[j] = "idiosyncratic"})
      + Cardinality({j \in Active : ModeOf[j] = "idiosyncratic"})

\* Mutant: a correlated trade takes C whoever holds it.
AssignCorrelatedAlways(i) == "C"

AssignCorrelated(i) ==
    IF \E j \in OccupiedBy(i, "C") : ModeOf[j] = "correlated"
    THEN NoSlot ELSE "C"

AssignIdiosyncratic(i) ==
    IF i \notin EligibleIdio THEN NoSlot
    ELSE IF OccupiedBy(i, "A") = {} THEN "A"
    ELSE IF OccupiedBy(i, "B") = {} THEN "B"
    ELSE IF /\ OccupiedBy(i, "C") = {}
            /\ IdiosyncraticCount(i) >= MAX_IDIOSYNCRATIC_SLOTS THEN "C"
    ELSE NoSlot

Assign(i) == IF ModeOf[i] = "correlated" THEN AssignCorrelated(i)
                                         ELSE AssignIdiosyncratic(i)

-----------------------------------------------------------------------------
(***************************************************************************)
(* The stateful limits of evaluateEntry().                                 *)
(***************************************************************************)

Notional(S) == MapThenSumSet(LAMBDA j : NotionalOf[j], S)

SameSymbol(S, i) == {j \in S : SymbolOf[j] = SymbolOf[i]}
SameSide(S, i) == {j \in S : SideOf[j] = SideOf[i]}

\* Mutant: only rows count, submitted but unfilled intents do not.
WithinExposureCapsRowsOnly(i) ==
    /\ Notional(SameSymbol(snap[i], i)) + NotionalOf[i] <= MaxPerCoin
    /\ Notional(SameSide(snap[i], i)) + NotionalOf[i] <= MaxSameDirection

\* checkExposureCaps: rows of the snapshot plus active reservations.
WithinExposureCaps(i) ==
    /\ Notional(SameSymbol(snap[i], i)) + Notional(SameSymbol(Active, i))
         + NotionalOf[i] <= MaxPerCoin
    /\ Notional(SameSide(snap[i], i)) + Notional(SameSide(Active, i))
         + NotionalOf[i] <= MaxSameDirection

\* Mutant: the half-open window [barOpen, nowMs) leaves out same-candle siblings.
BarWindowHalfOpenCount(i) ==
    Cardinality({j \in Active : BarOf[j] < BarOf[i] /\ BarOf[j] + 1 >= BarOf[i]})

\* barWindowReservationCount: active reservations created in the same candle.
BarWindowCount(i) == Cardinality({j \in Active : BarOf[j] = BarOf[i]})

\* countOpenedOnUtcDayForSymbol: rows, closed ones too, of this symbol today.
OpenedToday(i) ==
    Cardinality({j \in SameSymbol(Intents, i) : row[j] # "none"})

WithinOvertradingCaps(i) ==
    /\ OpenedToday(i) < MaxPerSymbolDay
    /\ BarWindowCount(i) < MaxPerBar

\* context.nowMs is the close of the intent's own candle, not the wall clock.
NowMs(i) == (BarOf[i] + 1) * BarTicks
ExpiresAt(i) == NowMs(i) + TtlTicks

-----------------------------------------------------------------------------
(***************************************************************************)
(* Strategy: detection, and the per-candle batch of correlated candidates. *)
(***************************************************************************)

\* The candidates flushClosedBars submits: the best of every earlier candle.
FlushedBy(i) == {j \in Intents : stage[j] = "buffered" /\ BarOf[j] < BarOf[i]}
BestOfBar(j, S) == \A k \in S : BarOf[k] = BarOf[j] => RankOf[j] <= RankOf[k]

\* route(): a symbol with a row is skipped, a correlated OPEN is buffered.
Routed(i) ==
    IF \E j \in SameSymbol(Intents, i) : row[j] = "live" THEN "rejected"
    ELSE IF ModeOf[i] = "correlated" THEN "buffered"
    ELSE "queued"

\* onVolatilityDetected: flush the closed candles, then route this event.
Detect(i) ==
    /\ stage[i] = "undetected"
    /\ clock >= NowMs(i)
    /\ stage' = [j \in Intents |->
         IF j = i THEN Routed(i)
         ELSE IF j \notin FlushedBy(i) THEN stage[j]
         ELSE IF BestOfBar(j, FlushedBy(i)) THEN "queued" ELSE "rejected"]
    /\ UNCHANGED <<clock, recoveryReady, snap, ledger, slot, row, owed>>

(***************************************************************************)
(* Gate: evaluate().                                                       *)
(***************************************************************************)

\* evaluate() starts: openings are refused until recovery is complete;
\* otherwise loadState() reads the open rows with qty > 0.
Load(i) ==
    /\ stage[i] = "queued"
    /\ stage' = [stage EXCEPT ![i] = IF recoveryReady THEN "loaded" ELSE "rejected"]
    /\ snap' = [snap EXCEPT ![i] =
                  IF recoveryReady THEN {j \in Intents : row[j] = "live"} ELSE {}]
    /\ UNCHANGED <<clock, recoveryReady, ledger, slot, row, owed>>

\* A halt, market filter, cooldown, funding or exit-geometry check fails (their
\* inputs are the environment's), or one of the limits below does.
Reject(i) ==
    /\ stage[i] = "loaded"
    /\ stage' = [stage EXCEPT ![i] = "rejected"]
    /\ snap' = [snap EXCEPT ![i] = {}]
    /\ UNCHANGED <<clock, recoveryReady, ledger, slot, row, owed>>

\* Every check passes: reserveAndApprove mints a PENDING reservation.
Approve(i) ==
    /\ stage[i] = "loaded"
    /\ WithinOvertradingCaps(i)
    /\ Assign(i) # NoSlot
    /\ WithinExposureCaps(i)
    /\ stage' = [stage EXCEPT ![i] = "approved"]
    /\ slot' = [slot EXCEPT ![i] = Assign(i)]
    /\ ledger' = [ledger EXCEPT ![i] = "pending"]
    /\ snap' = [snap EXCEPT ![i] = {}]
    /\ UNCHANGED <<clock, recoveryReady, row, owed>>

\* gateAndPersist: the decision row is saved and the approval emitted...
EmitApproval(i) ==
    /\ stage[i] = "approved"
    /\ stage' = [stage EXCEPT ![i] = "submitting"]
    /\ UNCHANGED <<clock, recoveryReady, snap, ledger, slot, row, owed>>

\* ...or saving it throws: nobody hears of the approval, nobody releases it.
DropApproval(i) ==
    /\ "drop" \in Faults
    /\ stage[i] = "approved"
    /\ stage' = [stage EXCEPT ![i] = "settled"]
    /\ UNCHANGED <<clock, recoveryReady, snap, ledger, slot, row, owed>>

-----------------------------------------------------------------------------
(***************************************************************************)
(* Executor: the entry path, abstracted to what it does to the ledger and  *)
(* to the positions table.                                                 *)
(***************************************************************************)

\* Halted, dry-run, rejected, cancelled or unknown: the reservation is freed.
SubmitNoFill(i) ==
    /\ stage[i] = "submitting"
    /\ stage' = [stage EXCEPT ![i] = "settled"]
    /\ ledger' = LedgerAfter({i}, "released")
    /\ UNCHANGED <<clock, recoveryReady, snap, slot, row, owed>>

\* createPositionFromFill inserts the PENDING_OPEN row.
SubmitFill(i) ==
    /\ stage[i] = "submitting"
    /\ stage' = [stage EXCEPT ![i] = "filled"]
    /\ row' = [row EXCEPT ![i] = "live"]
    /\ UNCHANGED <<clock, recoveryReady, snap, ledger, slot, owed>>

\* Mutant: the fill releases the reservation, as if the row alone held the slot.
AcceptFillReleasing(i) ==
    /\ stage[i] = "filled"
    /\ stage' = [stage EXCEPT ![i] = "settled"]
    /\ row' = [row EXCEPT ![i] = "live"]
    /\ ledger' = LedgerAfter({i}, "released")
    /\ UNCHANGED <<clock, recoveryReady, snap, slot, owed>>

\* Protection attached: the row read before the attach is saved whole, which
\* revives one that was closed meanwhile, moves to OPEN and is confirmed.
AcceptFill(i) ==
    /\ stage[i] = "filled"
    /\ stage' = [stage EXCEPT ![i] = "settled"]
    /\ row' = [row EXCEPT ![i] = "live"]
    /\ ledger' = LedgerAfter({i}, "confirmed")
    /\ UNCHANGED <<clock, recoveryReady, snap, slot, owed>>

\* unwindRejectedFill, or an exception caught by onOrderIntentApproved: the
\* reservation goes, the row stays until somebody closes it.
AbandonFill(i) ==
    /\ "abandon" \in Faults
    /\ stage[i] = "filled"
    /\ stage' = [stage EXCEPT ![i] = "settled"]
    /\ ledger' = LedgerAfter({i}, "released")
    /\ UNCHANGED <<clock, recoveryReady, snap, slot, row, owed>>

-----------------------------------------------------------------------------
(***************************************************************************)
(* Closing: the row is committed CLOSED first, the slot is given back in a *)
(* later step.                                                             *)
(***************************************************************************)

\* The executor's closing fill, or (never in PAPER) reconciliation's
\* cases (b) and (f) for a position the exchange no longer has.
CloseRow(i, how) ==
    /\ row[i] = "live"
    /\ owed[i] = "none"
    /\ stage[i] = "filled" => "midEntryClose" \in Faults
    /\ how = "reconcile" => ~Paper
    /\ row' = [row EXCEPT ![i] = "closed"]
    /\ owed' = [owed EXCEPT ![i] = how]
    /\ UNCHANGED <<clock, recoveryReady, stage, snap, ledger, slot>>

OnSlotOf(S, i) == {j \in SameSymbol(S, i) : slot[j] = slot[i]}

\* Mutant: nobody listens to POSITION_CLOSED.
ReleaseSlotNoListener(i) ==
    /\ owed[i] = "executor"
    /\ owed' = [owed EXCEPT ![i] = "none"]
    /\ UNCHANGED <<clock, recoveryReady, stage, snap, ledger, slot, row>>

\* SlotReleaseListener on POSITION_CLOSED: all CONFIRMED on (symbol, slot).
ReleaseSlotForClosedPosition(i) ==
    /\ owed[i] = "executor"
    /\ owed' = [owed EXCEPT ![i] = "none"]
    /\ ledger' = LedgerAfter({j \in OnSlotOf(Intents, i) : ledger[j] = "confirmed"},
                             "released")
    /\ UNCHANGED <<clock, recoveryReady, stage, snap, slot, row>>

\* reconcileClose: one active reservation, PENDING or CONFIRMED, on
\* (symbol, slot); which one, when there are several, is left open.
ReconcileClose(i) ==
    /\ owed[i] = "reconcile"
    /\ owed' = [owed EXCEPT ![i] = "none"]
    /\ \/ /\ OnSlotOf(Active, i) = {}
          /\ UNCHANGED ledger
       \/ \E j \in OnSlotOf(Active, i) : ledger' = LedgerAfter({j}, "released")
    /\ UNCHANGED <<clock, recoveryReady, stage, snap, slot, row>>

-----------------------------------------------------------------------------
(***************************************************************************)
(* Clock, reconciliation pass, boot and restart.                           *)
(***************************************************************************)

Tick ==
    /\ clock < MaxClock
    /\ clock' = clock + 1
    /\ UNCHANGED <<recoveryReady, stage, snap, ledger, slot, row, owed>>

Stale == {i \in Intents : ledger[i] = "pending" /\ clock >= ExpiresAt(i)}

\* The first step of a reconciliation pass; there is no pass in PAPER mode.
ExpireStaleReservations ==
    /\ ~Paper
    /\ recoveryReady
    /\ Stale # {}
    /\ ledger' = LedgerAfter(Stale, "expired")
    /\ UNCHANGED <<clock, recoveryReady, stage, snap, slot, row, owed>>

MarkRecoveryComplete ==
    /\ ~recoveryReady
    /\ recoveryReady' = TRUE
    /\ UNCHANGED <<clock, stage, snap, ledger, slot, row, owed>>

\* All in-memory state is lost, the positions table survives.  An event is
\* not redelivered, so an intent that was under way is over.
Restart ==
    /\ "restart" \in Faults
    /\ recoveryReady
    /\ recoveryReady' = FALSE
    /\ stage' = [i \in Intents |->
         IF stage[i] \in {"undetected", "rejected"} THEN stage[i] ELSE "settled"]
    /\ snap' = [i \in Intents |-> {}]
    /\ ledger' = [i \in Intents |-> "absent"]
    /\ owed' = [i \in Intents |-> "none"]
    /\ UNCHANGED <<clock, slot, row>>

IntentStep(i) ==
    \/ Detect(i)
    \/ Load(i)
    \/ Reject(i)
    \/ Approve(i)
    \/ EmitApproval(i)
    \/ DropApproval(i)
    \/ SubmitNoFill(i)
    \/ SubmitFill(i)
    \/ AcceptFill(i)
    \/ AbandonFill(i)
    \/ \E how \in {"executor", "reconcile"} : CloseRow(i, how)
    \/ ReleaseSlotForClosedPosition(i)
    \/ ReconcileClose(i)

SystemStep == Tick \/ ExpireStaleReservations \/ MarkRecoveryComplete \/ Restart

Next == (\E i \in Intents : IntentStep(i)) \/ SystemStep

Spec == Init /\ [][Next]_vars

\* Handlers that have started run to an end (every network call has a
\* timeout), event emission is synchronous, and the pass is scheduled.  Nothing
\* forces a position to close or the market to produce events.
Fairness ==
    /\ WF_vars(Tick)
    /\ WF_vars(ExpireStaleReservations)
    /\ WF_vars(MarkRecoveryComplete)
    /\ \A i \in Intents :
         /\ WF_vars(EmitApproval(i) \/ DropApproval(i))
         /\ WF_vars(SubmitNoFill(i) \/ SubmitFill(i))
         /\ WF_vars(AcceptFill(i) \/ AbandonFill(i))
         /\ WF_vars(ReleaseSlotForClosedPosition(i))
         /\ WF_vars(ReconcileClose(i))

FairSpec == Spec /\ Fairness
-----------------------------------------------------------------------------
(***************************************************************************)
(* Properties                                                              *)
(***************************************************************************)

\* Two reservations that count never share slot A or B; slot C holds at most
\* one idiosyncratic and one correlated reservation.  Concurrent evaluate()
\* calls decide on stale position snapshots, so this rests on the ledger alone.
ReservationsExclusive ==
    \A i, j \in Active :
        i # j /\ slot[i] = slot[j] => slot[i] = "C" /\ ModeOf[i] # ModeOf[j]

\* What approved intents have reserved together never exceeds the per-coin and
\* the same-direction cap, however many were evaluated at the same time.
ReservedExposureCapped ==
    \A i \in Active :
        /\ Notional(SameSymbol(Active, i)) <= MaxPerCoin
        /\ Notional(SameSide(Active, i)) <= MaxSameDirection

\* At most max_trades_per_bar_universe entries hold a reservation of one candle,
\* although siblings of a candle all carry the same createdAtMs.
BarCapHeld ==
    \A i \in Active :
        Cardinality({j \in Active : BarOf[j] = BarOf[i]}) <= MaxPerBar

\* Slot C carries reservations of both correlation modes for i's symbol.
SharesC(i) ==
    \E j \in SameSymbol(Intents, i) :
        ModeOf[j] # ModeOf[i] /\ slot[i] = "C" /\ slot[j] = "C"

\* A CONFIRMED reservation, which no TTL ever frees, always belongs to a live
\* row or to a close that is about to release it: no slot leaks until restart.
\* The exception is a slot C shared by two modes of one symbol: reconcileClose
\* looks a reservation up by (symbol, slot) and may release the other one.
ConfirmedHasOwner ==
    \A i \in Intents :
        ledger[i] = "confirmed" =>
            row[i] = "live" \/ owed[i] # "none" \/ SharesC(i)

\* Slots A and B never carry two live position rows
\* (ReconciliationService.reportSlotCountViolations: "a real bug").
OneRowPerSlot ==
    \A i, j \in Intents :
        /\ row[i] = "live" /\ row[j] = "live" /\ i # j
        /\ slot[i] = slot[j]
        => slot[i] = "C"

\* No reservation stays PENDING for ever: the executor settles it, or the TTL
\* sweep bounds a hold whose approval was lost.
PendingSettles ==
    \A i \in Intents : ledger[i] = "pending" ~> ledger[i] # "pending"

\* A closed position gives its slot back: its reservation stops counting, by
\* the POSITION_CLOSED listener, reconcileClose, the entry path or the sweep.
ClosedRowFreesSlot ==
    \A i \in Intents :
        row[i] = "closed" ~> (row[i] # "closed" \/ i \notin Active)
-----------------------------------------------------------------------------
\* The gate, the ledger and the executor together implement the slot pool: the
\* holders of a slot are the reservations that count and name it.
Holders == [p \in Slots |-> {i \in Active : slot[i] = p}]
Pool == INSTANCE SlotPool WITH Claims <- Intents, holders <- Holders

\* Every behaviour of the gate is a behaviour of the slot pool.
ImplementsSlotPool == Pool!PoolSpec
=============================================================================
