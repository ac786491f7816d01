------------------------------- MODULE Replay -------------------------------
(***************************************************************************)
(* The backtest replay and the walk-forward comparison built on it.  The   *)
(* comparison records one tape of trigger events over the whole range,     *)
(* then replays a slice of it for each fold window: the runner takes the   *)
(* symbols one after the other, walks every bar of the window for each,    *)
(* settles funding, checks exits, and offers the bar's taped event to the  *)
(* strategy, the risk gate and the fill simulator, all on one shared book. *)
(* At the end survivors are force-closed and trades are joined to events.  *)
(* Time is counted in five-minute bars: bar t spans t to t + 1, and a fill *)
(* lands at the next bar's open.                                           *)
(***************************************************************************)
EXTENDS Naturals, Sequences, FiniteSets, SequencesExt

CONSTANTS Symbols,       \* in the order the universe query returns them (a sequence)
          RangeBars,         \* bars in the compared range
          TrainBars, ValidationBars, OosBars, StepBars,   \* the split policy
          Hold,          \* bars until the time stop
          Slots,         \* position slots of the gate
          Fundings,      \* times at which funding settles
          None

VARIABLES tape,      \* recorded events <<symbol, bar>>, in the order they were pushed
          cell,      \* the window being replayed, None before and after
          cursor,    \* the next <<symbol index, bar>>, None until the tape is recorded
          funded,    \* funding events the symbol's cursor has passed
          book,      \* open positions
          reserved,  \* slots confirmed in the reservation ledger, by position id
          trades, outcomes, counters,
          opened,    \* ghost: events filled in this cell
          peeked     \* ghost: the gate was shown something dated after the event

vars == <<tape, cell, cursor, funded, book, reserved, trades, outcomes, counters, opened, peeked>>

ConstantsOK ==
    /\ {RangeBars, TrainBars, ValidationBars, OosBars, StepBars, Hold, Slots} \subseteq Nat \ {0}
    /\ Fundings \subseteq Nat /\ None \notin Nat \X Nat
    /\ Symbols \in Seq(Range(Symbols)) /\ IsInjective(Symbols)

-----------------------------------------------------------------------------
(* Walk-forward planning.                                                  *)

Windows == {"train", "validation", "oos"}

BuildFold(k, mode) ==
    LET trainFrom == IF mode = "expanding" THEN 0 ELSE k * StepBars
        trainTo   == IF mode = "expanding" THEN TrainBars + k * StepBars ELSE trainFrom + TrainBars
        valTo     == trainTo + ValidationBars IN
    [train |-> <<trainFrom, trainTo>>, validation |-> <<trainTo, valTo>>, oos |-> <<valTo, valTo + OosBars>>]

Plan(mode) == {f \in {BuildFold(k, mode) : k \in 0..RangeBars} : f.oos[2] <= RangeBars}

Cells == {f[w] : f \in UNION {Plan(mode) : mode \in {"expanding", "rolling"}}, w \in Windows}

NoCounters == [skipped |-> 0, rejected |-> 0, missed |-> 0]

Init ==
    /\ tape = <<>> /\ cell = None /\ cursor = None /\ funded = {} /\ book = {} /\ reserved = {}
    /\ trades = {} /\ outcomes = {} /\ counters = NoCounters /\ opened = {} /\ peeked = FALSE

-----------------------------------------------------------------------------
(* The tape and a cell's fresh run state.                                  *)

\* An event is known by its symbol and trigger bar; the indicators, book and flow inputs
\* it is built from are left out, and any set of bars may trigger.
Event(s, t) == <<s, t>>
TriggerBars(c) == SUBSET (c[1]..(c[2] - 1))

\* The record pass walks symbol by symbol, so events are pushed in that order.
RecordEventTape(bars, c) ==
    LET events(i) == SetToSortSeq({Event(Symbols[i], t) : t \in bars[i]}, LAMBDA e, f : e[2] < f[2]) IN
    /\ cursor = None
    /\ tape' = FlattenSeq([i \in DOMAIN Symbols |-> events(i)])
    /\ cell' = c /\ cursor' = <<1, c[1]>>
    /\ UNCHANGED <<funded, book, reserved, trades, outcomes, counters, opened, peeked>>

Sliced == SelectSeq(tape, LAMBDA e : e[2] >= cell[1] /\ e[2] < cell[2])

Taped(s, t) == \E i \in DOMAIN Sliced : Sliced[i] = Event(s, t)

-----------------------------------------------------------------------------
(* One bar of one symbol.                                                  *)

Symbol == Symbols[cursor[1]]
OpenOf(s, positions) == {p \in positions : p.sym = s}

\* Events up to the bar's end that the cursor has not passed yet.
DueMutant(t) == {ts \in Fundings : ts >= cell[1] /\ ts < cell[2] /\ ts <= t + 1}
Due(t) == {ts \in Fundings : ts >= cell[1] /\ ts < cell[2] /\ ts <= t + 1} \ funded

ApplyFunding(t, positions) ==
    {IF p.sym = Symbol
     THEN [p EXCEPT !.funding = @ \o SetToSeq({ts \in Due(t) : ts >= p.opened})] ELSE p : p \in positions}

\* A time stop closes at the bar's open, a hit level one bar after it was hit.
Exit(p, t, hit) ==
    IF t >= p.stopAt THEN [reason |-> "time_stop", at |-> t]
    ELSE IF hit THEN [reason |-> "level", at |-> t + 1]
    ELSE [reason |-> "none", at |-> 0]

\* The row carries the closing fill's id: the position's id and a suffix.
JoinKey(p, suffix) == <<p.sym, p.bar, p.opened, suffix>>

Trade(p, x, suffix) ==
    [eventId |-> JoinKey(p, suffix), sym |-> p.sym, bar |-> p.bar, opened |-> p.opened,
     closed |-> x.at, funding |-> p.funding]

Exits(s, t, hit, positions) == {p \in OpenOf(s, positions) : Exit(p, t, hit).reason # "none"}

ClosedTrades(exits, t, hit) == {Trade(p, Exit(p, t, hit), "close") : p \in exits}

ReleasedMutant(ids, p) == ids
Released(ids, p) == ids \ {<<p.sym, p.bar>>}
ReleasedAll(ids, positions) == FoldSet(LAMBDA p, left : Released(left, p), ids, positions)

\* What the gate reads besides slots: positions and closes of the whole run.
FutureAt(now, positions, done) ==
    \/ \E p \in positions : p.opened > now
    \/ \E tr \in done : tr.closed > now

\* One position per symbol, and an entry price only if the window has a next bar.
Intended(s, t, positions) == OpenOf(s, positions) = {} /\ t + 1 < cell[2]

SlotFree(ids) == Cardinality(ids) < Slots

\* The event's fate: no signal or no intent, refused by the gate, not filled, filled.
Offer(s, t, fate, positions, ids) ==
    /\ fate = "none" <=> ~Taped(s, t)
    /\ ~Intended(s, t, positions) => fate \in {"none", "skipped"}
    /\ fate \in {"missed", "filled"} => SlotFree(ids)

Counted(fate) == IF fate \in DOMAIN counters THEN [counters EXCEPT ![fate] = @ + 1] ELSE counters

Opened(s, t) == [sym |-> s, bar |-> t, opened |-> t + 1, stopAt |-> t + 1 + Hold, funding |-> <<>>]

Advance(t) ==
    IF t + 1 < cell[2] THEN cursor' = <<cursor[1], t + 1>> /\ funded' = funded \cup Due(t)
    ELSE cursor' = <<cursor[1] + 1, cell[1]>> /\ funded' = {}

ProcessBar(hit, fate) ==
    LET s == Symbol
        t == cursor[2]
        paid == ApplyFunding(t, book)
        exits == Exits(s, t, hit, paid)
        kept == paid \ exits
        freed == ReleasedAll(reserved, exits)
        done == trades \cup ClosedTrades(exits, t, hit) IN
    /\ cell # None /\ cursor[1] <= Len(Symbols)
    /\ hit => OpenOf(s, book) # {}
    /\ Offer(s, t, fate, kept, freed)
    /\ trades' = done
    /\ book' = IF fate = "filled" THEN kept \cup {Opened(s, t)} ELSE kept
    /\ reserved' = IF fate = "filled" THEN freed \cup {<<s, t>>} ELSE freed
    /\ opened' = IF fate = "filled" THEN opened \cup {<<s, t>>} ELSE opened
    /\ counters' = Counted(fate)
    /\ peeked' = (peeked \/ (fate \in {"rejected", "missed", "filled"} /\ FutureAt(t + 1, kept, done)))
    /\ Advance(t)
    /\ UNCHANGED <<tape, cell, outcomes>>

-----------------------------------------------------------------------------
(* The end of the cell.                                                    *)

SurvivorsMutant == {p \in book : p.sym = Last(Symbols)}
Survivors == book

ForceCloseOpenPositions ==
    trades \cup {Trade(p, [reason |-> "force_close", at |-> cell[2]], "force-close") : p \in Survivors}

\* A taped event is 'open' when some trade carries its id, otherwise 'skip'.
OutcomeOf(e, done) == IF \E tr \in done : tr.eventId = e THEN "open" ELSE "skip"

ApplyOutcomes(done) == {[event |-> Sliced[i], action |-> OutcomeOf(Sliced[i], done)] : i \in DOMAIN Sliced}

FinishCell ==
    /\ cell # None /\ cursor[1] > Len(Symbols)
    /\ trades' = ForceCloseOpenPositions /\ outcomes' = ApplyOutcomes(ForceCloseOpenPositions)
    /\ book' = book \ Survivors
    /\ reserved' = ReleasedAll(reserved, Survivors)
    /\ cell' = None
    /\ UNCHANGED <<tape, cursor, funded, counters, opened, peeked>>

Next ==
    \/ \E c \in Cells : \E bars \in [DOMAIN Symbols -> TriggerBars(c)] : RecordEventTape(bars, c)
    \/ \E hit \in BOOLEAN, fate \in {"none", "skipped", "rejected", "missed", "filled"} : ProcessBar(hit, fate)
    \/ FinishCell

Spec == Init /\ [][Next]_vars

-----------------------------------------------------------------------------
(* Properties.                                                             *)

\* The slots the gate counts are the positions on the book, after every bar and every
\* forced close: a slot kept after its close would starve the rest of the run.
SlotsMatchBook == reserved = {<<p.sym, p.bar>> : p \in book} /\ Cardinality(reserved) <= Slots

\* A finished cell leaves no position behind, and every fill of the cell became exactly
\* one trade.
FlatAtTheEnd ==
    cursor # None /\ cell = None =>
        /\ book = {} /\ {<<tr.sym, tr.bar>> : tr \in trades} = opened
        /\ Cardinality(trades) = Cardinality(opened)

\* A funding event is settled at most once per position and never for one opened after it
\* (applyFundingForBar's cursor survives from bar to bar of a symbol).
FundingOnce ==
    \A p \in book \cup trades :
        IsInjective(p.funding) /\ \A i \in DOMAIN p.funding : p.funding[i] >= p.opened

\* Claimed at applyOutcomesFromReport: an event the version traded is recorded 'open'.
TradedIsOpen == \A o \in outcomes : o.event \in opened => o.action = "open"

\* Claimed at assembleReport: outcomes come in tape, that is chronological, order.
TapeChronological == \A i, j \in DOMAIN tape : i < j => tape[i][2] <= tape[j][2]

\* Claimed by the replay's causality contract: a decision sees nothing of its future.
GateSeesThePast == ~peeked

\* Claimed at FundingReplayLoader: funding runs up to the close, exclusively.
FundingHalfOpen == \A tr \in trades : \A i \in DOMAIN tr.funding : tr.funding[i] < tr.closed
=============================================================================
