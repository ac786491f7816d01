-------------------------------- MODULE Shadow --------------------------------
(***************************************************************************)
(* One shadow version on one symbol: its virtual ledger (memory only), its *)
(* shadow_decisions rows, and the passes over the event tape that feed     *)
(* both.  A pass drains the deferred exit walk, loads the signal bar's     *)
(* ticks, evaluates and gates, writes the row, and only then opens and     *)
(* closes in the ledger; each of these is an await, and the passes of two  *)
(* events interleave there.  A restart rebuilds the ledger from the rows.  *)
(*                                                                         *)
(* Events are numbered in event-id order, one per bar; event 0 is a row of *)
(* an older release whose fill was never resolved.                         *)
(***************************************************************************)
EXTENDS Integers, FiniteSets, FiniteSetsExt

CONSTANTS
    MaxEvent,
    PerDay,         \* events of one risk day
    StaleAge,
    MaxTrades,      \* SHADOW_GATE_MAX_TRADES_PER_DAY
    HaltAfter,      \* the effective consecutive-loss halt threshold
    Workers,        \* passes that may be in flight at once
    MaxCrashes,
    None

ConstantsOK ==
    /\ {MaxEvent, PerDay, StaleAge, MaxTrades, HaltAfter, MaxCrashes} \subseteq Nat /\ PerDay > 0 /\ MaxTrades > 0
    /\ IsFiniteSet(Workers) /\ Workers # {}
    /\ None \notin Int \cup {"stop_loss", "take_profit", "force_close", "skip", "unresolved"}

VARIABLES
    sameBar,        \* the exit the signal bar's ticks give each event's fill
    rows,           \* shadow_decisions: the exit in simulated_fill, "skip" or None
    trades,         \* ledger: the exit each closed trade was booked with, or None
    held,           \* ledger: the event of the open virtual position, or None
    processed,      \* ledger: processedEventIds
    halted,         \* ledger: the risk day the halt lasts to, or -1
    pending,        \* pendingDeferredWalks of the symbol
    pass,           \* each worker's pass
    fed,            \* events delivered by this process
    last,           \* the newest event so far
    overlapped, upgraded,   \* ghosts: two passes overlapped; rows an exit walk rewrote
    wasHalted,      \* ghost: `halted` when the last process died
    crashes

vars == <<sameBar, rows, trades, held, processed, halted, pending, pass, fed, last,
          overlapped, upgraded, wasHalted, crashes>>

Events == 1..MaxEvent
Recorded == 0..MaxEvent
Exits == {"stop_loss", "take_profit", "force_close"}
NoEvent == Recorded \cup {None}
Idle == [at |-> "idle", e |-> None, walk |-> None, open |-> FALSE]

DayOf(e) == IF e = 0 THEN 0 ELSE (e - 1) \div PerDay

TypeOK ==
    /\ sameBar \in [Events -> Exits]
    /\ rows \in [Recorded -> Exits \cup {"skip", "unresolved", None}]
    /\ trades \in [Recorded -> Exits \cup {None}]
    /\ {held, pending} \subseteq NoEvent /\ processed \subseteq Recorded /\ halted \in -1..MaxEvent
    /\ \A w \in Workers : pass[w].at \in {"idle", "walk", "update", "evidence", "persist", "open"}
    /\ fed \subseteq Events /\ last \in Recorded /\ crashes \in 0..MaxCrashes

-----------------------------------------------------------------------------
(* The ledger (VirtualPositionLedgerService), as functions of its state.   *)

OpenedOn(day, t) == {e \in Recorded : t[e] # None /\ DayOf(e) = day}

\* Exits of the day in closing order; a force_close neither counts nor resets.
LossStreak(day, t) ==
    LET counted == {e \in OpenedOn(day, t) : t[e] # "force_close"}
        wins == {e \in counted : t[e] = "take_profit"}
    IN Cardinality({e \in counted : \A w \in wins : w < e})

EvaluateGatesMutant(day, t, open, halt) == day > halt /\ open = None

EvaluateGates(day, t, open, halt) ==
    /\ day > halt
    /\ LossStreak(day, t) < HaltAfter
    /\ Cardinality(OpenedOn(day, t)) + Cardinality({e \in {open} \ {None} : DayOf(e) = day}) < MaxTrades
    /\ open = None

\* closeBySymbol: the trade is booked with its reason and outcome, and the slot is free.
Booked(t, e, exit) == [t EXCEPT ![e] = exit]

HaltAfterClose(day, t) == IF LossStreak(day, t) >= HaltAfter THEN day ELSE halted

-----------------------------------------------------------------------------
(* Boot: the rows are replayed in event-id order (rebuildLedger).          *)

Replayed(rs) == [e \in Recorded |-> IF rs[e] \in Exits THEN rs[e] ELSE None]

ReplayHaltMutant(t) == -1

\* The halt is armed at each replayed close, so the latest day that reached the threshold
\* at some prefix of the replay stays armed.
ReplayHalt(t) ==
    LET armed == {e \in Recorded : t[e] # None
                     /\ LossStreak(DayOf(e), [f \in Recorded |-> IF f <= e THEN t[f] ELSE None]) >= HaltAfter}
    IN IF armed = {} THEN -1 ELSE DayOf(Max(armed))

\* purgePhantomPositions: a position still open and older than SHADOW_STALE_POSITION_MAX_AGE_MS.
Stale(e) == e # None /\ last - e > StaleAge

SeedMutant(rs) == {e \in Recorded : rs[e] \in Exits}

\* seedProcessedEventIds: every recorded event, skipped ones too.
Seed(rs) == {e \in Recorded : rs[e] # None}

Boot(rs) ==
    LET t == Replayed(rs)
        open == IF rs[0] = "unresolved" THEN 0 ELSE None
    IN /\ trades' = [t EXCEPT ![0] = IF Stale(open) THEN "force_close" ELSE @]
       /\ held' = IF Stale(open) THEN None ELSE open
       /\ halted' = ReplayHalt(t) /\ processed' = Seed(rs)
       /\ pending' = None /\ pass' = [w \in Workers |-> Idle] /\ fed' = {}

Init ==
    /\ sameBar \in [Events -> Exits]
    /\ \E legacy \in {"unresolved", None} :
          /\ rows = [e \in Recorded |-> IF e = 0 THEN legacy ELSE None]
          /\ held = (IF legacy = None THEN None ELSE 0) /\ processed = {e \in {0} : legacy # None}
    /\ trades = [e \in Recorded |-> None] /\ halted = -1 /\ pending = None
    /\ pass = [w \in Workers |-> Idle] /\ fed = {} /\ last = 0
    /\ overlapped = FALSE /\ upgraded = {} /\ wasHalted = -1 /\ crashes = 0

Crash ==
    /\ crashes < MaxCrashes /\ crashes' = crashes + 1
    /\ Boot(rows) /\ wasHalted' = halted
    /\ UNCHANGED <<sameBar, rows, last, overlapped, upgraded>>

-----------------------------------------------------------------------------
(* A pass.                                                                 *)

ledger == <<trades, held, processed, halted>>

Busy == {w \in Workers : pass[w].at # "idle"}

\* The newest event, or after a restart one delivered before (its bar is older).
Deliverable(e) == e \notin fed /\ (e = last + 1 \/ (e <= last /\ crashes > 0))

WalkDue(e) == pending # None /\ pending < e

RunShadows(w, e) ==
    /\ pass[w] = Idle /\ Deliverable(e)
    /\ fed' = fed \cup {e} /\ last' = Max({last, e})
    /\ overlapped' = (overlapped \/ Busy # {})
    /\ pass' = [pass EXCEPT ![w] = [Idle EXCEPT !.at = IF WalkDue(e) THEN "walk" ELSE "evidence", !.e = e,
                                                !.walk = IF WalkDue(e) THEN pending ELSE None]]
    /\ UNCHANGED <<sameBar, rows, ledger, pending, upgraded, wasHalted, crashes>>

\* The next bar's ticks are there (its exit is found), or not, or the query fails.
WalkNextBarExit(w) ==
    /\ pass[w].at = "walk"
    /\ \E found \in BOOLEAN : pass' = [pass EXCEPT ![w].at = IF found THEN "update" ELSE "evidence"]
    /\ UNCHANGED <<sameBar, rows, ledger, pending, fed, last, overlapped, upgraded, wasHalted, crashes>>

WalkedRowMutant(w) == pass[w].e

\* updateSimulatedFill is keyed on the pending entry's event, whatever is pending by now.
WalkedRow(w) == pass[w].walk

UpdateSimulatedFill(w) ==
    LET e == WalkedRow(w) IN
    /\ pass[w].at = "update"
    /\ \/ /\ \E exit \in Exits \ {"force_close"} : rows' = [rows EXCEPT ![e] = IF @ = None THEN @ ELSE exit]
          /\ pending' = None /\ upgraded' = upgraded \cup {e}
       \/ UNCHANGED <<rows, pending, upgraded>>
    /\ pass' = [pass EXCEPT ![w].at = "evidence"]
    /\ UNCHANGED <<sameBar, ledger, fed, last, overlapped, wasHalted, crashes>>

\* The strategy's signal and the tick evidence are inputs: an OPEN with a next-bar entry and
\* sane geometry, or anything else.  An OPEN against the held side closes it first, with
\* whatever outcome the price gives; no row records that close.
RunOneShadow(w, signal, outcome) ==
    LET day == DayOf(pass[w].e)
        reverse == signal = "reverse" /\ held # None
        t == IF reverse THEN Booked(trades, held, outcome) ELSE trades
        open == IF reverse THEN None ELSE held
        halt == IF reverse THEN HaltAfterClose(day, t) ELSE halted
    IN
    /\ pass[w].at = "evidence"
    /\ trades' = t /\ held' = open /\ halted' = halt
    /\ pass' = [pass EXCEPT ![w].at = "persist", ![w].open = signal # "skip" /\ EvaluateGates(day, t, open, halt)]
    /\ UNCHANGED <<sameBar, rows, processed, pending, fed, last, overlapped, upgraded, wasHalted, crashes>>

\* insertShadowDecision: the first row of an event stays.
InsertOnce(row, new) == IF row # None THEN row ELSE new

\* A failed insert ends the pass.
PersistShadowDecision(w) ==
    LET e == pass[w].e IN
    /\ pass[w].at = "persist"
    /\ \/ /\ rows' = [rows EXCEPT ![e] = InsertOnce(@, IF pass[w].open THEN sameBar[e] ELSE "skip")]
          /\ pass' = [pass EXCEPT ![w].at = "open"]
       \/ /\ pass' = [pass EXCEPT ![w] = Idle] /\ UNCHANGED rows
    /\ UNCHANGED <<sameBar, ledger, pending, fed, last, overlapped, upgraded, wasHalted, crashes>>

Duplicate(e) == e \in processed

\* tryOpen, closeShadowInPass and the queueing of the deferred walk: no await between them.
TryOpen(w) ==
    LET e == pass[w].e
        opens == pass[w].open /\ ~Duplicate(e)
        t == Booked(trades, e, sameBar[e])
    IN
    /\ pass[w].at = "open" /\ pass' = [pass EXCEPT ![w] = Idle]
    /\ IF opens
       THEN /\ trades' = t /\ processed' = processed \cup {e} /\ halted' = HaltAfterClose(DayOf(e), t)
            /\ pending' = IF sameBar[e] = "force_close" THEN e ELSE None
       ELSE UNCHANGED <<trades, processed, halted, pending>>
    /\ UNCHANGED <<sameBar, rows, held, fed, last, overlapped, upgraded, wasHalted, crashes>>

Next ==
    \/ Crash
    \/ \E w \in Workers :
          \/ \E e \in Events : RunShadows(w, e)
          \/ WalkNextBarExit(w) \/ UpdateSimulatedFill(w)
          \/ \E signal \in {"skip", "same", "reverse"}, outcome \in Exits \ {"force_close"} : RunOneShadow(w, signal, outcome)
          \/ PersistShadowDecision(w) \/ TryOpen(w)

Spec == Init /\ [][Next]_vars

-----------------------------------------------------------------------------
(* Properties.                                                             *)

\* The row is written before the ledger opens, so no booked trade can be missing from the
\* rows a restart replays, however passes, failed inserts, redeliveries and crashes fall.
TradesHaveRows == \A e \in Events : trades[e] # None => rows[e] \in Exits

\* A walk only ever rewrites the exit of a row that had ended in force_close.
UpgradesOnlyForced == \A e \in upgraded : sameBar[e] = "force_close" /\ rows[e] # "force_close"

\* Passes gate before they write and open after: at most the passes in flight can push a
\* day past the trade cap.
CapOvershootBounded ==
    \A e \in Events : Cardinality(OpenedOn(DayOf(e), trades)) <= MaxTrades + Cardinality(Workers) - 1

\* A halted day is still halted after a restart, as long as no exit walk rewrote a row, no
\* two passes overlapped and no unresolved row of an older release was closed by a reversal.
HaltSurvivesRestart == crashes > 0 /\ rows[0] = None /\ ~overlapped /\ upgraded = {} => wasHalted <= halted

\* Claimed at SHADOW_GATE_MAX_TRADES_PER_DAY: the day's cap.
CapHeld == \A e \in Events : Cardinality(OpenedOn(DayOf(e), trades)) <= MaxTrades
=============================================================================
