---------------------------- MODULE Instrumentor ----------------------------
(***************************************************************************)
(* The excursion statistics of one position: an accumulator in memory fed  *)
(* by price ticks, flushed to the row on an interval and at the close, and *)
(* seeded again from the row by the opened event, by a recovery from       *)
(* reconciling, and at boot.  A handler reads the row, awaits, and writes  *)
(* what the accumulator object it holds says by then; the object it holds  *)
(* may since have been dropped or replaced.                                *)
(*                                                                         *)
(* The best favourable excursion stands for all the running extremes.      *)
(***************************************************************************)
EXTENDS Naturals

CONSTANTS
    Peak,           \* excursions are 0..Peak
    MaxObjects,     \* accumulators created in all
    MaxCrashes,
    None            \* a null column, an absent accumulator

ConstantsOK == {Peak, MaxObjects, MaxCrashes} \subseteq Nat

VARIABLES
    row,            \* state of the position row
    column,         \* persisted mfe_pct
    obj,            \* accumulator objects created so far: value and dirty flag
    tracked,        \* index of the object in the states map, or None
    seeding,        \* a seedFromRow that has not read the row yet
    flush, close,   \* the periodic flush and the close handler: step and object held
    ready,          \* recovery complete: the interval may flush
    best,           \* ghost: best excursion of the ticks taken while tracked
    gaps,           \* ghost: ways samples were forgotten
    crashes

vars == <<row, column, obj, tracked, seeding, flush, close, ready, best, gaps, crashes>>

Excursions == 0..Peak
Columns == Excursions \cup {None}
Objects == 1..MaxObjects
NoHandler == [at |-> "idle", o |-> None]
Handlers == [at : {"idle", "reading", "saving"}, o : Objects \cup {None}]
GapKinds == {"reseeded", "dropped", "crashed", "stale"}

TypeOK ==
    /\ row \in {"none", "pending_open", "open", "reconciling", "closed"}
    /\ column \in Columns
    /\ obj \in [1..MaxObjects -> [mfe : Columns, dirty : BOOLEAN, made : BOOLEAN]]
    /\ tracked \in Objects \cup {None}
    /\ seeding \in BOOLEAN /\ ready \in BOOLEAN
    /\ flush \in Handlers /\ close \in Handlers
    /\ best \in Columns /\ gaps \subseteq GapKinds /\ crashes \in 0..MaxCrashes

Init ==
    /\ row = "none" /\ column = None /\ tracked = None
    /\ obj = [o \in Objects |-> [mfe |-> None, dirty |-> FALSE, made |-> FALSE]]
    /\ seeding = FALSE /\ ready = TRUE /\ flush = NoHandler /\ close = NoHandler
    /\ best = None /\ gaps = {} /\ crashes = 0

\* updateMfePct: the running maximum, from zero.
UpdateMfePct(prior, excursion) ==
    LET ceiling == IF prior = None THEN 0 ELSE prior
    IN  IF excursion > ceiling THEN excursion ELSE ceiling

Unused == {o \in Objects : ~obj[o].made /\ \A p \in 1..(o - 1) : obj[p].made}

\* onPositionOpened: a fresh object with the persisted values replaces any other.
Seeded(o) == [obj EXCEPT ![o] = [mfe |-> column, dirty |-> FALSE, made |-> TRUE]]

Forgets == tracked # None /\ obj[tracked].mfe # column

-----------------------------------------------------------------------------
(* The open path: row, accumulator and entry tick before the next await.   *)
OpenPosition ==
    /\ row = "none" /\ ready /\ row' = "pending_open"
    /\ \E o \in Unused :
          /\ obj' = [obj EXCEPT ![o] = [mfe |-> UpdateMfePct(None, 0), dirty |-> TRUE, made |-> TRUE]]
          /\ tracked' = o
    /\ best' = 0
    /\ UNCHANGED <<column, seeding, flush, close, ready, gaps, crashes>>

\* transition(OPEN), then position.opened, whose handler reads the row later.
\* The open path does not survive a crash.
PositionOpened ==
    /\ row = "pending_open" /\ crashes = 0 /\ row' = "open" /\ seeding' = TRUE
    /\ UNCHANGED <<column, obj, tracked, flush, close, ready, best, gaps, crashes>>

SeedFromRowMutant ==
    /\ seeding /\ seeding' = FALSE
    /\ \E o \in Unused : obj' = [Seeded(o) EXCEPT ![o].mfe = None] /\ tracked' = o
    /\ gaps' = gaps \cup (IF Forgets THEN {"reseeded"} ELSE {})
    /\ UNCHANGED <<row, column, flush, close, ready, best, crashes>>

SeedFromRow ==
    /\ seeding /\ seeding' = FALSE
    /\ \E o \in Unused : obj' = Seeded(o) /\ tracked' = o
    /\ gaps' = gaps \cup (IF Forgets THEN {"reseeded"} ELSE {})
    /\ UNCHANGED <<row, column, flush, close, ready, best, crashes>>

OnPriceUpdate(x) ==
    /\ tracked # None
    /\ LET next == UpdateMfePct(obj[tracked].mfe, x)
       IN  obj' = [obj EXCEPT ![tracked].mfe = next,
                              ![tracked].dirty = @ \/ next # obj[tracked].mfe]
    /\ best' = IF row = "closed" THEN best ELSE UpdateMfePct(best, x)
    /\ UNCHANGED <<row, column, tracked, seeding, flush, close, ready, gaps, crashes>>

\* The periodic flush: find the row, then save it with what the object says,
\* then mark the object clean, whatever came in during the save.
FlushStarts ==
    /\ ready /\ flush = NoHandler
    /\ tracked # None /\ obj[tracked].dirty
    /\ flush' = [at |-> "reading", o |-> tracked]
    /\ UNCHANGED <<row, column, obj, tracked, seeding, close, ready, best, gaps, crashes>>

FlushSaves ==
    /\ flush.at = "reading" /\ flush' = [flush EXCEPT !.at = "saving"]
    /\ column' = obj[flush.o].mfe
    /\ gaps' = gaps \cup (IF flush.o # tracked THEN {"stale"} ELSE {})
    /\ UNCHANGED <<row, obj, tracked, seeding, close, ready, best, crashes>>

FlushEnds ==
    /\ flush.at = "saving" /\ flush' = NoHandler
    /\ obj' = [obj EXCEPT ![flush.o].dirty = FALSE]
    /\ UNCHANGED <<row, column, tracked, seeding, close, ready, best, gaps, crashes>>

\* A throw leaves the object dirty for the next interval.
FlushFails ==
    /\ flush.at # "idle" /\ flush' = NoHandler
    /\ UNCHANGED <<row, column, obj, tracked, seeding, close, ready, best, gaps, crashes>>

-----------------------------------------------------------------------------
(* Lifecycle events.                                                       *)

EnterReconciling ==
    /\ ready /\ row = "open" /\ row' = "reconciling" /\ tracked' = None
    /\ gaps' = gaps \cup (IF Forgets THEN {"dropped"} ELSE {})
    /\ UNCHANGED <<column, obj, seeding, flush, close, ready, best, crashes>>

ReconcileRecovers ==
    /\ ready /\ row = "reconciling" /\ row' = "open" /\ seeding' = TRUE
    /\ UNCHANGED <<column, obj, tracked, flush, close, ready, best, gaps, crashes>>

\* The CLOSED transition starts the close handler, if the position is tracked.
Closes ==
    /\ ready /\ row \in {"pending_open", "open"} /\ row' = "closed"
    /\ close' = IF tracked = None THEN NoHandler ELSE [at |-> "reading", o |-> tracked]
    /\ UNCHANGED <<column, obj, tracked, seeding, flush, ready, best, gaps, crashes>>

CloseSavesMutant ==
    /\ close.at = "reading" /\ close' = [close EXCEPT !.at = "saving"]
    /\ column' = IF obj[close.o].dirty THEN obj[close.o].mfe ELSE column
    /\ UNCHANGED <<row, obj, tracked, seeding, flush, ready, best, gaps, crashes>>

CloseSaves ==
    /\ close.at = "reading" /\ close' = [close EXCEPT !.at = "saving"]
    /\ column' = obj[close.o].mfe
    /\ UNCHANGED <<row, obj, tracked, seeding, flush, ready, best, gaps, crashes>>

\* dropPosition, by id: whatever object is in the map goes.
CloseEnds ==
    /\ close.at = "saving" /\ close' = NoHandler /\ tracked' = None
    /\ UNCHANGED <<row, column, obj, seeding, flush, ready, best, gaps, crashes>>

Crash ==
    /\ crashes < MaxCrashes /\ crashes' = crashes + 1
    /\ tracked' = None /\ seeding' = FALSE /\ flush' = NoHandler /\ close' = NoHandler /\ ready' = FALSE
    /\ gaps' = gaps \cup (IF Forgets THEN {"crashed"} ELSE {})
    /\ UNCHANGED <<row, column, obj, best>>

\* Phase 4d seeds every row but the drifted ones; phase 9 lets the interval run.
Phase4dSeedInstrumentor ==
    /\ ~ready /\ ready' = TRUE
    /\ IF row \in {"pending_open", "open"}
       THEN \E o \in Unused : obj' = Seeded(o) /\ tracked' = o
       ELSE UNCHANGED <<obj, tracked>>
    /\ UNCHANGED <<row, column, seeding, flush, close, best, gaps, crashes>>

Next ==
    \/ OpenPosition \/ PositionOpened \/ SeedFromRow
    \/ \E x \in Excursions : OnPriceUpdate(x)
    \/ FlushStarts \/ FlushSaves \/ FlushEnds \/ FlushFails
    \/ EnterReconciling \/ ReconcileRecovers \/ Closes \/ CloseSaves \/ CloseEnds
    \/ Crash \/ Phase4dSeedInstrumentor

Spec == Init /\ [][Next]_vars

-----------------------------------------------------------------------------
(* Properties.                                                             *)

\* ExecutionService: a price update between the insert and the opened event "is
\* captured, not silently dropped".  What the accumulator holds never falls
\* below the best tick it was given.
EntryTicksKept == tracked # None /\ crashes = 0 /\ row \in {"pending_open", "open"} => obj[tracked].mfe = best

\* Unless a seed, a drop or a crash threw samples away, or a flush wrote from an
\* accumulator that was no longer the position's, the row of a closed
\* position says at least the best excursion seen before the close, however ticks,
\* flushes and the close handler interleave.
CloseFlushComplete ==
    row = "closed" /\ tracked = None /\ flush = NoHandler /\ gaps = {} => column # None /\ column >= best

\* A crash forgets only what was not flushed: where it is the only loss, the
\* accumulator seeded at boot never starts below the row.
SeedKeepsColumn ==
    tracked # None /\ row # "closed" /\ flush = NoHandler /\ column # None /\ gaps \subseteq {"crashed"}
        => obj[tracked].mfe # None /\ obj[tracked].mfe >= column
=============================================================================
