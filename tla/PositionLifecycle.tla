------------------------- MODULE PositionLifecycle -------------------------
(***************************************************************************)
(* One position row from the moment its entry fill is written to CLOSED,   *)
(* and everyone who writes it: the entry handler, the close producers and  *)
(* the executor's reduce path behind them, the unknown-intent listener,    *)
(* the reconciliation pass and the stuck-position sweep.                   *)
(*                                                                         *)
(* Every handler awaits between reading the row and saving it, and a save  *)
(* writes the whole entity the handler holds.  An await is a step boundary *)
(* here, so a save may write what the row was several steps ago.           *)
(***************************************************************************)
EXTENDS Integers

CONSTANTS
    Closers,    \* the close producers of this instance
    Qty,        \* the entry fill, in lots
    Paper,      \* EXCHANGE_ENV = paper: the reconciliation pass is a no-op
    Entering,   \* TRUE: the entry handler has just inserted the row
    Faults      \* what may go wrong

CloserKinds == {"monitor", "timestop", "unwind", "momentum"}

\* "partial": a close fills in part and its intent ends unresolved;
\* "throws": a lookup or the gate throws in a close producer;
\* "external": the exchange closes the position itself (its stop, a
\* liquidation, a hand trade); "fetchFails": fetchPositions fails.
FaultKinds == {"partial", "throws", "external", "fetchFails"}

ASSUME CloserAssumption == Closers \subseteq CloserKinds
ASSUME QtyAssumption == Qty \in Nat \ {0}
ASSUME ModeAssumption == Paper \in BOOLEAN /\ Entering \in BOOLEAN /\ Faults \subseteq FaultKinds

VARIABLES
    row,        \* the positions row: [state, qty]
    exch,       \* what the exchange still holds of it
    booked,     \* what the reduce and close transactions add up to
    slot,       \* SharedCloseCoordinator.inFlight has the position
    armed,      \* LocalProtectiveMonitor.armed has it
    indexed,    \* PositionTimeStopEnforcer.deadlineIndex has it
    closing,    \* ExecutionService.closingInFlight has it
    pc,         \* [Procs -> where the handler is]
    ent,        \* [Procs -> the entity it holds]
    order,      \* [Closers -> the close it submitted: [want, fill, clean]]
    seen        \* what the reconciliation pass saw: the exchange's quantity and
                \* the state of the row it loaded

memory == <<slot, armed, indexed, closing>>
vars == <<row, exch, booked, memory, pc, ent, order, seen>>

\* onOrderIntentUnknown runs once per event, beside the handler that emitted it.
UnknownOf == [monitor |-> "unknownMonitor", timestop |-> "unknownTimestop",
              unwind |-> "unknownUnwind", momentum |-> "unknownMomentum"]
Unknowns == {UnknownOf[c] : c \in Closers}
Procs == Closers \cup Unknowns \cup {"entry", "recon", "sweep"}

States == {"pending_open", "open", "closing", "reconciling", "closed"}
Rows == [state : States, qty : 0..Qty]
Orders == [want : 0..Qty, fill : 0..Qty, clean : BOOLEAN]

CloserPcs == {"idle", "held", "submitting", "applying", "promoting", "promoted", "zeroing",
              "zeroed", "closingSave", "inClosing", "closedSave", "reducing", "reduced",
              "terminal"}
UnknownPcs == {"idle", "pending", "checked", "reconcilingSave"}
EntryPcs == {"idle", "created", "attaching", "attached", "openSave", "indexing"}
ReconPcs == {"idle", "snapped", "missing", "leadSave", "finalize", "closedSave", "mismatch",
             "qtySave", "unknownIntent", "openSave"}
SweepPcs == {"idle", "orphan", "leadSave", "parked", "closedSave"}

NoEntity == [state |-> "closed", qty |-> 0]
NoOrder == [want |-> 0, fill |-> 0, clean |-> FALSE]

TypeOK ==
    /\ row \in Rows
    /\ exch \in 0..Qty
    /\ booked \in 0..Qty
    /\ slot \in BOOLEAN /\ armed \in BOOLEAN /\ indexed \in BOOLEAN /\ closing \in BOOLEAN
    /\ pc \in [Procs -> CloserPcs \cup UnknownPcs \cup EntryPcs \cup ReconPcs \cup SweepPcs]
    /\ ent \in [Procs -> Rows]
    /\ order \in [Closers -> Orders]
    /\ seen \in Rows

\* The row as createPositionFromFill left it, or as the settled entry left it:
\* local fallback keeps the monitor armed, exchange-side protection disarmed it.
\* A pass may have taken its exchange snapshot before the entry filled.
Init ==
    /\ row = [state |-> IF Entering THEN "pending_open" ELSE "open", qty |-> Qty]
    /\ exch = Qty
    /\ booked = 0
    /\ slot = FALSE /\ closing = FALSE
    /\ IF Entering THEN armed = FALSE ELSE armed \in {TRUE, Paper}
    /\ indexed = ~Entering
    /\ \E pass \in IF Entering /\ ~Paper THEN {"idle", "snapped"} ELSE {"idle"} :
         pc = [p \in Procs |-> CASE p = "entry" /\ Entering -> "created"
                                [] p = "recon" -> pass
                                [] OTHER -> "idle"]
    /\ ent = [p \in Procs |-> IF p = "entry" /\ Entering
                                THEN [state |-> "pending_open", qty |-> Qty] ELSE NoEntity]
    /\ order = [c \in Closers |-> NoOrder]
    /\ seen = NoEntity

-----------------------------------------------------------------------------
(***************************************************************************)
(* PositionService.transition: read, check the graph, save, emit.          *)
(***************************************************************************)

LegalTransition(from, to) ==
    \/ from = "pending_open" /\ to \in {"open", "reconciling"}
    \/ from = "open"         /\ to \in {"closing", "reconciling"}
    \/ from = "closing"      /\ to \in {"open", "closed", "reconciling"}
    \/ from = "reconciling"  /\ to \in {"open", "closed"}

At(p, here) == p \in Procs /\ pc[p] = here

\* Handler p moves on, holding entity e.
Goto(p, there, e) ==
    /\ pc' = [pc EXCEPT ![p] = there]
    /\ ent' = [ent EXCEPT ![p] = e]

\* findById and the legality check.  An illegal move throws.
TransitionRead(p, to, there, thrown) ==
    /\ IF LegalTransition(row.state, to)
         THEN Goto(p, there, [row EXCEPT !.state = to])
         ELSE Goto(p, thrown, NoEntity)
    /\ UNCHANGED <<row, exch, booked, memory, order, seen>>

\* The state listeners: CLOSED frees the close slot and disarms the monitor,
\* CLOSED and CLOSING leave the deadline index.
OnTransition(to) ==
    /\ slot' = (slot /\ to # "closed")
    /\ armed' = (armed /\ to # "closed")
    /\ indexed' = (indexed /\ to \notin {"closing", "closed"})

TransitionSave(p, there) ==
    /\ row' = ent[p]
    /\ OnTransition(ent[p].state)
    /\ Goto(p, there, IF there = "zeroing" THEN ent[p] ELSE NoEntity)
    /\ UNCHANGED <<exch, booked, closing, order, seen>>

-----------------------------------------------------------------------------
(***************************************************************************)
(* The entry handler, from createPositionFromFill on.                      *)
(***************************************************************************)

\* The fill is acceptable: arm before any await.
AcceptFill ==
    /\ At("entry", "created")
    /\ armed' = TRUE
    /\ Goto("entry", "attaching", ent["entry"])
    /\ UNCHANGED <<row, exch, booked, slot, indexed, closing, order, seen>>

\* Drift rejects the fill: emitSyntheticClose takes the close slot, or, with a
\* close in flight, does nothing.
RejectFill ==
    /\ At("entry", "created")
    /\ "unwind" \in Closers
    /\ pc["unwind"] = "idle"
    /\ slot' = TRUE
    /\ pc' = [pc EXCEPT !["entry"] = "idle", !["unwind"] = IF slot THEN @ ELSE "held"]
    /\ ent' = [ent EXCEPT !["entry"] = NoEntity]
    /\ UNCHANGED <<row, exch, booked, armed, indexed, closing, order, seen>>

\* The attach answered; its result is saved with the entity read at insert.
\* Exchange-side protection disarms the monitor, except on paper.
SaveAttachResult ==
    /\ At("entry", "attaching")
    /\ row' = ent["entry"]
    /\ \E exchangeSide \in BOOLEAN : armed' = (armed /\ ~(exchangeSide /\ ~Paper))
    /\ Goto("entry", "attached", ent["entry"])
    /\ UNCHANGED <<exch, booked, slot, indexed, closing, order, seen>>

OpenRead == At("entry", "attached") /\ TransitionRead("entry", "open", "openSave", "idle")
OpenSave == At("entry", "openSave") /\ TransitionSave("entry", "indexing")

IsTimeStopCandidate(r) == r.state \in {"open", "pending_open"} /\ r.qty > 0

\* POSITION_OPENED: the enforcer rebuilds the symbol's index from the rows.
RebuildIndex ==
    /\ At("entry", "indexing")
    /\ indexed' = IsTimeStopCandidate(row)
    /\ Goto("entry", "idle", NoEntity)
    /\ UNCHANGED <<row, exch, booked, slot, armed, closing, order, seen>>

Entry == AcceptFill \/ RejectFill \/ SaveAttachResult \/ OpenRead \/ OpenSave \/ RebuildIndex

-----------------------------------------------------------------------------
(***************************************************************************)
(* The close producers.                                                    *)
(***************************************************************************)

\* tryAcquire, synchronous with the price tick (or the deadline sweep) that
\* finds the stop breached or the deadline crossed.
Acquire(c) ==
    /\ At(c, "idle")
    /\ \/ c = "monitor" /\ armed
       \/ c = "timestop" /\ indexed
    /\ ~slot
    /\ slot' = TRUE
    /\ Goto(c, "held", NoEntity)
    /\ UNCHANGED <<row, exch, booked, armed, indexed, closing, order, seen>>

\* Row lookup, gate, ORDER_INTENT_APPROVED.  The monitor closes whatever row it
\* finds; the unwind closes the entity it was given; the momentum de-rank takes
\* no slot and closes any row that is not CLOSED.
EmitClose(c) ==
    /\ \/ At(c, "held") /\ (c = "timestop" => IsTimeStopCandidate(row))
       \/ At(c, "idle") /\ c = "momentum" /\ row.state # "closed"
    /\ order' = [order EXCEPT ![c] = [NoOrder EXCEPT !.want = IF c = "unwind" THEN Qty ELSE row.qty]]
    /\ Goto(c, "submitting", NoEntity)
    /\ UNCHANGED <<row, exch, booked, memory, seen>>

\* validateTimeStopEligibility: no longer a candidate, leave the index.
NotACandidate ==
    /\ At("timestop", "held")
    /\ ~IsTimeStopCandidate(row)
    /\ slot' = FALSE /\ indexed' = FALSE
    /\ Goto("timestop", "idle", NoEntity)
    /\ UNCHANGED <<row, exch, booked, armed, closing, order, seen>>

\* MUTANT of ProducerThrows: the throw leaves the slot held.
ProducerThrowsHolding(c) ==
    /\ "throws" \in Faults
    /\ At(c, "held")
    /\ Goto(c, "idle", NoEntity)
    /\ UNCHANGED <<row, exch, booked, memory, order, seen>>

\* A throw or a gate reject on the way to the emit: release and retry.
ProducerThrows(c) ==
    /\ "throws" \in Faults
    /\ At(c, "held")
    /\ slot' = FALSE
    /\ Goto(c, "idle", NoEntity)
    /\ UNCHANGED <<row, exch, booked, armed, indexed, closing, order, seen>>

-----------------------------------------------------------------------------
(***************************************************************************)
(* The executor's reduce path for the close of producer c.                 *)
(***************************************************************************)

Least(a, b) == IF a < b THEN a ELSE b

\* runSubmitStateMachine's answer.  The order is reduce-only: it fills at most
\* what the exchange holds, and a flat position refuses it.
SubmitAnswer(c) ==
    /\ At(c, "submitting")
    /\ \E fill \in 0..Least(order[c].want, exch) :
         /\ fill = Least(order[c].want, exch) \/ "partial" \in Faults
         /\ \E clean \in IF fill = order[c].want /\ fill > 0
                           THEN (IF "partial" \in Faults THEN BOOLEAN ELSE {TRUE}) ELSE {FALSE} :
              /\ exch' = exch - fill
              /\ order' = [order EXCEPT ![c].fill = fill, ![c].clean = clean]
              /\ Goto(c, IF fill > 0 THEN "applying" ELSE "terminal", NoEntity)
    /\ UNCHANGED <<row, booked, memory, seen>>

\* The unknown-intent listener starts on event emission.  A second event of
\* the same handler, before the first is looked at, changes nothing.
Escalated(c, there, e) ==
    /\ pc' = [pc EXCEPT ![c] = there,
                        ![UnknownOf[c]] = IF @ = "idle" THEN "pending" ELSE @]
    /\ ent' = [ent EXCEPT ![c] = e]

\* applyReduceFillToPosition up to its branch.  A missing row escalates with no
\* positionId; a flat row escalates; a fill above the row's quantity is drift
\* and escalates as well, clamped to the row; a closing fill enters the
\* in-flight guard or skips.
FillNoRow(c) ==
    /\ At(c, "applying")
    /\ row.state = "closed"
    /\ Goto(c, "terminal", NoEntity)
    /\ UNCHANGED <<row, exch, booked, memory, order, seen>>

FillFlatRow(c) ==
    /\ At(c, "applying")
    /\ row.state # "closed" /\ row.qty = 0
    /\ Escalated(c, "terminal", NoEntity)
    /\ UNCHANGED <<row, exch, booked, memory, order, seen>>

\* MUTANT of FillCloses: no closingInFlight guard.
FillClosesUnguarded(c) ==
    /\ At(c, "applying")
    /\ row.state # "closed" /\ row.qty > 0
    /\ order[c].fill >= row.qty
    /\ Goto(c, IF row.state = "pending_open" THEN "promoting" ELSE "zeroing", row)
    /\ order' = [order EXCEPT ![c].fill = row.qty]
    /\ UNCHANGED <<row, exch, booked, memory, seen>>

FillCloses(c) ==
    /\ At(c, "applying")
    /\ row.state # "closed" /\ row.qty > 0
    /\ order[c].fill >= row.qty
    /\ LET there == IF closing THEN "terminal"
                    ELSE IF row.state = "pending_open" THEN "promoting" ELSE "zeroing"
       IN IF order[c].fill > row.qty THEN Escalated(c, there, row) ELSE Goto(c, there, row)
    /\ order' = [order EXCEPT ![c].fill = row.qty]
    /\ closing' = TRUE
    /\ UNCHANGED <<row, exch, booked, slot, armed, indexed, seen>>

FillReduces(c) ==
    /\ At(c, "applying")
    /\ row.state # "closed" /\ order[c].fill < row.qty
    /\ Goto(c, "reducing", [row EXCEPT !.qty = @ - order[c].fill])
    /\ UNCHANGED <<row, exch, booked, memory, order, seen>>

\* promotePendingOpenBeforeClose: transition to OPEN, or escalate and abort.
PromoteRead(c) ==
    /\ At(c, "promoting")
    /\ IF LegalTransition(row.state, "open")
         THEN /\ Goto(c, "promoted", [row EXCEPT !.state = "open"])
              /\ UNCHANGED closing
         ELSE /\ Escalated(c, "terminal", NoEntity)
              /\ closing' = FALSE
    /\ UNCHANGED <<row, exch, booked, slot, armed, indexed, order, seen>>

\* MUTANT of PromoteSave: the entity in hand keeps PENDING_OPEN.
PromoteSaveStale(c) ==
    /\ At(c, "promoted")
    /\ row' = ent[c]
    /\ Goto(c, "zeroing", [ent[c] EXCEPT !.state = "pending_open"])
    /\ UNCHANGED <<exch, booked, memory, order, seen>>

PromoteSave(c) == At(c, "promoted") /\ TransitionSave(c, "zeroing")

\* MUTANT of ZeroAndSave: disarm frees the close slot too.
ZeroAndSaveReleasing(c) ==
    /\ At(c, "zeroing")
    /\ armed' = FALSE /\ slot' = FALSE
    /\ row' = [ent[c] EXCEPT !.qty = 0]
    /\ Goto(c, "zeroed", NoEntity)
    /\ UNCHANGED <<exch, booked, indexed, closing, order, seen>>

\* qty = 0 on the entity in hand, disarm, save the entity.
ZeroAndSave(c) ==
    /\ At(c, "zeroing")
    /\ armed' = FALSE
    /\ row' = [ent[c] EXCEPT !.qty = 0]
    /\ Goto(c, "zeroed", NoEntity)
    /\ UNCHANGED <<exch, booked, slot, indexed, closing, order, seen>>

\* The close transaction, for the clamped fill, then the read of the
\* transition to CLOSING.  Its throw leaves the guard and ends the handler.
BookAndRead(c) ==
    /\ At(c, "zeroed")
    /\ booked' = booked + order[c].fill
    /\ IF LegalTransition(row.state, "closing")
         THEN /\ Goto(c, "closingSave", [row EXCEPT !.state = "closing"])
              /\ UNCHANGED <<closing, order>>
         ELSE /\ Goto(c, "idle", NoEntity)
              /\ closing' = FALSE
              /\ order' = [order EXCEPT ![c] = NoOrder]
    /\ UNCHANGED <<row, exch, slot, armed, indexed, seen>>

ClosingSave(c) == At(c, "closingSave") /\ TransitionSave(c, "inClosing")

\* finalizeRealizedPnl: CLOSING to CLOSED, re-read after the aggregation.
FinalizeRead(c) ==
    /\ At(c, "inClosing")
    /\ IF LegalTransition(row.state, "closed")
         THEN /\ Goto(c, "closedSave", [row EXCEPT !.state = "closed"])
              /\ UNCHANGED <<closing, order>>
         ELSE /\ Goto(c, "idle", NoEntity)
              /\ closing' = FALSE
              /\ order' = [order EXCEPT ![c] = NoOrder]
    /\ UNCHANGED <<row, exch, booked, slot, armed, indexed, seen>>

FinalizeSave(c) ==
    /\ At(c, "closedSave") /\ c \in Closers
    /\ row' = ent[c]
    /\ OnTransition(ent[c].state)
    /\ closing' = FALSE
    /\ Goto(c, "terminal", NoEntity)
    /\ UNCHANGED <<exch, booked, order, seen>>

\* MUTANT of ReduceRead: the re-read row is saved as it was.
ReduceReadUnchanged(c) ==
    /\ At(c, "reducing")
    /\ Goto(c, "reduced", row)
    /\ UNCHANGED <<row, exch, booked, memory, order, seen>>

\* applyPartialReduceFill: adjustQty re-reads the row and sets the quantity
\* computed before the await, then the transaction is written.
ReduceRead(c) ==
    /\ At(c, "reducing")
    /\ Goto(c, "reduced", [row EXCEPT !.qty = ent[c].qty])
    /\ UNCHANGED <<row, exch, booked, memory, order, seen>>

ReduceSave(c) ==
    /\ At(c, "reduced")
    /\ row' = ent[c]
    /\ booked' = booked + order[c].fill
    /\ Goto(c, "terminal", NoEntity)
    /\ UNCHANGED <<exch, memory, order, seen>>

\* handleReduceTerminal's end: a clean fill is done, anything else escalates
\* with the row it finds.
Terminal(c) ==
    /\ At(c, "terminal")
    /\ IF order[c].clean \/ row.state = "closed"
         THEN Goto(c, "idle", NoEntity)
         ELSE Escalated(c, "idle", NoEntity)
    /\ order' = [order EXCEPT ![c] = NoOrder]
    /\ UNCHANGED <<row, exch, booked, memory, seen>>

Close(c) ==
    \/ Acquire(c) \/ EmitClose(c) \/ ProducerThrows(c) \/ SubmitAnswer(c)
    \/ FillNoRow(c) \/ FillFlatRow(c) \/ FillCloses(c) \/ FillReduces(c)
    \/ PromoteRead(c) \/ PromoteSave(c) \/ ZeroAndSave(c) \/ BookAndRead(c)
    \/ ClosingSave(c) \/ FinalizeRead(c) \/ FinalizeSave(c)
    \/ ReduceRead(c) \/ ReduceSave(c) \/ Terminal(c)

-----------------------------------------------------------------------------
(***************************************************************************)
(* ReconciliationService.onOrderIntentUnknown: a skip check, then the      *)
(* transition to RECONCILING with its own read; a throw is swallowed.      *)
(***************************************************************************)

UnknownCheck(u) ==
    /\ At(u, "pending")
    /\ Goto(u, IF row.state \in {"reconciling", "closed", "closing"} THEN "idle" ELSE "checked",
            NoEntity)
    /\ UNCHANGED <<row, exch, booked, memory, order, seen>>

UnknownRead(u) == At(u, "checked") /\ TransitionRead(u, "reconciling", "reconcilingSave", "idle")
UnknownSave(u) == At(u, "reconcilingSave") /\ TransitionSave(u, "idle")

Unknown(u) == UnknownCheck(u) \/ UnknownRead(u) \/ UnknownSave(u)

-----------------------------------------------------------------------------
(***************************************************************************)
(* The reconciliation pass, as far as this row goes: the exchange snapshot *)
(* first, the rows after it, then cases (b), (c) and (f).  A throw ends    *)
(* the row's turn.  Skipped on paper.                                      *)
(***************************************************************************)

\* MUTANT of Snapshot: the position may be missing from the answer.
SnapshotIncomplete ==
    /\ At("recon", "idle") /\ ~Paper
    /\ \E held \in {exch, 0} : seen' = [NoEntity EXCEPT !.qty = held]
    /\ Goto("recon", "snapped", NoEntity)
    /\ UNCHANGED <<row, exch, booked, memory, order>>

\* fetchExchangePositionsSafe answers with an empty list when the fetch fails.
Snapshot ==
    /\ At("recon", "idle") /\ ~Paper
    /\ \E held \in {exch} \cup IF "fetchFails" \in Faults THEN {0} ELSE {} :
         seen' = [NoEntity EXCEPT !.qty = held]
    /\ Goto("recon", "snapped", NoEntity)
    /\ UNCHANGED <<row, exch, booked, memory, order>>

LoadRow ==
    /\ At("recon", "snapped")
    /\ Goto("recon", IF row.state = "closed" THEN "idle"
                     ELSE IF seen.qty = 0 THEN "missing"
                     ELSE IF seen.qty # row.qty THEN "mismatch" ELSE "unknownIntent", NoEntity)
    /\ seen' = [seen EXCEPT !.state = row.state]
    /\ UNCHANGED <<row, exch, booked, memory, order>>

\* MUTANT of LeadRead: every row leads through CLOSING.
LeadReadClosing ==
    /\ At("recon", "missing")
    /\ TransitionRead("recon", "closing", "leadSave", "idle")

\* Case (b): the leading transition the loaded state calls for.
LeadRead ==
    /\ At("recon", "missing")
    /\ CASE seen.state = "pending_open" ->
              TransitionRead("recon", "reconciling", "leadSave", "idle")
         [] seen.state = "open" -> TransitionRead("recon", "closing", "leadSave", "idle")
         [] OTHER -> /\ Goto("recon", "finalize", NoEntity)
                     /\ UNCHANGED <<row, exch, booked, memory, order, seen>>

LeadSave == At("recon", "leadSave") /\ TransitionSave("recon", "finalize")
MissingRead == At("recon", "finalize") /\ TransitionRead("recon", "closed", "closedSave", "idle")

\* The finalize, reconcileClose, and the disarm that follows.
MissingSave == At("recon", "closedSave") /\ TransitionSave("recon", "idle")

\* Case (c): adjustQty to the snapshot; the state is the one read here.
AdjustRead ==
    /\ At("recon", "mismatch")
    /\ Goto("recon", "qtySave", [row EXCEPT !.qty = seen.qty])
    /\ UNCHANGED <<row, exch, booked, memory, order, seen>>

AdjustSave ==
    /\ At("recon", "qtySave")
    /\ row' = ent["recon"]
    /\ Goto("recon", "unknownIntent", NoEntity)
    /\ UNCHANGED <<exch, booked, memory, order, seen>>

\* Case (f), for a row loaded as RECONCILING: the last order is terminal and
\* the position survives.
SurvivedRead ==
    /\ At("recon", "unknownIntent")
    /\ seen.state = "reconciling"
    /\ TransitionRead("recon", "open", "openSave", "idle")

\* Not reconciling, or the order cannot be resolved yet: next tick.
PassOver ==
    /\ At("recon", "unknownIntent")
    /\ Goto("recon", "idle", NoEntity)
    /\ UNCHANGED <<row, exch, booked, memory, order, seen>>

SurvivedSave == At("recon", "openSave") /\ TransitionSave("recon", "idle")

Recon == Snapshot \/ LoadRow \/ LeadRead \/ LeadSave \/ MissingRead \/ MissingSave
         \/ AdjustRead \/ AdjustSave \/ SurvivedRead \/ PassOver \/ SurvivedSave

-----------------------------------------------------------------------------
(***************************************************************************)
(* StuckPositionSweeper: a PENDING_OPEN row, or on paper a RECONCILING one, *)
(* opened 15 minutes ago.  That is far beyond the run of the entry handler, *)
(* its unwind and the escalation of that, which are over when a PENDING_OPEN *)
(* row is swept; a RECONCILING row may be of any age, with anything in      *)
(* flight.                                                                  *)
(***************************************************************************)

Sweep ==
    /\ At("sweep", "idle")
    /\ \/ /\ row.state = "pending_open"
          /\ \A p \in {"entry", "unwind", "unknownUnwind"} \cap Procs : pc[p] = "idle"
          /\ Goto("sweep", "orphan", NoEntity)
          /\ UNCHANGED slot
       \/ /\ row.state = "reconciling" /\ Paper
          /\ Goto("sweep", "parked", NoEntity)
          /\ slot' = FALSE
    /\ UNCHANGED <<row, exch, booked, armed, indexed, closing, order, seen>>

OrphanRead == At("sweep", "orphan") /\ TransitionRead("sweep", "reconciling", "leadSave", "idle")
OrphanSave == At("sweep", "leadSave") /\ TransitionSave("sweep", "parked")
ParkedRead == At("sweep", "parked") /\ TransitionRead("sweep", "closed", "closedSave", "idle")
ParkedSave == At("sweep", "closedSave") /\ TransitionSave("sweep", "idle")

Sweeper == Sweep \/ OrphanRead \/ OrphanSave \/ ParkedRead \/ ParkedSave

-----------------------------------------------------------------------------
\* The exchange closes the position without the bot (external).
ExchangeCloses ==
    /\ "external" \in Faults
    /\ exch > 0
    /\ exch' = 0
    /\ UNCHANGED <<row, booked, memory, pc, ent, order, seen>>

Next ==
    \/ Entry
    \/ \E c \in Closers : Close(c)
    \/ NotACandidate
    \/ \E u \in Unknowns : Unknown(u)
    \/ Recon
    \/ Sweeper
    \/ ExchangeCloses

Spec == Init /\ [][Next]_vars

\* Handlers run to their end, and the reconciliation interval keeps firing.
\* Nothing is assumed of the market, of faults or of when a close is emitted.
Progress(c) ==
    \/ (EmitClose(c) /\ c # "momentum") \/ SubmitAnswer(c)
    \/ FillNoRow(c) \/ FillFlatRow(c) \/ FillCloses(c) \/ FillReduces(c)
    \/ PromoteRead(c) \/ PromoteSave(c) \/ ZeroAndSave(c) \/ BookAndRead(c)
    \/ ClosingSave(c) \/ FinalizeRead(c) \/ FinalizeSave(c)
    \/ ReduceRead(c) \/ ReduceSave(c) \/ Terminal(c)

FairSpec ==
    /\ Spec
    /\ WF_vars(Entry)
    /\ \A c \in Closers : WF_vars(Progress(c))
    /\ \A u \in Unknowns : WF_vars(Unknown(u))
    /\ WF_vars(Recon)

-----------------------------------------------------------------------------
(***************************************************************************)
(* Properties.                                                             *)
(***************************************************************************)

Idle(p) == pc[p] = "idle"

\* The producers that do take the slot never have two closes in flight, whatever
\* the momentum de-rank, which does not take it, does beside them.
SlotSerializesCloses ==
    \A c, d \in Closers \ {"momentum"} : Idle(c) \/ Idle(d) \/ c = d

\* Two closing fills never finalize the row together: closingInFlight turns the
\* second away, even when the producers did not share the close slot.
InClosingFill(c) ==
    pc[c] \in {"promoting", "promoted", "zeroing", "zeroed", "closingSave", "inClosing", "closedSave"}
OneClosingFill == \A c, d \in Closers : InClosingFill(c) /\ InClosingFill(d) => c = d

MovesLegally == row'.state # row.state => LegalTransition(row.state, row'.state)

\* positionStateGraph: the row's state only ever moves along an arrow, whoever
\* saves it and however old the entity it saves; CLOSED has no way out.
EveryMoveIsLegal == [][MovesLegally]_row

\* CLOSED is terminal: no save of an older entity brings the row back.
ClosedIsTerminal == [][row.state = "closed" => row'.state = "closed"]_row

\* The slot is the fact that a close is in flight: when the row is open and
\* nobody is closing or reconciling it, the slot is free and the next breach
\* can be acted on.
HeldSlotIsInFlight ==
    slot /\ row.state \in {"open", "pending_open"}
      => \E p \in Closers \cup Unknowns : ~Idle(p)

\* Once every close handler is done, what the row lost is what the transactions
\* say was closed: no reduce overwrites another.
ReducesAddUp == (\A c \in Closers : Idle(c)) => row.qty + booked = Qty

\* A row is CLOSED only when the exchange holds nothing, once every handler is
\* done with it.
ClosedMeansFlat == row.state = "closed" /\ (\A p \in Procs : Idle(p)) => exch = 0

\* A position the exchange no longer holds ends CLOSED in the database,
\* and stays so: a save that brings the row back is itself undone by a later
\* pass.
FlatEndsClosed == (exch = 0) ~> [](row.state = "closed")
=============================================================================
