----------------------------- MODULE ExitWatch -----------------------------
(***************************************************************************)
(* The two watchers that close a position from inside the engine:          *)
(* LocalProtectiveMonitor (stop loss and take profit against the price     *)
(* stream) and PositionTimeStopEnforcer (deadlines against the stream and  *)
(* a periodic sweep).  They share the close slot of SharedCloseCoordinator *)
(* and the executor, and they name their closes after the position, so     *)
(* that a retry carries the client order id of the first attempt.          *)
(* The exchange's fill, the save of the row, the ledger row and the        *)
(* transition are steps of their own, and any of them may throw or be the  *)
(* last of the process. Reconciliation puts right what they leave; what it *)
(* does between a fill and the save of the row is in PositionLifecycle.    *)
(***************************************************************************)
EXTENDS Integers, FiniteSets

CONSTANTS
    Deadline,                   \* time_stop_at
    Qty,                        \* units of the position
    MaxTime, MaxFaults, MaxEscalations, MaxCrashes   \* bounds

Prices == 1..3
Sides == {"long", "short"}
Watchers == {"monitor", "timestop"}
Stages == {"idle", "read", "gate", "executor", "filled", "saved", "booked"}
States == {"open", "closing", "reconciling", "closed"}
Reasons == {"none", "stop_loss", "take_profit", "time_stop"}

ConstantsOK == {Deadline, Qty, MaxTime, MaxFaults, MaxEscalations, MaxCrashes} \subseteq Nat /\ Qty > 0 /\ Deadline <= MaxTime

VARIABLES
    side, live,                 \* of the position; isExecutionLive
    state, qty,                 \* the row
    held, pend,                 \* units at the exchange; units filled there that await their ledger row
    now,
    armed, eligible,            \* the monitor's entry and its tpEligible
    indexed,                    \* the enforcer's deadlineIndex holds the position
    rebuild,                    \* the rebuild of the index after the open event
    slot,                       \* SharedCloseCoordinator.inFlight
    stage, reason,              \* where a watcher's close stands, and why it closes
    used, booked,               \* client order ids with a transaction; units they book
    marks,                      \* ghost: the prices seen since the monitor was armed
    holes,                      \* ghost: ways a fill missed its ledger row and was not yet backfilled
    escalated, swallowed,       \* ghosts: a close of this run of the process went to reconciliation; threw
    faults, escalations, crashes

watch == <<armed, eligible, indexed, rebuild, slot, stage, reason, marks, escalated, swallowed>>
row == <<side, live, state, qty>>
exchange == <<held, pend>>
ledger == <<used, booked, holes>>
counts == <<faults, escalations, crashes>>
vars == <<row, exchange, now, watch, ledger, counts>>

TypeOK ==
    /\ side \in Sides /\ live \in BOOLEAN /\ state \in States /\ qty \in 0..Qty /\ now \in 0..MaxTime
    /\ held \in 0..Qty /\ pend \in 0..Qty /\ {armed, eligible, indexed, slot, escalated, swallowed} \subseteq BOOLEAN
    /\ rebuild \in {"due", "present", "absent", "done"} /\ stage \in [Watchers -> Stages] /\ reason \in [Watchers -> Reasons]
    /\ used \subseteq Reasons /\ booked \in 0..Qty /\ marks \subseteq Prices /\ holes \subseteq {"reused", "torn"}

Idle == [w \in Watchers |-> "idle"]
Unnamed == [w \in Watchers |-> "none"]

\* The row is written and its watchers told: armed with the stop and the target, the open event under way.
Init ==
    /\ side \in Sides /\ live \in BOOLEAN /\ state = "open" /\ qty = Qty /\ now = 0
    /\ armed = TRUE /\ eligible = FALSE /\ indexed = FALSE /\ rebuild = "due" /\ slot = FALSE
    /\ stage = Idle /\ reason = Unnamed /\ used = {} /\ booked = 0
    /\ held = Qty /\ pend = 0 /\ holes = {} /\ swallowed = FALSE
    /\ marks = {} /\ escalated = FALSE /\ faults = 0 /\ escalations = 0 /\ crashes = 0

-----------------------------------------------------------------------------
(* The levels: for a long the stop is at the lowest price, the target at   *)
(* the highest.                                                            *)

StopLoss == IF side = "long" THEN 1 ELSE 3
TakeProfit == IF side = "long" THEN 3 ELSE 1

IsStopLossBreached(p) == IF side = "long" THEN p <= StopLoss ELSE p >= StopLoss
IsTakeProfitBreached(p) == IF side = "long" THEN p >= TakeProfit ELSE p <= TakeProfit

\* updateTakeProfitEligibility: the target counts once a price before it was seen.
EligibleMutant(p) == TRUE

EligibleAfter(p) == eligible \/ ~IsTakeProfitBreached(p)

\* evaluateBreach: the stop first.
Breach(p) ==
    IF IsStopLossBreached(p) THEN "stop_loss"
    ELSE IF EligibleAfter(p) /\ IsTakeProfitBreached(p) THEN "take_profit" ELSE "none"

\* findTimeStopCandidatesBySymbol
Candidate == state = "open" /\ qty > 0

-----------------------------------------------------------------------------
(* The enforcer's index.                                                   *)

\* onPositionOpened, rebuildSymbolIndex: the rows are read, then the map is replaced.
IndexRead == rebuild = "due" /\ rebuild' = IF Candidate THEN "present" ELSE "absent"

IndexWrite == rebuild \in {"present", "absent"} /\ indexed' = (rebuild = "present") /\ rebuild' = "done"

Index ==
    /\ (IndexRead /\ UNCHANGED indexed) \/ IndexWrite
    /\ UNCHANGED <<row, exchange, now, armed, eligible, slot, stage, reason, marks, escalated, swallowed, ledger, counts>>

\* recomputeEarliest, and the comparison every tick and every sweep starts with.
DueMutant == indexed /\ now > Deadline

Due == indexed /\ now >= Deadline

-----------------------------------------------------------------------------
(* A price.update event: the enforcer's listener is called first, and both *)
(* take the slot before they wait for anything.                            *)

\* tryAcquire by watcher w (a second close of one watcher is not followed while its first is under way,
\* which only a row closed meanwhile by reconciliation allows).
Acquire(w, why) == slot' = TRUE /\ stage' = [stage EXCEPT ![w] = "read"] /\ reason' = [reason EXCEPT ![w] = why]

NoAcquire == UNCHANGED <<slot, stage, reason>>

\* The enforcer's listener, first: a free slot and a crossed deadline.
CanTake(w) == ~slot /\ stage[w] = "idle"

TimeStopTick == Due /\ CanTake("timestop")

PriceUpdate(p) ==
    /\ eligible' = (armed /\ EligibleAfter(p)) /\ marks' = IF armed THEN marks \cup {p} ELSE marks
    /\ IF TimeStopTick THEN Acquire("timestop", "time_stop")
       ELSE IF armed /\ Breach(p) # "none" /\ CanTake("monitor") THEN Acquire("monitor", Breach(p))
       ELSE NoAcquire
    /\ UNCHANGED <<row, exchange, now, armed, indexed, rebuild, escalated, swallowed, ledger, counts>>

\* sweepDeadlineBreaches, closeAllBreachedPositions: guarded by the index, acting on the rows.
Sweep ==
    /\ Due /\ state # "closed" /\ CanTake("timestop") /\ Acquire("timestop", "time_stop")
    /\ UNCHANGED <<row, exchange, now, armed, eligible, indexed, rebuild, marks, escalated, swallowed, ledger, counts>>

-----------------------------------------------------------------------------
(* The close of a watcher: read the row, ask the gate, tell the executor.  *)

Ends(w) == stage' = [stage EXCEPT ![w] = "idle"] /\ reason' = [reason EXCEPT ![w] = "none"]

Release(w) == slot' = FALSE /\ Ends(w)

\* executeBreachClose takes the row as it is; enforceTimeStop wants it still a candidate
\* (validateTimeStopEligibility) and forgets the deadline otherwise.
ReadRow(w) ==
    /\ stage[w] = "read"
    /\ IF w = "monitor" \/ Candidate
         THEN stage' = [stage EXCEPT ![w] = "gate"] /\ UNCHANGED <<slot, reason, indexed>>
         ELSE Release(w) /\ indexed' = FALSE
    /\ UNCHANGED <<row, exchange, now, armed, eligible, rebuild, marks, escalated, swallowed, ledger, counts>>

\* The gate approves a de-risking intent; the approval event starts the executor.
Approve(w) ==
    /\ stage[w] = "gate" /\ stage' = [stage EXCEPT ![w] = "executor"]
    /\ UNCHANGED <<row, exchange, now, armed, eligible, indexed, rebuild, slot, reason, marks, escalated, swallowed, ledger, counts>>

\* A throw on the way, or a gate that rejects after all: the slot is given back.
FreedMutant(w) == Ends(w) /\ UNCHANGED slot

Freed(w) == Release(w)

Abort(w) ==
    /\ stage[w] \in {"read", "gate"} /\ faults < MaxFaults /\ faults' = faults + 1 /\ Freed(w)
    /\ UNCHANGED <<row, exchange, now, armed, eligible, indexed, rebuild, marks, escalated, swallowed, ledger, escalations, crashes>>

-----------------------------------------------------------------------------
(* ExecutionService.handleApproved for such an intent.                     *)

\* buildCloseIntent of either watcher: the whole remaining quantity, an id made of the prefix and the
\* position (and the reason, for a breach).
BreachIntent == [by |-> "monitor", reason |-> reason["monitor"], qty |-> qty]
TimeStopIntent == [by |-> "timestop", reason |-> "time_stop", qty |-> qty]
Intent(w) == IF w = "monitor" THEN BreachIntent ELSE TimeStopIntent

\* Both watchers hear that an intent expired; each knows its own by the prefix.
BreachFrees(intent) == intent.by = "monitor"
TimeStopFrees(intent) == intent.by = "timestop"

\* handleDryRun: the intent expires at once.
DryRun(w) ==
    /\ stage[w] = "executor" /\ ~live
    /\ slot' = (slot /\ ~BreachFrees(Intent(w)) /\ ~TimeStopFrees(Intent(w)))
    /\ Ends(w)
    /\ UNCHANGED <<row, exchange, now, armed, eligible, indexed, rebuild, marks, escalated, swallowed, ledger, counts>>

\* ClientOrderIdFactory.build makes one client order id per event id, so one per reason; the insert
\* takes a known id for a duplicate and drops the row.
BookMutant(id, n) == used' = used \cup {id} /\ holes' = holes /\ booked' = (IF id = "stop_loss" THEN booked ELSE booked + n)

Book(id, n) ==
    /\ used' = used \cup {id} /\ holes' = holes \cup (IF id \in used THEN {"reused"} ELSE {})
    /\ booked' = IF id \in used THEN booked ELSE booked + n

\* The listeners of the transition to CLOSED: the slot, the arm and the deadline go.
StandDown == slot' = FALSE /\ armed' = FALSE /\ eligible' = FALSE /\ indexed' = FALSE

\* runSubmitStateMachine: the reduce-only order took n units at the exchange. Less than all that is
\* held ends in an escalation, so there must be one left.
Sent(w, n) == live /\ stage[w] = "executor" /\ (n = held \/ escalations < MaxEscalations)

Fills(w) ==
    /\ \E n \in 1..held: Sent(w, n) /\ held' = held - n /\ pend' = pend + n
    /\ stage' = [stage EXCEPT ![w] = "filled"]
    /\ UNCHANGED <<row, now, armed, eligible, indexed, rebuild, slot, reason, marks, escalated, swallowed, ledger, counts>>

\* applyReduceFillToPosition: a fill of the whole row disarms the monitor and leaves it flat.
Closes == qty <= pend

TakeFill(w) ==
    /\ stage[w] = "filled" /\ stage' = [stage EXCEPT ![w] = "saved"]
    /\ IF Closes THEN qty' = 0 /\ armed' = FALSE /\ eligible' = FALSE ELSE qty' = qty - pend /\ UNCHANGED <<armed, eligible>>
    /\ UNCHANGED <<side, live, state, exchange, now, indexed, rebuild, slot, reason, marks, escalated, swallowed, ledger, counts>>

\* recordTerminal, which throws on a fill the reconciliation has already backfilled.
BookFill(w) ==
    /\ stage[w] = "saved" /\ pend' = 0
    /\ \/ pend > 0 /\ Book(Intent(w).reason, pend) /\ stage' = [stage EXCEPT ![w] = "booked"] /\ UNCHANGED <<reason, swallowed>>
       \/ pend = 0 /\ Ends(w) /\ swallowed' = TRUE /\ UNCHANGED ledger
    /\ UNCHANGED <<row, held, now, armed, eligible, indexed, rebuild, slot, marks, escalated, counts>>

\* The transitions of a flat row: CLOSING, then finalizeRealizedPnl.
Finish(w) ==
    /\ stage[w] = "booked" /\ qty = 0 /\ state # "closed"
    /\ state' = "closed" /\ StandDown /\ Ends(w)
    /\ UNCHANGED <<side, live, qty, exchange, now, rebuild, marks, escalated, swallowed, ledger, counts>>

\* What finds the row closed by the reconciliation in the meantime, or has taken the last units of a
\* row that thought it had more, ends here.
Leaves(w) ==
    /\ \/ state = "closed" /\ live /\ stage[w] \in {"executor", "booked"}
       \/ stage[w] = "booked" /\ qty > 0 /\ held = 0
    /\ Ends(w)
    /\ UNCHANGED <<row, exchange, now, armed, eligible, indexed, rebuild, slot, marks, escalated, swallowed, ledger, counts>>

\* handleReduceTerminal: anything less is handed to reconciliation, the slot stays taken
\* (onOrderIntentUnknown moves an open row only).
Escalates(w) ==
    /\ (stage[w] = "executor" /\ live) \/ (stage[w] = "booked" /\ qty > 0)
    /\ state # "closed" /\ escalations < MaxEscalations /\ escalations' = escalations + 1
    /\ state' = (IF state = "open" THEN "reconciling" ELSE state) /\ escalated' = TRUE /\ Ends(w)
    /\ UNCHANGED <<side, live, qty, exchange, now, armed, eligible, indexed, rebuild, slot, marks, swallowed, ledger, faults, crashes>>

\* The process, or this run of the executor, is done with what it had filled and not booked; an order
\* on its way may fill n more.
Forgets(n) ==
    /\ n > 0 => live /\ \E w \in Watchers: stage[w] = "executor"
    /\ held' = held - n /\ pend' = 0
    /\ holes' = IF pend + n > 0 THEN holes \cup {"torn"} ELSE holes
    /\ UNCHANGED <<used, booked>>

\* onOrderIntentApproved swallows what handleApproved throws, before the fill or between the awaits
\* after it: the close ends without a terminal event. The transition may have been made, and the
\* monitor disarmed before a save that failed.
Throws(w) ==
    /\ stage[w] \in {"executor", "filled", "saved", "booked"} /\ faults < MaxFaults /\ faults' = faults + 1
    /\ \E n \in 0..held: Forgets(n) /\ (n > 0 => stage[w] = "executor")
    /\ \/ UNCHANGED <<state, armed, eligible, indexed>>
       \/ stage[w] = "booked" /\ qty = 0 /\ state = "open" /\ state' = "closing" /\ indexed' = FALSE /\ UNCHANGED <<armed, eligible>>
       \/ stage[w] = "filled" /\ Closes /\ armed' = FALSE /\ eligible' = FALSE /\ UNCHANGED <<state, indexed>>
    /\ Ends(w) /\ swallowed' = TRUE
    /\ UNCHANGED <<side, live, qty, now, rebuild, slot, marks, escalated, escalations, crashes>>

-----------------------------------------------------------------------------
(* Around the watchers.                                                    *)

\* The fill is at the exchange and the row not yet saved: what a pass does here PositionLifecycle says.
Between == \E w \in Watchers: stage[w] = "filled"

\* Case (b): the exchange holds nothing, the row is closed. The fills the ledger lacks come from the
\* account's history, if that can be read.
ReconcileMissing ==
    /\ live /\ held = 0 /\ state # "closed" /\ ~Between /\ state' = "closed" /\ StandDown
    /\ (booked' = Qty /\ pend' = 0 /\ holes' = {}) \/ UNCHANGED <<booked, pend, holes>>
    /\ UNCHANGED <<side, live, qty, held, now, rebuild, stage, reason, marks, escalated, swallowed, used, counts>>

\* Case (c): the exchange's quantity wins.
HandleMatchedPair ==
    /\ live /\ held > 0 /\ qty # held /\ state # "closed" /\ ~Between /\ qty' = held
    /\ UNCHANGED <<side, live, state, exchange, now, watch, ledger, counts>>

\* transitionOutOfReconciling: the position survived and is reopened.
Reopen ==
    /\ state = "reconciling" /\ held > 0 /\ ~Between /\ state' = "open"
    /\ UNCHANGED <<side, live, qty, exchange, now, watch, ledger, counts>>

\* Case (e): the exchange's protective orders are gone, the monitor is armed afresh.
Rearm ==
    /\ state = "open" /\ armed' = TRUE /\ eligible' = FALSE /\ marks' = {}
    /\ UNCHANGED <<row, exchange, now, indexed, rebuild, slot, stage, reason, escalated, swallowed, ledger, counts>>

\* A restart loses the slot, the arms and the index; the enforcer's onModuleInit and the boot's
\* re-arm bring them back for the rows that are open then.
Crash ==
    /\ crashes < MaxCrashes /\ crashes' = crashes + 1
    /\ slot' = FALSE /\ stage' = Idle /\ reason' = Unnamed /\ rebuild' = "done"
    /\ \E n \in 0..held: Forgets(n)
    /\ armed' = (state \in {"open", "closing"}) /\ eligible' = FALSE /\ indexed' = Candidate /\ marks' = {}
    /\ escalated' = FALSE /\ swallowed' = FALSE
    /\ UNCHANGED <<row, now, faults, escalations>>

Tick == now < MaxTime /\ now' = now + 1 /\ UNCHANGED <<row, exchange, watch, ledger, counts>>

Executes(w) == DryRun(w) \/ Fills(w) \/ TakeFill(w) \/ BookFill(w) \/ Finish(w) \/ Leaves(w) \/ Escalates(w)

Closing(w) == ReadRow(w) \/ Approve(w) \/ Executes(w)

Reconcile == ReconcileMissing \/ HandleMatchedPair \/ Reopen

Next ==
    \/ Index \/ Sweep \/ Reconcile \/ Rearm \/ Crash \/ Tick
    \/ \E p \in Prices: PriceUpdate(p)
    \/ \E w \in Watchers: Closing(w) \/ Abort(w) \/ Throws(w)

\* The event loop finishes what it started, the sweep's interval keeps firing and reconciliation
\* ends; no price, no fault and no crash is ever promised.
Fairness ==
    /\ WF_vars(Index) /\ WF_vars(Sweep) /\ WF_vars(Reopen) /\ WF_vars(ReconcileMissing)
    /\ \A w \in Watchers: WF_vars(Closing(w))

Spec == Init /\ [][Next]_vars /\ Fairness

-----------------------------------------------------------------------------
(* Properties.                                                             *)

InFlight == \E w \in Watchers: stage[w] # "idle"

\* A throw before the approval, a rejecting gate and a dry run all give the slot back: while the
\* exchange holds anything, it is only held with no close in flight after a close of this run of the
\* process went to reconciliation or the executor swallowed a throw.
SlotLeaksAreKnown == slot /\ ~InFlight /\ held > 0 => escalated \/ swallowed

\* A row is closed only when the exchange holds nothing of it, whatever was filled, thrown or lost.
ClosedIsGone == state = "closed" => held = 0

TakesEarned == stage["monitor"] = "idle" /\ reason'["monitor"] = "take_profit" => \E p \in marks': ~IsTakeProfitBreached(p)

\* A target hit by the very price the position was filled at is not taken: a take-profit close starts
\* only when a price on the near side of the target was seen since the monitor was last armed.
TakeProfitIsEarned == [][TakesEarned]_vars

\* No fill is booked twice, by the executor, a retry or a backfill; and the transactions, with those the
\* executor is about to write, account for all the exchange took, but for a fill under the id of a close
\* booked before it and one whose writing threw or died with the process, until they are backfilled.
FillsBookedOnce == booked + pend + held <= Qty /\ (holes = {} => booked + pend + held = Qty)

Overdue == live /\ state = "open" /\ now >= Deadline
Stranded == held > 0 /\ ((slot /\ ~InFlight) \/ (rebuild = "done" /\ ~indexed))

\* With no price at all, a position past its deadline is closed in the end, by its watcher or by the
\* pass that finds it gone, unless the slot leaked or the process came up while the row was being
\* reconciled and never learned the deadline.
DueCloses == Overdue ~> (state = "closed" \/ Stranded)

\* Reconciliation hands a position that survived a failed close back to its watchers
\* (transitionOutOfReconciling: "so the strategy / monitor resume normal operation").
SurvivorIsWatched == Overdue ~> (state = "closed")
=============================================================================
