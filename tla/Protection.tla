----------------------------- MODULE Protection -----------------------------
(***************************************************************************)
(* Who watches the stop of one live position: the executor's open path     *)
(* (row, local monitor, SL then TP order, disarm, or the unwind of a fill  *)
(* it does not accept), the reconciliation pass working from three reads   *)
(* made one after the other, the stuck-row sweep, and the boot pipeline    *)
(* that rebuilds the monitor from the rows.  Live and testnet only: in     *)
(* paper mode the pass is off and the monitor is never disarmed.           *)
(*                                                                         *)
(* A transition of the row is one step here (PositionLifecycle splits it   *)
(* into its read and its save), and so is a database write with the code   *)
(* that runs when it returns.                                              *)
(***************************************************************************)
EXTENDS Naturals, FiniteSets

CONSTANTS
    Flatten,        \* foreignPolicy = 'flatten' rather than 'adopt_unmanaged'
    Faults,         \* subset of FaultKinds that may happen
    MaxTroubles     \* crashes, halts and protective orders the exchange drops, together

FaultKinds == {"positionsFail", "ordersFail", "orderPending", "attachFails"}

ConstantsOK ==
    /\ Flatten \in BOOLEAN /\ Faults \subseteq FaultKinds
    /\ MaxTroubles \in Nat

VARIABLES
    row,            \* state of the engine's own position row
    typ,            \* its protective_order_type column
    adopted,        \* the row case (a) inserted for the same exchange position
    live,           \* the exchange holds the position
    resting,        \* protective orders resting on the exchange
    armed,          \* the local monitor watches the row
    exec,           \* the executor's place on the open path
    engine,         \* boot phase of the process
    pass, seen,     \* place of the reconciliation pass, and what it read
    halted,
    gaps,           \* ghost: ways the row lost its protection that no pass repairs
    count           \* ghost: drops, crashes and halts so far

vars == <<row, typ, adopted, live, resting, armed, exec, engine, pass, seen, halted, gaps, count>>

Both == {"sl", "tp"}
Alive == {"pending_open", "open", "closing", "reconciling"}
States == Alive \cup {"none", "closed"}
AdoptedStates == {"none", "held", "flattening", "closed"}
Snapshots == [pos : BOOLEAN, orders : SUBSET Both, row : States,
              typ : {"local", "exchange"}, adopted : AdoptedStates]
NothingSeen == [pos |-> FALSE, orders |-> {}, row |-> "none", typ |-> "local", adopted |-> "none"]

TypeOK ==
    /\ row \in States /\ typ \in {"local", "exchange"} /\ adopted \in AdoptedStates
    /\ live \in BOOLEAN /\ resting \subseteq Both /\ armed \in BOOLEAN /\ halted \in BOOLEAN
    /\ exec \in {"idle", "filled", "unwind", "sl", "tp", "attached", "fallback", "saved"}
    /\ engine \in {"down", "sweep", "caches", "up"}
    /\ pass \in {"idle", "orders", "rows", "a", "flatten", "b", "e", "f"}
    /\ seen \in Snapshots
    /\ gaps \subseteq {"dropped", "resurrected", "recovered", "unwound"}
    /\ count \in 0..MaxTroubles

Init ==
    /\ row = "none" /\ typ = "local" /\ adopted = "none"
    /\ live = FALSE /\ resting = {} /\ armed = FALSE /\ halted = FALSE
    /\ exec = "idle" /\ engine = "up" /\ pass = "idle" /\ seen = NothingSeen
    /\ gaps = {} /\ count = 0

Covered == Both \subseteq resting

-----------------------------------------------------------------------------
(* The executor's open path.                                               *)

\* The entry order fills.  The row does not exist yet.
EntryFills ==
    /\ engine = "up" /\ exec = "idle" /\ row = "none" /\ ~live
    /\ live' = TRUE /\ exec' = "filled"
    /\ UNCHANGED <<row, typ, adopted, resting, armed, engine, pass, seen, halted, gaps, count>>

\* The row is inserted, and the monitor armed before anything else is awaited; but not for a fill too
\* far from its signal, which is to be flattened at once (rejectAndUnwindIfUnacceptable).
CreatePositionFromFill ==
    /\ engine = "up" /\ exec = "filled"
    /\ row' = "pending_open" /\ typ' = "local"
    /\ (armed' = TRUE /\ exec' = "sl") \/ (exec' = "unwind" /\ UNCHANGED armed)
    /\ UNCHANGED <<adopted, live, resting, engine, pass, seen, halted, gaps, count>>

\* emitSyntheticClose and the flatten it asks for: done; refused, or thrown on the way, which leaves the
\* row as it is; or without a clean fill, which parks it.
EmitSyntheticClose ==
    /\ engine = "up" /\ exec = "unwind" /\ exec' = "idle"
    /\ \/ live' = FALSE /\ resting' = {} /\ armed' = FALSE /\ row' = "closed" /\ UNCHANGED gaps
       \/ gaps' = gaps \cup {"unwound"} /\ UNCHANGED <<row, live, resting, armed>>
       \/ row' = (IF row \in {"pending_open", "open"} THEN "reconciling" ELSE row) /\ UNCHANGED <<live, resting, armed, gaps>>
    /\ UNCHANGED <<typ, adopted, engine, pass, seen, halted, count>>

\* One protective order.  A failed call may still have left the order resting.
SubmitProtective(leg, next) ==
    /\ engine = "up" /\ exec = leg
    /\ \/ resting' = resting \cup {leg} /\ exec' = next
       \/ "attachFails" \in Faults /\ exec' = "fallback"
          /\ resting' \in {resting, resting \cup {leg}}
    /\ UNCHANGED <<row, typ, adopted, live, armed, engine, pass, seen, halted, gaps, count>>

\* The whole entity is saved, the state it was read with included; the monitor
\* stands down only when both orders were accepted.
ApplyProtectiveAttachResult ==
    /\ engine = "up" /\ exec \in {"attached", "fallback"}
    /\ typ' = IF exec = "attached" THEN "exchange" ELSE "local"
    /\ armed' = (armed /\ exec = "fallback")
    /\ row' = "pending_open"
    /\ gaps' = gaps \cup (IF row = "pending_open" THEN {} ELSE {"resurrected"})
    /\ exec' = "saved"
    /\ UNCHANGED <<adopted, live, resting, engine, pass, seen, halted, count>>

\* transition(OPEN): legal from where the row is, or it throws.
OpenRow ==
    /\ engine = "up" /\ exec = "saved" /\ exec' = "idle"
    /\ row' = IF row \in {"pending_open", "closing", "reconciling"} THEN "open" ELSE row
    /\ UNCHANGED <<typ, adopted, live, resting, armed, engine, pass, seen, halted, gaps, count>>

Executor ==
    \/ CreatePositionFromFill \/ EmitSyntheticClose
    \/ SubmitProtective("sl", "tp") \/ SubmitProtective("tp", "attached")
    \/ ApplyProtectiveAttachResult \/ OpenRow

-----------------------------------------------------------------------------
(* The reconciliation pass: fetchPositions, fetchOpenOrders, the rows, then *)
(* the cases in turn, each acting on rows that may have moved meanwhile.   *)

PassStep(from, to) ==
    /\ engine \in {"sweep", "up"} /\ pass = from /\ pass' = to

FetchExchangePositions ==
    /\ PassStep("idle", "orders")
    /\ \/ seen' = [NothingSeen EXCEPT !.pos = live]
       \/ "positionsFail" \in Faults /\ seen' = NothingSeen
    /\ UNCHANGED <<row, typ, adopted, live, resting, armed, exec, engine, halted, gaps, count>>

FetchOpenOrders ==
    /\ PassStep("orders", "rows")
    /\ \/ seen' = [seen EXCEPT !.orders = resting]
       \/ "ordersFail" \in Faults /\ seen' = seen
    /\ UNCHANGED <<row, typ, adopted, live, resting, armed, exec, engine, halted, gaps, count>>

LoadNonClosedPositions ==
    /\ PassStep("rows", "a")
    /\ seen' = [seen EXCEPT !.row = row, !.typ = typ, !.adopted = adopted]
    /\ UNCHANGED <<row, typ, adopted, live, resting, armed, exec, engine, halted, gaps, count>>

IsForeignMutant == seen.pos /\ seen.row = "none" /\ seen.adopted \notin {"held", "flattening"}

IsForeign == seen.pos /\ seen.row \notin Alive /\ seen.adopted \notin {"held", "flattening"}

\* Case (a).  A row is inserted; under the flatten policy, and when no halt
\* stands, a close is sent through the gate in the same breath.
HandleExchangeNotInDb ==
    /\ PassStep("a", IF IsForeign /\ Flatten /\ ~halted THEN "flatten" ELSE "b")
    /\ adopted' = IF IsForeign THEN "held" ELSE adopted
    /\ UNCHANGED <<row, typ, live, resting, armed, exec, engine, seen, halted, gaps, count>>

\* The gate approves, or rejects or throws and the slot is released.
FlattenAdopted ==
    /\ PassStep("flatten", "b")
    /\ adopted' \in {"held", "flattening"}
    /\ UNCHANGED <<row, typ, live, resting, armed, exec, engine, seen, halted, gaps, count>>

\* Case (b).  A row the exchange does not show is closed and disarmed.
HandleDbOpenNotOnExchange ==
    /\ PassStep("b", "e")
    /\ IF seen.row \in Alive /\ ~seen.pos /\ row \in Alive
       THEN row' = "closed" /\ armed' = FALSE
       ELSE UNCHANGED <<row, armed>>
    /\ UNCHANGED <<typ, adopted, live, resting, exec, engine, seen, halted, gaps, count>>

Drifted == seen.row \in Alive /\ seen.typ = "exchange" /\ ~(Both \subseteq seen.orders)

\* Case (e).  The column is written only while the row is in a protected state,
\* and only then is the monitor armed again.
HandleProtectiveOrderDriftMutant ==
    /\ PassStep("e", "f")
    /\ IF Drifted /\ row \in {"pending_open", "open", "closing"}
       THEN typ' = "local" ELSE typ' = typ
    /\ UNCHANGED <<row, adopted, live, resting, armed, exec, engine, seen, halted, gaps, count>>

HandleProtectiveOrderDrift ==
    /\ PassStep("e", "f")
    /\ IF Drifted /\ row \in {"pending_open", "open", "closing"}
       THEN typ' = "local" /\ armed' = TRUE
       ELSE UNCHANGED <<typ, armed>>
    /\ UNCHANGED <<row, adopted, live, resting, exec, engine, seen, halted, gaps, count>>

\* Case (f).  A reconciling row still held by the exchange is reopened once its
\* order is terminal; nothing arms the monitor for it.
Survivor == seen.row = "reconciling" /\ seen.pos /\ row \in {"reconciling", "closing", "pending_open"}

HandleUnknownIntentOutcome ==
    /\ PassStep("f", "idle")
    /\ \/ /\ Survivor /\ row' = "open"
          /\ gaps' = gaps \cup (IF armed \/ typ = "exchange" THEN {} ELSE {"recovered"})
       \/ /\ ~Survivor \/ "orderPending" \in Faults
          /\ UNCHANGED <<row, gaps>>
    /\ engine' = IF engine = "sweep" THEN "caches" ELSE engine
    /\ seen' = NothingSeen
    /\ UNCHANGED <<typ, adopted, live, resting, armed, exec, halted, count>>

Pass ==
    \/ FetchExchangePositions \/ FetchOpenOrders \/ LoadNonClosedPositions
    \/ HandleExchangeNotInDb \/ FlattenAdopted \/ HandleDbOpenNotOnExchange
    \/ HandleProtectiveOrderDrift \/ HandleUnknownIntentOutcome

-----------------------------------------------------------------------------
(* Crash and boot.                                                         *)

Crash ==
    /\ engine # "down" /\ count < MaxTroubles
    /\ engine' = "down" /\ armed' = FALSE /\ exec' = "idle" /\ pass' = "idle" /\ seen' = NothingSeen
    /\ adopted' = IF adopted = "flattening" THEN "held" ELSE adopted
    /\ count' = count + 1
    /\ UNCHANGED <<row, typ, live, resting, halted, gaps>>

\* Phases 2 and 3 are one pass (forceTick), before anything else may run.
Boot ==
    /\ engine = "down" /\ engine' = "sweep" /\ pass' = "idle"
    /\ UNCHANGED <<row, typ, adopted, live, resting, armed, exec, seen, halted, gaps, count>>

ShouldRearmMutant == row \in Alive \ {"reconciling"} /\ typ = "local" /\ row # "pending_open"

ShouldRearm == row \in Alive \ {"reconciling"} /\ (typ = "local" \/ row = "pending_open")

\* Phases 4c to 9, once the sweep has come back; a row whose unwind failed is armed with the others.
Phase4cRearmLocalMonitor ==
    /\ engine = "caches"
    /\ armed' = ShouldRearm /\ engine' = "up" /\ gaps' = gaps \ {"unwound"}
    /\ UNCHANGED <<row, typ, adopted, live, resting, exec, pass, seen, halted, count>>

-----------------------------------------------------------------------------
(* The rest of the system.                                                 *)

\* A reduce order whose outcome is unknown parks the row.
IntentUnknown ==
    /\ engine = "up" /\ row \in {"open", "closing"} /\ row' = "reconciling"
    /\ UNCHANGED <<typ, adopted, live, resting, armed, exec, engine, pass, seen, halted, gaps, count>>

\* StuckPositionSweeper, at boot and on its interval: a row pending for too long is closed as one that
\* was never filled, without a look at the exchange.
SweepOrphanedPendingOpen ==
    /\ engine # "down" /\ row = "pending_open" /\ exec = "idle" /\ row' = "closed" /\ armed' = FALSE
    /\ UNCHANGED <<typ, adopted, live, resting, exec, engine, pass, seen, halted, gaps, count>>

\* The monitor closes the position on a breach.
LocalStop ==
    /\ engine = "up" /\ armed /\ live /\ row \in {"pending_open", "open"} /\ exec = "idle"
    /\ row' = "closed" /\ armed' = FALSE /\ live' = FALSE /\ resting' = {}
    /\ UNCHANGED <<typ, adopted, exec, engine, pass, seen, halted, gaps, count>>

ExchangeStop ==
    /\ live /\ resting # {} /\ live' = FALSE /\ resting' = {}
    /\ UNCHANGED <<row, typ, adopted, armed, exec, engine, pass, seen, halted, gaps, count>>

ExchangeDropsOrder ==
    /\ count < MaxTroubles /\ exec = "idle"
    /\ \E leg \in resting : resting' = resting \ {leg}
    /\ gaps' = gaps \cup {"dropped"} /\ count' = count + 1
    /\ UNCHANGED <<row, typ, adopted, live, armed, exec, engine, pass, seen, halted>>

\* A position the engine did not open.
ForeignPosition ==
    /\ ~live /\ row = "none" /\ adopted = "none" /\ exec = "idle" /\ live' = TRUE
    /\ UNCHANGED <<row, typ, adopted, resting, armed, exec, engine, pass, seen, halted, gaps, count>>

ExecutorFlattens ==
    /\ engine = "up" /\ adopted = "flattening"
    /\ adopted' = "closed" /\ live' = FALSE /\ resting' = {}
    /\ UNCHANGED <<row, typ, armed, exec, engine, pass, seen, halted, gaps, count>>

Halt ==
    /\ ~halted /\ count < MaxTroubles
    /\ halted' = TRUE /\ count' = count + 1
    /\ UNCHANGED <<row, typ, adopted, live, resting, armed, exec, engine, pass, seen, gaps>>

Resume ==
    /\ halted /\ halted' = FALSE
    /\ UNCHANGED <<row, typ, adopted, live, resting, armed, exec, engine, pass, seen, gaps, count>>

Environment ==
    \/ EntryFills \/ IntentUnknown \/ SweepOrphanedPendingOpen \/ LocalStop \/ ExchangeStop \/ ExchangeDropsOrder
    \/ ForeignPosition \/ ExecutorFlattens \/ Halt \/ Resume \/ Crash

Recover == Boot \/ Phase4cRearmLocalMonitor

Next == Executor \/ Pass \/ Recover \/ Environment

\* The pass runs on an interval and each of its awaits returns, with an answer
\* or an error; the executor's awaits return too; a supervisor restarts the
\* process; an approved flatten is carried out; an outage of the exchange's
\* position query ends.
Spec ==
    /\ Init /\ [][Next]_vars
    /\ WF_vars(Executor) /\ WF_vars(Pass) /\ WF_vars(Recover) /\ WF_vars(ExecutorFlattens)
    /\ WF_vars(Resume) /\ SF_vars(FetchExchangePositions /\ seen'.pos = live)

-----------------------------------------------------------------------------
(* Properties.                                                             *)

\* ExecutionService: "a position must never be observable in OPEN without
\* protection".  While the engine runs, an open row of a live position is
\* watched by the monitor or by both exchange orders.
OpenIsProtected == engine = "up" /\ row = "open" /\ live => armed \/ Covered

\* The same, of a pending row too, but for a fill being unwound and for the four ways protection is
\* known to be lost: the exchange dropped an order, the attach save brought back a row the pass had
\* closed and disarmed, a row skipped at boot as reconciling was reopened, and, until the next boot,
\* the flatten of a fill that was not accepted was refused.
ProtectedButForGaps ==
    engine = "up" /\ row \in {"pending_open", "open"} /\ live /\ gaps = {} => armed \/ Covered \/ exec = "unwind"

Naked == engine = "up" /\ row \in {"pending_open", "open", "closing"} /\ typ = "exchange" /\ live /\ ~Covered
Watched == armed \/ ~live \/ row \in {"reconciling", "closed"} \/ engine # "up" \/ exec # "idle"

\* A row that relies on exchange orders which are not all there does not stay
\* so: a pass hands it to the monitor, unless it leaves the open states first.
\* A failed read of the orders errs to the same side.
NakedRepaired == Naked ~> Watched

Orphan == engine = "up" /\ live /\ row \notin Alive /\ adopted \notin {"held", "flattening"}
Adopted == adopted \in {"held", "flattening"} \/ ~live \/ row \in Alive \/ engine # "up"

\* A position the exchange holds and no row stands for (the process died before
\* the insert, or a failed position query let case (b) close the row) gets a row
\* again, and with it the operator's alert.
OrphanAdopted == Orphan ~> Adopted

\* ReconciliationService: under a halt the adopted row is left for now, "and the
\* next tick retries when halt clears".
FlattenRetried == (Flatten /\ adopted = "held" /\ ~halted /\ live) ~> (adopted # "held" \/ halted \/ ~live)
=============================================================================
